-------------------------------- MODULE Comm --------------------------------
(***************************************************************************)
(* What the two serial ports have in common (class Comm and class CComm,   *)
(* chosen by common/com.h): who calls them, and with what buffers.         *)
(***************************************************************************)
EXTENDS Integers, Sequences

CONSTANTS
  Threads,   \* threads that use the port
  Sizes,     \* buffer sizes the callers pass (nChars, size)
  MaxChars   \* bound: characters that arrive

ASSUME SizeAssumption == Sizes \subseteq Nat \ {0}
ASSUME CharsAssumption == MaxChars \in Nat

NoThread == "none"
ASSUME ThreadAssumption == NoThread \notin Threads

\* Room in the buffer of 256 characters for an echo or an answer.
EchoRoom == 255
=============================================================================
