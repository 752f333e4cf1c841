----------------------------- MODULE CommWin32 -----------------------------
(***************************************************************************)
(* The serial port on Windows (class CComm, common/com_win32.cpp).  It has *)
(* no mutex: a read that wants another timeout saves those of the port,    *)
(* sets its own, reads, and sets the saved ones again, in four calls of    *)
(* the system between which another thread's may come.                     *)
(*                                                                         *)
(* init is called on a port that nobody else uses, every other call when   *)
(* it likes, close in the middle of a read among them.  On an open port    *)
(* the calls that get and set timeouts succeed, on a closed one they fail. *)
(*                                                                         *)
(* A timeout is the ReadTotalTimeoutConstant of the port: "device" as it   *)
(* was found, "object" as init sets it, "call" for the time a read is      *)
(* given, and "never" for 0, with which ReadFile waits for a full buffer.  *)
(***************************************************************************)
EXTENDS Comm

VARIABLES
  hComPort,  \* m_hComPort is not INVALID_HANDLE_VALUE
  timeouts,  \* the port's timeouts
  input,     \* characters arrived and not read
  arrived,   \* characters that have arrived so far
  pc,        \* where each thread's call is
  cap,       \* characters its buffer has room for
  asked,     \* newTimeouts: what its read wants
  old,       \* its oldTimeouts
  result,    \* what its last read returned
  crossed    \* history: since init, a read has saved the timeouts while those
             \* of another read were set

calls == <<cap, asked, old>>
stream == <<input, arrived>>
vars == <<hComPort, timeouts, stream, pc, calls, result, crossed>>

Init ==
  /\ hComPort = FALSE /\ timeouts = "device"
  /\ input = <<>> /\ arrived = 0
  /\ pc = [t \in Threads |-> "idle"]
  /\ cap = [t \in Threads |-> 0]
  /\ asked = [t \in Threads |-> "object"]
  /\ old = [t \in Threads |-> "object"]
  /\ result = [t \in Threads |-> <<>>]
  /\ crossed = FALSE

Timeouts == {"device", "object", "call", "never"}
Initialising == {"init", "initState", "initTimeouts"}

Goto(t, place) == pc' = [pc EXCEPT ![t] = place]

Call(t, place) ==
  /\ pc[t] = "idle"
  /\ \A u \in Threads : pc[u] \notin Initialising /\ (place = "init" => pc[u] = "idle")
  /\ Goto(t, place)

Return(t) ==
  /\ Goto(t, "idle")
  /\ cap' = [cap EXCEPT ![t] = 0]
  /\ asked' = [asked EXCEPT ![t] = "object"]
  /\ old' = [old EXCEPT ![t] = "object"]

----------------------------------------------------------------------------
(* init and close *)

\* PurgeComm and CloseHandle, nothing on a closed port.
Close(t) ==
  /\ Call(t, "idle")
  /\ hComPort' = FALSE /\ input' = <<>>
  /\ UNCHANGED <<timeouts, arrived, calls, result, crossed>>

\* An open port is closed first; then CreateFile, which nobody can share.
CallInit(t) ==
  /\ Call(t, "init")
  /\ hComPort' = FALSE /\ input' = <<>> /\ crossed' = FALSE
  /\ UNCHANGED <<timeouts, arrived, calls, result>>

InitOpens(t) ==
  /\ pc[t] = "init"
  /\ \/ hComPort' = TRUE /\ timeouts' = "device" /\ Goto(t, "initState")
     \/ Goto(t, "idle") /\ UNCHANGED <<hComPort, timeouts>>
  /\ UNCHANGED <<stream, calls, result, crossed>>

\* CloseHandle and FALSE.
GiveUp(t) == hComPort' = FALSE /\ input' = <<>> /\ Goto(t, "idle")

\* GetCommState and SetCommState
InitState(t) ==
  /\ pc[t] = "initState"
  /\ \/ Goto(t, "initTimeouts") /\ UNCHANGED <<hComPort, input>>
     \/ GiveUp(t)
  /\ UNCHANGED <<timeouts, arrived, calls, result, crossed>>

\* SetCommTimeouts and PurgeComm
InitTimeouts(t) ==
  /\ pc[t] = "initTimeouts"
  /\ \/ /\ timeouts' = "object" /\ input' = <<>> /\ Goto(t, "idle")
        /\ UNCHANGED hComPort
     \/ GiveUp(t) /\ UNCHANGED timeouts
  /\ UNCHANGED <<arrived, calls, result, crossed>>

----------------------------------------------------------------------------
(* Reading and writing *)

\* readBuf with room for n characters begins; a negative timeout is "never".
ReadBuf(t, n, timeout) ==
  /\ hComPort
  /\ Call(t, "save")
  /\ cap' = [cap EXCEPT ![t] = n - 1]
  /\ asked' = [asked EXCEPT ![t] = timeout]
  /\ UNCHANGED <<hComPort, timeouts, stream, old, result, crossed>>

\* readChar reads one character in 100 ms; the count it reports is left out.
ReadChar(t) == ReadBuf(t, 2, "call")

\* WriteFile; the echo, if any, is read by readBuf.
Write(t) == ReadBuf(t, EchoRoom + 1, "call")

\* Two writes, and the answer is read by readBuf.
SendCommand(t) == ReadBuf(t, EchoRoom + 1, "call")

\* GetCommTimeouts, which leaves oldTimeouts uninitialized if the port has been
\* closed in between.
SaveTimeouts(t) ==
  /\ pc[t] = "save"
  /\ \E saved \in (IF hComPort THEN {timeouts} ELSE Timeouts) :
       old' = [old EXCEPT ![t] = saved]
  /\ crossed' = (crossed \/ \E u \in Threads \ {t} : pc[u] \in {"read", "restore"})
  /\ Goto(t, "set")
  /\ UNCHANGED <<hComPort, timeouts, stream, cap, asked, result>>

SetTimeouts(t) ==
  /\ pc[t] = "set"
  /\ timeouts' = IF hComPort THEN asked[t] ELSE timeouts
  /\ Goto(t, "read")
  /\ UNCHANGED <<hComPort, stream, calls, result, crossed>>

\* ReadFile returns what has come when the buffer is full or the time over; a
\* read without a timeout ends with a full buffer only.
ReadFile(t) ==
  /\ pc[t] = "read" /\ hComPort
  /\ timeouts = "never" => Len(input) >= cap[t]
  /\ LET n == IF cap[t] < Len(input) THEN cap[t] ELSE Len(input) IN
       /\ result' = [result EXCEPT ![t] = SubSeq(input, 1, n)]
       /\ input' = SubSeq(input, n + 1, Len(input))
  /\ Goto(t, "restore")
  /\ UNCHANGED <<hComPort, timeouts, arrived, calls, crossed>>

\* Mutant: the timeouts are not restored after an error.
ReadFailsLeavesTimeouts(t) ==
  /\ pc[t] = "read"
  /\ Return(t)
  /\ UNCHANGED <<hComPort, timeouts, stream, result, crossed>>

\* ReadFile fails, as it does on a port closed before or meanwhile.
ReadFails(t) ==
  /\ pc[t] = "read"
  /\ Goto(t, "restore")
  /\ UNCHANGED <<hComPort, timeouts, stream, calls, result, crossed>>

RestoreTimeouts(t) ==
  /\ pc[t] = "restore"
  /\ timeouts' = IF hComPort THEN old[t] ELSE timeouts
  /\ Return(t)
  /\ UNCHANGED <<hComPort, stream, result, crossed>>

DrainInput(t) ==
  /\ hComPort /\ Call(t, "idle")
  /\ input' = <<>>
  /\ UNCHANGED <<hComPort, timeouts, arrived, calls, result, crossed>>

Arrive ==
  /\ hComPort /\ arrived < MaxChars
  /\ arrived' = arrived + 1
  /\ input' = Append(input, arrived + 1)
  /\ UNCHANGED <<hComPort, timeouts, pc, calls, result, crossed>>

----------------------------------------------------------------------------
Begin(t) ==
  \/ CallInit(t) \/ Close(t) \/ Write(t) \/ SendCommand(t) \/ ReadChar(t)
  \/ \E n \in Sizes, timeout \in {"call", "never"} : ReadBuf(t, n, timeout)
  \/ DrainInput(t)

Proceed(t) ==
  \/ InitOpens(t) \/ InitState(t) \/ InitTimeouts(t)
  \/ SaveTimeouts(t) \/ SetTimeouts(t) \/ ReadFile(t) \/ ReadFails(t)
  \/ RestoreTimeouts(t)

Next == (\E t \in Threads : Begin(t) \/ Proceed(t)) \/ Arrive

Spec == Init /\ [][Next]_vars

----------------------------------------------------------------------------
(* Properties *)

Places == {"idle", "save", "set", "read", "restore"} \cup Initialising

\* Every variable has its type.
TypeOK ==
  /\ hComPort \in BOOLEAN /\ timeouts \in Timeouts
  /\ input \in Seq(1 .. MaxChars) /\ arrived \in 0 .. MaxChars
  /\ pc \in [Threads -> Places] /\ cap \in [Threads -> Nat]
  /\ asked \in [Threads -> Timeouts] /\ old \in [Threads -> Timeouts]
  /\ result \in [Threads -> Seq(1 .. MaxChars)]
  /\ crossed \in BOOLEAN

\* "Restore old timeouts" (common/com_win32.cpp:205, 259), after a read that
\* failed too, and whatever reads, closes and other calls come between: the
\* timeouts of an open port are those init has set, or those of a call that is
\* still reading; none that has ended leaves its own behind.  There is one
\* exception: a read that saves the timeouts while those of another are set.
TimeoutsRestored ==
  hComPort /\ ~crossed =>
    \/ \E t \in Threads : pc[t] \in Initialising
    \/ timeouts = "object"
    \/ \E t \in Threads : pc[t] \in {"read", "restore"} /\ timeouts = asked[t]
=============================================================================
