----------------------------- MODULE SerialPort -----------------------------
(***************************************************************************)
(* What a serial port promises the calls that use it, with no descriptor,  *)
(* mutex, timeout or partial read in sight: the characters that arrive are *)
(* handed out in order, each to one call, and a call gets neighbours: what *)
(* it returns was taken in one piece.                                      *)
(***************************************************************************)
EXTENDS Naturals, Sequences

CONSTANTS Callers,   \* threads that use the port
          Chars      \* the characters, each with its number

VARIABLES up,        \* the port is open
          unread,    \* characters no call has got
          result     \* what each caller's last read returned

vars == <<up, unread, result>>

Init ==
  /\ up = FALSE
  /\ unread = <<>>
  /\ result = [c \in Callers |-> <<>>]

Open ==
  /\ ~up /\ up'
  /\ unread' \in Seq(Chars)
  /\ UNCHANGED result

Close ==
  /\ up /\ ~up'
  /\ unread' = <<>>
  /\ UNCHANGED result

Arrive(c) ==
  /\ up
  /\ unread' = Append(unread, c)
  /\ UNCHANGED <<up, result>>

\* A read returns the first n characters; none when its time is over, and none
\* if the port has been closed since the read was called.
Read(t, n) ==
  /\ result' = [result EXCEPT ![t] = SubSeq(unread, 1, n)]
  /\ unread' = SubSeq(unread, n + 1, Len(unread))
  /\ UNCHANGED up

\* What has come is thrown away, but for n characters a read has begun with.
Drain(n) ==
  /\ up
  /\ unread' = SubSeq(unread, 1, n)
  /\ UNCHANGED <<up, result>>

Next ==
  \/ Open \/ Close
  \/ \E c \in Chars : Arrive(c)
  \/ \E n \in 0 .. Len(unread) : Drain(n) \/ \E t \in Callers : Read(t, n)

Spec == Init /\ [][Next]_vars
=============================================================================
