----------------------------- MODULE CanalFifo -----------------------------
(***************************************************************************)
(* What an open CANAL channel promises its callers, with no worker thread, *)
(* mutex or serial line in sight: two bounded queues between the           *)
(* application and the bus.  An accepted message leaves for the adapter    *)
(* exactly once and in the order of acceptance; a bus frame reaches the    *)
(* application at most once and never before an earlier one; after the     *)
(* channel is closed nothing moves between the queues and the adapter.     *)
(***************************************************************************)
EXTENDS Naturals, Sequences

CONSTANTS Messages,   \* what the application sends
          Frames,     \* numbers of the bus frames, in bus order
          MaxSnd,     \* room in the send queue
          MaxRcv      \* room in the receive queue

VARIABLES phase,      \* "open", "closing" or "closed"
          sndQ,       \* accepted, not yet written to the adapter
          written,    \* history: messages written to the adapter
          rcvQ,       \* frames received, not yet read
          fetched     \* history: frames read by the application

vars == <<phase, sndQ, written, rcvQ, fetched>>

Init ==
  /\ phase = "open"
  /\ sndQ = <<>> /\ written = <<>>
  /\ rcvQ = <<>> /\ fetched = <<>>

Send(m) ==
  /\ Len(sndQ) < MaxSnd
  /\ sndQ' = Append(sndQ, m)
  /\ UNCHANGED <<phase, written, rcvQ, fetched>>

Transmit ==
  /\ phase # "closed"
  /\ sndQ # <<>>
  /\ written' = Append(written, Head(sndQ))
  /\ sndQ' = Tail(sndQ)
  /\ UNCHANGED <<phase, rcvQ, fetched>>

\* A frame may be lost, but never overtaken or repeated.
Later(f) ==
  /\ \A i \in DOMAIN fetched : fetched[i] < f
  /\ \A i \in DOMAIN rcvQ : rcvQ[i] < f

Deliver(f) ==
  /\ phase # "closed"
  /\ Len(rcvQ) < MaxRcv
  /\ Later(f)
  /\ rcvQ' = Append(rcvQ, f)
  /\ UNCHANGED <<phase, sndQ, written, fetched>>

Receive ==
  /\ rcvQ # <<>>
  /\ fetched' = Append(fetched, Head(rcvQ))
  /\ rcvQ' = Tail(rcvQ)
  /\ UNCHANGED <<phase, sndQ, written>>

Shutdown ==
  /\ phase = "open"
  /\ phase' = "closing"
  /\ UNCHANGED <<sndQ, written, rcvQ, fetched>>

Closed ==
  /\ phase = "closing"
  /\ phase' = "closed"
  /\ UNCHANGED <<sndQ, written, rcvQ, fetched>>

Next ==
  \/ \E m \in Messages : Send(m)
  \/ Transmit
  \/ \E f \in Frames : Deliver(f)
  \/ Receive
  \/ Shutdown
  \/ Closed

Spec == Init /\ [][Next]_vars
=============================================================================
