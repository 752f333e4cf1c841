---------------------------- MODULE MCCan232Obj ----------------------------
(***************************************************************************)
(* Small instances of Can232Obj for TLC, and what the code says of the     *)
(* messages it queues and does not keep.                                   *)
(***************************************************************************)
EXTENDS Can232Obj, TLC

ThreadSymmetry == Permutations(Threads)

\* "One full message received" (linux/can232obj.cpp:654): a message is queued
\* only if it is one frame as it was on the bus.
WholeFrames ==
  \A i \in DOMAIN Obtained : Obtained[i] = Frame(Started(Obtained[i]))
=============================================================================
