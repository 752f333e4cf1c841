---------------------------- MODULE HandleTable ----------------------------
(***************************************************************************)
(* What the handle tables of CanalApp and DllDrvObj have in common.        *)
(***************************************************************************)
EXTENDS Integers

CONSTANTS
  Threads,   \* threads of the application
  Objects,   \* bound: the CCAN232Obj that can be constructed
  MaxOpen    \* CANAL_CAN232_DRIVER_MAX_OPEN

FirstHandle == 1681

ASSUME OpenAssumption == MaxOpen \in 1 .. FirstHandle

NULL == "NULL"
Free == "free"

ASSUME NameAssumption == NULL \notin Objects /\ Free \notin Threads
=============================================================================
