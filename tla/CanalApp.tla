------------------------------ MODULE CanalApp ------------------------------
(***************************************************************************)
(* The CANAL interface (linux/vscpl1drv-can232.cpp): the table of open     *)
(* driver objects that CCan232drvdllApp keeps under m_objMutex, the calls  *)
(* that look objects up in it, and its destructor at process exit.         *)
(*                                                                         *)
(* A handle is written as its slot: handle h + 1680 of the code is h here, *)
(* and 0 is the handle of a failed CanalOpen.  An object is what Can232Obj *)
(* models in detail; only its life from construction to deletion matters   *)
(* here.  Critical sections of m_objMutex are single steps, but for the    *)
(* one of the destructor, which closes every object while it holds it.     *)
(***************************************************************************)
EXTENDS HandleTable

Slots == 1 .. MaxOpen
Handles == 0 .. MaxOpen + 1   \* what an application may pass, good or not

VARIABLES
  objArray,   \* m_objArray
  objState,   \* where each object is in its life
  pc,         \* where each thread is
  pobj,       \* the local pdrvObj or pobj of each thread
  handle,     \* the handle a thread's call was given
  exitIdx,    \* slots the destructor has begun with, 0 before it runs
  issued,     \* history: the object each handle was returned for, until the
              \* application gives the handle to CanalClose
  meant,      \* history: issued[handle] when the call began
  orderly     \* history: no thread has misused a handle so far

vars == <<objArray, objState, pc, pobj, handle, exitIdx, issued, meant, orderly>>

Live == {o \in Objects : objState[o] \in {"new", "open", "closed"}}
Running == exitIdx = 0
Using(h) == {t \in Threads : pc[t] \in {"remove", "call"} /\ handle[t] = h}

Init ==
  /\ objArray = [s \in Slots |-> NULL]
  /\ objState = [o \in Objects |-> "unborn"]
  /\ pc = [t \in Threads |-> "idle"]
  /\ pobj = [t \in Threads |-> NULL]
  /\ handle = [t \in Threads |-> 0]
  /\ exitIdx = 0
  /\ issued = [s \in Slots |-> NULL]
  /\ meant = [t \in Threads |-> NULL]
  /\ orderly = TRUE

Return(t) ==
  /\ pc' = [pc EXCEPT ![t] = "idle"]
  /\ pobj' = [pobj EXCEPT ![t] = NULL]

----------------------------------------------------------------------------
(* CanalOpen: new CCAN232Obj, open, addDriverObject, delete if one failed *)

CanalOpen(t, o) ==
  /\ Running /\ pc[t] = "idle"
  /\ objState[o] = "unborn"
  /\ objState' = [objState EXCEPT ![o] = "new"]
  /\ pobj' = [pobj EXCEPT ![t] = o]
  /\ pc' = [pc EXCEPT ![t] = "opening"]
  /\ UNCHANGED <<objArray, handle, exitIdx, issued, meant, orderly>>

OpenSucceeds(t) ==
  /\ pc[t] = "opening"
  /\ objState' = [objState EXCEPT ![pobj[t]] = "open"]
  /\ pc' = [pc EXCEPT ![t] = "adding"]
  /\ UNCHANGED <<objArray, pobj, handle, exitIdx, issued, meant, orderly>>

OpenFails(t) ==
  /\ pc[t] = "opening"
  /\ pc' = [pc EXCEPT ![t] = "deleting"]
  /\ UNCHANGED <<objArray, objState, pobj, handle, exitIdx, issued, meant,
                 orderly>>

\* Mutants: a full table gives away its last slot; the handle is the
\* previous slot's.
FirstFreeOrLast(s) ==
  IF \A r \in Slots : objArray[r] # NULL THEN s = MaxOpen
  ELSE objArray[s] = NULL /\ \A r \in 1 .. s - 1 : objArray[r] # NULL

AddToPrevious(t, s, h) ==
  /\ objArray' = [objArray EXCEPT ![s] = pobj[t]]
  /\ issued' = [issued EXCEPT ![IF h = 1 THEN h ELSE h - 1] = pobj[t]]
  /\ Return(t)
  /\ UNCHANGED <<objState, handle, exitIdx, meant, orderly>>

\* The first free slot; the handle is the slot's.
FirstFree(s) ==
  /\ objArray[s] = NULL
  /\ \A r \in 1 .. s - 1 : objArray[r] # NULL

AddTo(t, s, h) ==
  /\ objArray' = [objArray EXCEPT ![s] = pobj[t]]
  /\ issued' = [issued EXCEPT ![h] = pobj[t]]
  /\ Return(t)
  /\ UNCHANGED <<objState, handle, exitIdx, meant, orderly>>

AddDriverObject(t) ==
  /\ pc[t] = "adding" /\ Running
  /\ \E s \in Slots : FirstFree(s) /\ AddTo(t, s, s)

\* No slot is free: h stays 0 and CanalOpen deletes the object.
AddDriverObjectFull(t) ==
  /\ pc[t] = "adding" /\ Running
  /\ \A s \in Slots : ~FirstFree(s)
  /\ pc' = [pc EXCEPT ![t] = "deleting"]
  /\ UNCHANGED <<objArray, objState, pobj, handle, exitIdx, issued, meant,
                 orderly>>

\* The destructor closes the object first if it is open.
DeleteObject(t) ==
  /\ pc[t] = "deleting"
  /\ objState' = [objState EXCEPT ![pobj[t]] = "deleted"]
  /\ Return(t)
  /\ UNCHANGED <<objArray, handle, exitIdx, issued, meant, orderly>>

----------------------------------------------------------------------------
(* Calls on a handle *)

\* getDriverObject
Lookup(h) == IF h \in Slots THEN objArray[h] ELSE NULL

Issued(h) == IF h \in Slots THEN issued[h] ELSE NULL

\* A thread that passes a handle it may not use any more, or that closes one
\* while another thread is in a call with it, misuses it.  A call with a handle
\* that finds no object returns at once.
CanalClose(t, h) ==
  /\ Running /\ pc[t] = "idle"
  /\ Lookup(h) # NULL
  /\ pc' = [pc EXCEPT ![t] = "remove"]
  /\ handle' = [handle EXCEPT ![t] = h]
  /\ meant' = [meant EXCEPT ![t] = Issued(h)]
  /\ issued' = [issued EXCEPT ![h] = NULL]
  /\ orderly' = (orderly /\ Issued(h) # NULL /\ Using(h) = {})
  /\ UNCHANGED <<objArray, objState, pobj, exitIdx>>

\* Mutants: what was in the slot is not looked at; the slot keeps the object.
RemoveDriverObjectUnchecked(t) ==
  /\ pc[t] = "remove" /\ Running
  /\ objArray' = [objArray EXCEPT ![handle[t]] = NULL]
  /\ pobj' = [pobj EXCEPT ![t] = objArray[handle[t]]]
  /\ pc' = [pc EXCEPT ![t] = "close"]
  /\ UNCHANGED <<objState, handle, exitIdx, issued, meant, orderly>>

RemoveDriverObjectLate(t) ==
  /\ pc[t] = "remove" /\ Running
  /\ IF objArray[handle[t]] = NULL
     THEN Return(t)
     ELSE /\ pobj' = [pobj EXCEPT ![t] = objArray[handle[t]]]
          /\ pc' = [pc EXCEPT ![t] = "close"]
  /\ UNCHANGED <<objArray, objState, handle, exitIdx, issued, meant, orderly>>

\* The locked part of removeDriverObject, a second look at the table.
RemoveDriverObject(t) ==
  /\ pc[t] = "remove" /\ Running
  /\ objArray' = [objArray EXCEPT ![handle[t]] = NULL]
  /\ IF objArray[handle[t]] = NULL
     THEN Return(t)
     ELSE /\ pobj' = [pobj EXCEPT ![t] = objArray[handle[t]]]
          /\ pc' = [pc EXCEPT ![t] = "close"]
  /\ UNCHANGED <<objState, handle, exitIdx, issued, meant, orderly>>

CloseObject(t) ==
  /\ pc[t] = "close"
  /\ objState' = [objState EXCEPT ![pobj[t]] = "closed"]
  /\ pc' = [pc EXCEPT ![t] = "deleting"]
  /\ UNCHANGED <<objArray, pobj, handle, exitIdx, issued, meant, orderly>>

\* CanalSend, CanalReceive and the other calls that look the object up and use
\* it after m_objMutex is free again.
CanalCall(t, h) ==
  /\ Running /\ pc[t] = "idle"
  /\ Lookup(h) # NULL
  /\ pc' = [pc EXCEPT ![t] = "call"]
  /\ pobj' = [pobj EXCEPT ![t] = Lookup(h)]
  /\ handle' = [handle EXCEPT ![t] = h]
  /\ meant' = [meant EXCEPT ![t] = Issued(h)]
  /\ orderly' = (orderly /\ Issued(h) # NULL)
  /\ UNCHANGED <<objArray, objState, exitIdx, issued>>

CanalCallReturns(t) ==
  /\ pc[t] = "call"
  /\ Return(t)
  /\ UNCHANGED <<objArray, objState, handle, exitIdx, issued, meant, orderly>>

----------------------------------------------------------------------------
(* Process exit: ~CCan232drvdllApp takes the lock and keeps it *)

Exit ==
  /\ Running
  /\ exitIdx' = 1
  /\ orderly' = (orderly /\ \A t \in Threads : pc[t] = "idle")
  /\ UNCHANGED <<objArray, objState, pc, pobj, handle, issued, meant>>

\* Mutant: the last slot is left out.
ExitSlotButLast ==
  /\ exitIdx \in Slots
  /\ IF exitIdx = MaxOpen
     THEN UNCHANGED <<objArray, objState>>
     ELSE /\ objState' = [o \in Objects |-> IF o = objArray[exitIdx]
                                           THEN "deleted" ELSE objState[o]]
          /\ objArray' = [objArray EXCEPT ![exitIdx] = NULL]
  /\ exitIdx' = exitIdx + 1
  /\ UNCHANGED <<pc, pobj, handle, issued, meant, orderly>>

ExitSlot ==
  /\ exitIdx \in Slots
  /\ objState' = [o \in Objects |->
                    IF o = objArray[exitIdx] THEN "deleted" ELSE objState[o]]
  /\ objArray' = [objArray EXCEPT ![exitIdx] = NULL]
  /\ exitIdx' = exitIdx + 1
  /\ UNCHANGED <<pc, pobj, handle, issued, meant, orderly>>

\* The process is over; what a thread still waits for never comes.
AtRest == exitIdx > MaxOpen /\ UNCHANGED vars

----------------------------------------------------------------------------
Next ==
  \/ \E t \in Threads :
       \/ \E o \in Objects : CanalOpen(t, o)
       \/ OpenSucceeds(t) \/ OpenFails(t)
       \/ AddDriverObject(t) \/ AddDriverObjectFull(t)
       \/ DeleteObject(t)
       \/ \E h \in Handles : CanalClose(t, h) \/ CanalCall(t, h)
       \/ RemoveDriverObject(t) \/ CloseObject(t) \/ CanalCallReturns(t)
  \/ Exit \/ ExitSlot \/ AtRest

Spec == Init /\ [][Next]_vars

----------------------------------------------------------------------------
(* Properties *)

Owner(t) == pc[t] \in {"opening", "adding", "deleting", "close"}

\* Every variable has its type, no thread works on a NULL pointer, and only a
\* handle that getDriverObject has checked indexes the table.
TypeOK ==
  /\ objArray \in [Slots -> Objects \cup {NULL}]
  /\ objState \in [Objects -> {"unborn", "new", "open", "closed", "deleted"}]
  /\ pc \in [Threads -> {"idle", "opening", "adding", "deleting", "remove",
                         "close", "call"}]
  /\ pobj \in [Threads -> Objects \cup {NULL}]
  /\ handle \in [Threads -> Handles]
  /\ exitIdx \in 0 .. MaxOpen + 1
  /\ issued \in [Slots -> Objects \cup {NULL}]
  /\ meant \in [Threads -> Objects \cup {NULL}]
  /\ orderly \in BOOLEAN
  /\ \A t \in Threads :
       /\ Owner(t) \/ pc[t] = "call" => pobj[t] # NULL
       /\ pc[t] \in {"remove", "call"} => handle[t] \in Slots

\* Whatever the application does with its handles, every object that exists has
\* exactly one owner, a slot of the table or a thread that opens or closes it:
\* none is leaked and none is deleted twice (addDriverObject's full table,
\* removeDriverObject's detach, concurrent CanalCloses of one handle).
Ownership ==
  /\ \A s, r \in Slots : objArray[s] # NULL /\ objArray[s] = objArray[r] => s = r
  /\ \A t, u \in Threads : Owner(t) /\ Owner(u) /\ pobj[t] = pobj[u] => t = u
  /\ \A t \in Threads, s \in Slots : Owner(t) => objArray[s] # pobj[t]
  /\ \A o \in Objects :
       o \in Live <=> \/ \E s \in Slots : objArray[s] = o
                     \/ \E t \in Threads : Owner(t) /\ pobj[t] = o

\* "no new lookups can see the object" (vscpl1drv-can232.cpp:166): what a call
\* can find in the table is open, neither being closed nor deleted.
TableOpen ==
  \A s \in Slots : objArray[s] # NULL => objState[objArray[s]] = "open"

\* As long as no thread passes a handle that is not open, or closes one that
\* another thread is in a call with, a call works on the open object its handle
\* was returned for and CanalClose closes that one, however slots are reused
\* between its two looks at the table.
CallsReachTheirObject ==
  orderly => \A t \in Threads :
    /\ pc[t] = "call" => pobj[t] = meant[t] /\ objState[pobj[t]] = "open"
    /\ pc[t] = "close" => pobj[t] = meant[t]

\* When the destructor is done the table is empty, and if no call was under way
\* at exit every object has been closed and deleted.
ExitDeletesAll ==
  exitIdx > MaxOpen =>
    /\ \A s \in Slots : objArray[s] = NULL
    /\ orderly => Live = {}
=============================================================================
