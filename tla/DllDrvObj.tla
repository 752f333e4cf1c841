----------------------------- MODULE DllDrvObj -----------------------------
(***************************************************************************)
(* The CANAL interface on Windows (win32/can232drv/can232drv.cpp) and its  *)
(* table of driver objects (common/dlldrvobj.cpp).  It differs from        *)
(* CanalApp where it matters: getDriverObject takes no lock, CanalClose    *)
(* closes the object while it is in the table, and removeDriverObject      *)
(* deletes it before its slot is cleared.                                  *)
(*                                                                         *)
(* Of an object there is its life, its port, m_bRun and its worker.  What  *)
(* follows the use of a deleted object is not described: "defined" is      *)
(* FALSE and nothing moves any more.                                       *)
(***************************************************************************)
EXTENDS HandleTable

Slots == 0 .. MaxOpen - 1
Handles == {0, FirstHandle - 1} \cup FirstHandle .. FirstHandle + MaxOpen

VARIABLES
  drvObjArray,  \* m_drvObjArray
  objMutex,     \* who holds m_objMutex
  loaded,       \* DllMain has not been told of the process's end
  alive,        \* the objects constructed and not yet deleted
  born,         \* the objects constructed so far
  port,         \* the objects whose serial port is open
  bRun,         \* the objects whose m_bRun is set
  worker,       \* the objects whose worker thread runs
  pc,           \* where each thread is
  pobj,         \* pdrvObj of each thread's call
  handle,       \* the handle a thread's call was given
  issued,       \* history: as in CanalApp, what each handle was returned for
  meant,        \* history: issued[handle] when the call began
  orderly,      \* history: no thread has misused a handle so far
  defined       \* history: no call has used a deleted object

tableVars == <<drvObjArray, objMutex, loaded>>
objVars == <<alive, born, port, bRun, worker>>
histVars == <<issued, meant, orderly, defined>>
vars == <<tableVars, objVars, pc, pobj, handle, histVars>>

Slot(h) == h - FirstHandle
Running == loaded /\ defined
Using(h) == {t \in Threads : pc[t] \in {"close", "remove", "clear", "call"}
                             /\ handle[t] = h}

\* DllMain, DLL_PROCESS_ATTACH: the only CDllDrvObj is constructed.
Init ==
  /\ drvObjArray = [s \in Slots |-> NULL]
  /\ objMutex = Free
  /\ loaded = TRUE
  /\ alive = {} /\ born = {} /\ port = {} /\ bRun = {} /\ worker = {}
  /\ pc = [t \in Threads |-> "idle"]
  /\ pobj = [t \in Threads |-> NULL]
  /\ handle = [t \in Threads |-> 0]
  /\ issued = [s \in Slots |-> NULL]
  /\ meant = [t \in Threads |-> NULL]
  /\ orderly = TRUE
  /\ defined = TRUE

Goto(t, l) == pc' = [pc EXCEPT ![t] = l]

Return(t) ==
  /\ Goto(t, "idle")
  /\ pobj' = [pobj EXCEPT ![t] = NULL]

----------------------------------------------------------------------------
(* CanalOpen *)

\* CCAN232Obj::close, nothing but m_bRun if the port is closed: it does not
\* wait for the worker.
Close(o) ==
  /\ bRun' = bRun \ {o}
  /\ port' = port \ {o}

\* The deletion of an object; its destructor closes it.
Delete(o) ==
  /\ alive' = alive \ {o}
  /\ Close(o)

CanalOpen(t, o) ==
  /\ Running /\ pc[t] = "idle"
  /\ o \notin born
  /\ born' = born \cup {o}
  /\ alive' = alive \cup {o}
  /\ pobj' = [pobj EXCEPT ![t] = o]
  /\ Goto(t, "opening")
  /\ UNCHANGED <<tableVars, port, bRun, worker, handle, histVars>>

\* The port is said to be open already, or cannot be opened: open returns with
\* m_bRun set.
OpenNoPort(t) ==
  /\ Running /\ pc[t] = "opening"
  /\ bRun' = bRun \cup {pobj[t]}
  /\ Goto(t, "deleting")
  /\ UNCHANGED <<tableVars, alive, born, port, worker, pobj, handle, histVars>>

OpenPort(t) ==
  /\ Running /\ pc[t] = "opening"
  /\ bRun' = bRun \cup {pobj[t]}
  /\ port' = port \cup {pobj[t]}
  /\ Goto(t, "dialogue")
  /\ UNCHANGED <<tableVars, alive, born, worker, pobj, handle, histVars>>

\* The adapter does not take S, s or O.
OpenRefused(t) ==
  /\ Running /\ pc[t] = "dialogue"
  /\ port' = port \ {pobj[t]}
  /\ Goto(t, "deleting")
  /\ UNCHANGED <<tableVars, alive, born, bRun, worker, pobj, handle, histVars>>

OpenNoWorker(t) ==
  /\ Running /\ pc[t] = "dialogue"
  /\ Close(pobj[t])
  /\ Goto(t, "deleting")
  /\ UNCHANGED <<tableVars, alive, born, worker, pobj, handle, histVars>>

OpenStarts(t) ==
  /\ Running /\ pc[t] = "dialogue"
  /\ worker' = worker \cup {pobj[t]}
  /\ Goto(t, "adding")
  /\ UNCHANGED <<tableVars, alive, born, port, bRun, pobj, handle, histVars>>

\* Mutant: a full table gives away its last slot.
FirstFreeOrLast(s) ==
  IF \A r \in Slots : drvObjArray[r] # NULL THEN s = MaxOpen - 1
  ELSE drvObjArray[s] = NULL /\ \A r \in 0 .. s - 1 : drvObjArray[r] # NULL

FirstFree(s) ==
  /\ drvObjArray[s] = NULL
  /\ \A r \in 0 .. s - 1 : drvObjArray[r] # NULL

\* Mutant: the handle is that of the slot before.
AddDriverObjectPrevious(t, s) ==
  /\ Running /\ pc[t] = "adding"
  /\ objMutex = Free
  /\ FirstFree(s)
  /\ drvObjArray' = [drvObjArray EXCEPT ![s] = pobj[t]]
  /\ issued' = [issued EXCEPT ![IF s = 0 THEN 0 ELSE s - 1] = pobj[t]]
  /\ Return(t)
  /\ UNCHANGED <<objMutex, loaded, objVars, handle, meant, orderly, defined>>

\* The handle is FirstHandle plus the slot.
AddDriverObject(t, s) ==
  /\ Running /\ pc[t] = "adding"
  /\ objMutex = Free
  /\ FirstFree(s)
  /\ drvObjArray' = [drvObjArray EXCEPT ![s] = pobj[t]]
  /\ issued' = [issued EXCEPT ![s] = pobj[t]]
  /\ Return(t)
  /\ UNCHANGED <<objMutex, loaded, objVars, handle, meant, orderly, defined>>

AddDriverObjectFull(t) ==
  /\ Running /\ pc[t] = "adding"
  /\ objMutex = Free
  /\ \A s \in Slots : ~FirstFree(s)
  /\ Goto(t, "deleting")
  /\ UNCHANGED <<tableVars, objVars, pobj, handle, histVars>>

\* What failed is deleted and CanalOpen returns 0.
DeleteObject(t) ==
  /\ Running /\ pc[t] = "deleting"
  /\ Delete(pobj[t])
  /\ Return(t)
  /\ UNCHANGED <<tableVars, born, worker, handle, histVars>>

----------------------------------------------------------------------------
(* Calls on a handle *)

\* getDriverObject: no lock is taken, so the object of a slot that is being
\* cleared is found too.
GetDriverObject(h) == IF Slot(h) \in Slots THEN drvObjArray[Slot(h)] ELSE NULL

\* A thread misuses a handle that it may not use any more, or that it closes
\* while another thread is in a call with it.  A call that finds no object
\* returns at once.
CanalClose(t, h) ==
  /\ Running /\ pc[t] = "idle"
  /\ GetDriverObject(h) # NULL
  /\ pobj' = [pobj EXCEPT ![t] = GetDriverObject(h)]
  /\ handle' = [handle EXCEPT ![t] = h]
  /\ Goto(t, "close")
  /\ meant' = [meant EXCEPT ![t] = issued[Slot(h)]]
  /\ issued' = [issued EXCEPT ![Slot(h)] = NULL]
  /\ orderly' = (orderly /\ issued[Slot(h)] # NULL /\ Using(h) = {})
  /\ UNCHANGED <<tableVars, objVars, defined>>

\* Mutant: a free slot's NULL is used.
CanalCallUnchecked(t, h) ==
  /\ Running /\ pc[t] = "idle"
  /\ Slot(h) \in Slots
  /\ pobj' = [pobj EXCEPT ![t] = GetDriverObject(h)]
  /\ handle' = [handle EXCEPT ![t] = h]
  /\ Goto(t, "call")
  /\ meant' = [meant EXCEPT ![t] = issued[Slot(h)]]
  /\ orderly' = (orderly /\ issued[Slot(h)] # NULL)
  /\ UNCHANGED <<tableVars, objVars, issued, defined>>

\* CanalSend, CanalReceive and the other calls that use an object.
CanalCall(t, h) ==
  /\ Running /\ pc[t] = "idle"
  /\ GetDriverObject(h) # NULL
  /\ pobj' = [pobj EXCEPT ![t] = GetDriverObject(h)]
  /\ handle' = [handle EXCEPT ![t] = h]
  /\ Goto(t, "call")
  /\ meant' = [meant EXCEPT ![t] = issued[Slot(h)]]
  /\ orderly' = (orderly /\ issued[Slot(h)] # NULL)
  /\ UNCHANGED <<tableVars, objVars, issued, defined>>

\* The object's method runs, on memory that may have been deleted since.
UseDeleted(t) ==
  /\ Running /\ pc[t] \in {"close", "call"}
  /\ pobj[t] \notin alive
  /\ defined' = FALSE
  /\ UNCHANGED <<tableVars, objVars, pc, pobj, handle, issued, meant, orderly>>

CanalCallReturns(t) ==
  /\ Running /\ pc[t] = "call"
  /\ pobj[t] \in alive
  /\ Return(t)
  /\ UNCHANGED <<tableVars, objVars, handle, histVars>>

CloseObject(t) ==
  /\ Running /\ pc[t] = "close"
  /\ pobj[t] \in alive
  /\ Close(pobj[t])
  /\ Goto(t, "remove")
  /\ UNCHANGED <<tableVars, alive, born, worker, pobj, handle, histVars>>

\* removeDriverObject deletes what is in the slot by now, whatever was closed.
Remove(t) ==
  LET o == drvObjArray[Slot(handle[t])] IN
  /\ Running /\ pc[t] = "remove"
  /\ objMutex = Free
  /\ objMutex' = t
  /\ Goto(t, "clear")
  /\ IF o = NULL
     THEN UNCHANGED <<alive, bRun, port>>
     ELSE Delete(o)
  /\ UNCHANGED <<drvObjArray, loaded, born, worker, pobj, handle, histVars>>

\* Mutant: the slot is not cleared.
ClearNothing(t) ==
  /\ Running /\ pc[t] = "clear"
  /\ objMutex' = Free
  /\ Return(t)
  /\ UNCHANGED <<drvObjArray, loaded, objVars, handle, histVars>>

Clear(t) ==
  /\ Running /\ pc[t] = "clear"
  /\ drvObjArray' = [drvObjArray EXCEPT ![Slot(handle[t])] = NULL]
  /\ objMutex' = Free
  /\ Return(t)
  /\ UNCHANGED <<loaded, objVars, handle, histVars>>

----------------------------------------------------------------------------
(* The workers and the end of the process *)

\* A worker ends when it finds m_bRun cleared; in a deleted object it may read
\* anything there.
WorkerEnds(o) ==
  /\ Running /\ o \in worker
  /\ o \notin bRun \/ o \notin alive
  /\ worker' = worker \ {o}
  /\ UNCHANGED <<tableVars, alive, born, port, bRun, pc, pobj, handle, histVars>>

\* DllMain, DLL_PROCESS_DETACH: the destructor of CDllDrvObj asks
\* getDriverObject for an index where it takes a handle.  The system has ended
\* the other threads, and gives away a mutex they held.
Found == {s \in Slots : drvObjArray[s] # NULL /\ GetDriverObject(s) # NULL}

Detach ==
  LET closed == {GetDriverObject(s) : s \in Found}
      deleted == {drvObjArray[s] : s \in Found} IN
  /\ Running
  /\ loaded' = FALSE
  /\ port' = port \ (closed \cup deleted)
  /\ bRun' = bRun \ (closed \cup deleted)
  /\ alive' = alive \ deleted
  /\ drvObjArray' = [s \in Slots |-> IF s \in Found THEN NULL ELSE drvObjArray[s]]
  /\ UNCHANGED <<objMutex, born, worker, pc, pobj, handle, histVars>>

AtRest == ~Running /\ UNCHANGED vars

----------------------------------------------------------------------------
Next ==
  \/ \E t \in Threads :
       \/ \E o \in Objects : CanalOpen(t, o)
       \/ OpenNoPort(t) \/ OpenPort(t) \/ OpenRefused(t)
       \/ OpenNoWorker(t) \/ OpenStarts(t)
       \/ \E s \in Slots : AddDriverObject(t, s)
       \/ AddDriverObjectFull(t) \/ DeleteObject(t)
       \/ \E h \in Handles : CanalClose(t, h) \/ CanalCall(t, h)
       \/ UseDeleted(t) \/ CanalCallReturns(t)
       \/ CloseObject(t) \/ Remove(t) \/ Clear(t)
  \/ \E o \in Objects : WorkerEnds(o)
  \/ Detach \/ AtRest

Spec == Init /\ [][Next]_vars

----------------------------------------------------------------------------
(* Properties *)

Opens(t) == pc[t] \in {"opening", "dialogue", "adding", "deleting"}

\* Every variable has its type; a thread in a call has an object, and a handle
\* that getDriverObject has checked.
TypeOK ==
  /\ drvObjArray \in [Slots -> Objects \cup {NULL}]
  /\ objMutex \in Threads \cup {Free}
  /\ loaded \in BOOLEAN
  /\ alive \subseteq born /\ born \subseteq Objects
  /\ port \subseteq Objects /\ bRun \subseteq Objects /\ worker \subseteq Objects
  /\ pc \in [Threads -> {"idle", "opening", "dialogue", "adding", "deleting",
                         "close", "remove", "clear", "call"}]
  /\ pobj \in [Threads -> Objects \cup {NULL}]
  /\ handle \in [Threads -> Handles]
  /\ issued \in [Slots -> Objects \cup {NULL}]
  /\ meant \in [Threads -> Objects \cup {NULL}]
  /\ orderly \in BOOLEAN /\ defined \in BOOLEAN
  /\ \A t \in Threads :
       /\ pc[t] # "idle" => pobj[t] # NULL
       /\ pc[t] \in {"close", "remove", "clear", "call"}
            => Slot(handle[t]) \in Slots

\* The slot that removeDriverObject has just emptied of its object, but not
\* cleared.
Cleared(s) == \E t \in Threads : objMutex = t /\ pc[t] = "clear"
                                 /\ Slot(handle[t]) = s

\* Whatever handles the application passes, and whoever closes them at the same
\* time: until a call uses a deleted object, every object has exactly one owner,
\* a slot or the thread that opens it, so that none is leaked and none deleted
\* twice; and a port is open only for an object that exists, that is, it is
\* closed when CanalOpen fails and when CanalClose returns.
Ownership ==
  /\ \A s, r \in Slots :
       drvObjArray[s] # NULL /\ drvObjArray[s] = drvObjArray[r] => s = r
  /\ \A t, u \in Threads : Opens(t) /\ Opens(u) /\ pobj[t] = pobj[u] => t = u
  /\ \A t \in Threads, s \in Slots : Opens(t) => drvObjArray[s] # pobj[t]
  /\ \A o \in Objects :
       o \in alive <=> \/ \E s \in Slots : drvObjArray[s] = o /\ ~Cleared(s)
                       \/ \E t \in Threads : Opens(t) /\ pobj[t] = o
  /\ port \subseteq alive

\* Whatever handles the application passes: what a lookup without the lock can
\* find is a channel with its port open and its worker running, unless some
\* CanalClose has closed it and not yet cleared its slot.
TableOpen ==
  \A s \in Slots :
    \/ drvObjArray[s] = NULL
    \/ Cleared(s)
    \/ drvObjArray[s] \in alive \cap port \cap bRun \cap worker
    \/ \E t \in Threads : pc[t] = "remove" /\ pobj[t] = drvObjArray[s]

\* As long as no thread passes a handle that is not open, or closes one that
\* another thread is in a call with, no call uses a deleted object, each works on
\* the open object its handle was returned for, and CanalClose deletes the one it
\* has closed, although neither lookup nor call is under the lock.
OrderlyCalls ==
  orderly =>
    /\ defined
    /\ \A t \in Threads :
         /\ pc[t] \in {"call", "close"} => pobj[t] = meant[t]
                                           /\ pobj[t] \in alive \cap port
         /\ pc[t] = "remove" => drvObjArray[Slot(handle[t])] = meant[t]
                                /\ pobj[t] = meant[t]
=============================================================================
