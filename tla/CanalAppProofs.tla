--------------------------- MODULE CanalAppProofs ---------------------------
(***************************************************************************)
(* Theorems about CanalApp, for any number of threads, objects and slots.  *)
(***************************************************************************)
EXTENDS CanalApp, TLAPS

----------------------------------------------------------------------------
(* Type correctness *)

LEMMA InitType == Init => TypeOK
  <1>1. 0 \in Handles /\ 0 \in 0 .. MaxOpen + 1
    BY OpenAssumption DEF OpenAssumption, Handles
  <1> QED
    BY <1>1 DEF Init, TypeOK, Owner

LEMMA TypeStep == TypeOK /\ [Next]_vars => TypeOK'
  <1> SUFFICES ASSUME TypeOK, [Next]_vars PROVE TypeOK'
    OBVIOUS
  <1> USE DEF TypeOK, Owner
  <1> USE NameAssumption DEF NameAssumption
  <1>1. ASSUME NEW t \in Threads, NEW o \in Objects, CanalOpen(t, o)
        PROVE  TypeOK'
    BY <1>1 DEF CanalOpen
  <1>2. ASSUME NEW t \in Threads, OpenSucceeds(t) PROVE TypeOK'
    BY <1>2 DEF OpenSucceeds
  <1>3. ASSUME NEW t \in Threads, OpenFails(t) PROVE TypeOK'
    BY <1>3 DEF OpenFails
  <1>4. ASSUME NEW t \in Threads, AddDriverObject(t) PROVE TypeOK'
    BY <1>4 DEF AddDriverObject, AddTo, Return
  <1>5. ASSUME NEW t \in Threads, AddDriverObjectFull(t) PROVE TypeOK'
    BY <1>5 DEF AddDriverObjectFull
  <1>6. ASSUME NEW t \in Threads, DeleteObject(t) PROVE TypeOK'
    BY <1>6 DEF DeleteObject, Return
  <1>7. ASSUME NEW t \in Threads, NEW h \in Handles, CanalClose(t, h)
        PROVE  TypeOK'
    BY <1>7 DEF CanalClose, Issued, Lookup
  <1>8. ASSUME NEW t \in Threads, NEW h \in Handles, CanalCall(t, h)
        PROVE  TypeOK'
    BY <1>8 DEF CanalCall, Issued, Lookup
  <1>9. ASSUME NEW t \in Threads, RemoveDriverObject(t) PROVE TypeOK'
    <2>1. handle[t] \in Slots /\ objArray[handle[t]] \in Objects \cup {NULL}
      BY <1>9 DEF RemoveDriverObject
    <2>2. CASE objArray[handle[t]] = NULL
      BY <1>9, <2>1, <2>2 DEF RemoveDriverObject, Return
    <2>3. CASE objArray[handle[t]] # NULL
      BY <1>9, <2>1, <2>3 DEF RemoveDriverObject
    <2> QED
      BY <2>2, <2>3
  <1>10. ASSUME NEW t \in Threads, CloseObject(t) PROVE TypeOK'
    BY <1>10 DEF CloseObject
  <1>11. ASSUME NEW t \in Threads, CanalCallReturns(t) PROVE TypeOK'
    BY <1>11 DEF CanalCallReturns, Return
  <1>12. CASE Exit
    BY <1>12, OpenAssumption DEF Exit, OpenAssumption
  <1>13. CASE ExitSlot
    BY <1>13, OpenAssumption DEF ExitSlot, Slots, OpenAssumption
  <1>14. CASE UNCHANGED vars
    BY <1>14 DEF vars
  <1> QED
    BY <1>1, <1>2, <1>3, <1>4, <1>5, <1>6, <1>7, <1>8, <1>9, <1>10, <1>11,
       <1>12, <1>13, <1>14 DEF Next, AtRest

\* Every state is well typed.
THEOREM TypeCorrect == Spec => []TypeOK
  <1> QED
    BY InitType, TypeStep, PTL DEF Spec

----------------------------------------------------------------------------
(* Ownership of the objects *)

\* What makes Ownership and TableOpen inductive: the object a thread is about
\* to put into the table is open, and the destructor leaves no slot behind.
Opened == \A t \in Threads : pc[t] = "adding" => objState[pobj[t]] = "open"
Cleared == \A s \in Slots : s < exitIdx => objArray[s] = NULL
Owned == Ownership /\ TableOpen /\ Opened /\ Cleared

LEMMA InitOwned == Init => Owned
  BY OpenAssumption, NameAssumption
     DEF Init, Owned, Ownership, TableOpen, Opened, Cleared, Owner, Live, Slots,
         OpenAssumption, NameAssumption

\* Only the step of the thread that owns an object, or of the slot that does,
\* changes the object or passes it on.
LEMMA OwnedStep == TypeOK /\ Owned /\ [Next]_vars => Owned'
  <1> SUFFICES ASSUME TypeOK, Owned, [Next]_vars PROVE Owned'
    OBVIOUS
  <1> USE DEF TypeOK, Owned, Ownership, TableOpen, Opened, Cleared, Owner, Live
  <1> USE NameAssumption DEF NameAssumption
  <1>1. ASSUME NEW t \in Threads, NEW o \in Objects, CanalOpen(t, o)
        PROVE  Owned'
    BY <1>1 DEF CanalOpen
  <1>2. ASSUME NEW t \in Threads, OpenSucceeds(t) PROVE Owned'
    BY <1>2 DEF OpenSucceeds
  <1>3. ASSUME NEW t \in Threads, OpenFails(t) PROVE Owned'
    BY <1>3 DEF OpenFails
  <1>4. ASSUME NEW t \in Threads, AddDriverObject(t) PROVE Owned'
    BY <1>4 DEF AddDriverObject, AddTo, Return, FirstFree, Slots, Running
  <1>5. ASSUME NEW t \in Threads, AddDriverObjectFull(t) PROVE Owned'
    BY <1>5 DEF AddDriverObjectFull
  <1>6. ASSUME NEW t \in Threads, DeleteObject(t) PROVE Owned'
    BY <1>6 DEF DeleteObject, Return
  <1>7. ASSUME NEW t \in Threads, NEW h \in Handles, CanalClose(t, h)
        PROVE  Owned'
    BY <1>7 DEF CanalClose
  <1>8. ASSUME NEW t \in Threads, NEW h \in Handles, CanalCall(t, h)
        PROVE  Owned'
    BY <1>8 DEF CanalCall
  <1>9. ASSUME NEW t \in Threads, RemoveDriverObject(t) PROVE Owned'
    BY <1>9, SMTT(30) DEF RemoveDriverObject, Return, Running, Slots
  <1>10. ASSUME NEW t \in Threads, CloseObject(t) PROVE Owned'
    BY <1>10 DEF CloseObject
  <1>11. ASSUME NEW t \in Threads, CanalCallReturns(t) PROVE Owned'
    BY <1>11 DEF CanalCallReturns, Return
  <1>12. CASE Exit
    BY <1>12 DEF Exit, Slots
  <1>13. CASE ExitSlot
    BY <1>13 DEF ExitSlot, Slots
  <1>14. CASE UNCHANGED vars
    BY <1>14 DEF vars
  <1> QED
    BY <1>1, <1>2, <1>3, <1>4, <1>5, <1>6, <1>7, <1>8, <1>9, <1>10, <1>11,
       <1>12, <1>13, <1>14 DEF Next, AtRest

\* Whatever handles the application passes, every object has exactly one owner.
THEOREM OwnershipHolds == Spec => []Ownership
  <1> QED
    BY InitType, TypeStep, InitOwned, OwnedStep, PTL DEF Spec, Owned

\* Whatever handles the application passes, only open objects are in the table.
THEOREM TableStaysOpen == Spec => []TableOpen
  <1> QED
    BY InitType, TypeStep, InitOwned, OwnedStep, PTL DEF Spec, Owned

----------------------------------------------------------------------------
(* The calls of an application that does not misuse its handles *)

\* Until exit the table has what CanalOpen returned a handle for; a call under
\* way has its handle to itself or shares it with calls only; nothing is under
\* way from exit on.
IssuedInTable == \A s \in Slots : issued[s] # NULL => objArray[s] = issued[s]
Calling(t) ==
  pc[t] = "call" => pobj[t] = meant[t] /\ issued[handle[t]] = meant[t]
Removing(t) ==
  pc[t] = "remove" =>
    /\ objArray[handle[t]] = meant[t] /\ meant[t] # NULL
    /\ issued[handle[t]] = NULL
    /\ \A u \in Threads : pc[u] = "remove" /\ handle[u] = handle[t] => u = t
Disciplined ==
  orderly =>
    /\ Running => IssuedInTable
    /\ ~Running => \A t \in Threads : pc[t] = "idle"
    /\ \A t \in Threads :
         /\ Calling(t) /\ Removing(t)
         /\ pc[t] = "close" => pobj[t] = meant[t]

LEMMA InitDisciplined == Init => Disciplined
  BY DEF Init, Disciplined, Running, IssuedInTable, Calling, Removing

LEMMA DisciplinedStep ==
  TypeOK /\ Disciplined /\ [Next]_vars => Disciplined'
  <1> SUFFICES ASSUME TypeOK, Disciplined, [Next]_vars, orderly'
               PROVE  Disciplined'
    BY DEF Disciplined
  <1> USE DEF TypeOK, Disciplined, IssuedInTable, Calling, Removing, Owner
  <1> USE NameAssumption DEF NameAssumption
  <1>1. ASSUME NEW t \in Threads, NEW o \in Objects, CanalOpen(t, o)
        PROVE  Disciplined'
    BY <1>1 DEF CanalOpen, Running
  <1>2. ASSUME NEW t \in Threads, OpenSucceeds(t) PROVE Disciplined'
    BY <1>2 DEF OpenSucceeds, Running
  <1>3. ASSUME NEW t \in Threads, OpenFails(t) PROVE Disciplined'
    BY <1>3 DEF OpenFails, Running
  <1>4. ASSUME NEW t \in Threads, AddDriverObject(t) PROVE Disciplined'
    BY <1>4 DEF AddDriverObject, AddTo, Return, FirstFree, Running
  <1>5. ASSUME NEW t \in Threads, AddDriverObjectFull(t) PROVE Disciplined'
    BY <1>5 DEF AddDriverObjectFull, Running
  <1>6. ASSUME NEW t \in Threads, DeleteObject(t) PROVE Disciplined'
    BY <1>6 DEF DeleteObject, Return, Running
  <1>7. ASSUME NEW t \in Threads, NEW h \in Handles, CanalClose(t, h)
        PROVE  Disciplined'
    <2>1. /\ pc[t] = "idle" /\ Running /\ Running' /\ orderly /\ h \in Slots
          /\ issued[h] # NULL /\ Using(h) = {}
          /\ issued' = [issued EXCEPT ![h] = NULL]
          /\ pc' = [pc EXCEPT ![t] = "remove"]
          /\ handle' = [handle EXCEPT ![t] = h]
          /\ meant' = [meant EXCEPT ![t] = issued[h]]
          /\ UNCHANGED <<objArray, pobj>>
      BY <1>7 DEF CanalClose, Issued, Lookup, Running
    <2>2. \A u \in Threads : pc[u] \in {"remove", "call"} => handle[u] # h
      BY <2>1 DEF Using
    <2>3. IssuedInTable'
      BY <2>1
    <2>4. ASSUME NEW u \in Threads, u # t
          PROVE  Calling(u)' /\ Removing(u)'
                 /\ (pc'[u] = "close" => pobj'[u] = meant'[u])
      BY <2>1, <2>2, <2>4
    <2>5. Calling(t)' /\ Removing(t)' /\ pc'[t] # "close"
      BY <2>1, <2>2
    <2> QED
      BY <2>1, <2>3, <2>4, <2>5
  <1>8. ASSUME NEW t \in Threads, NEW h \in Handles, CanalCall(t, h)
        PROVE  Disciplined'
    <2>1. /\ pc[t] = "idle" /\ Running /\ Running' /\ orderly /\ h \in Slots
          /\ issued[h] # NULL
          /\ pc' = [pc EXCEPT ![t] = "call"]
          /\ pobj' = [pobj EXCEPT ![t] = objArray[h]]
          /\ handle' = [handle EXCEPT ![t] = h]
          /\ meant' = [meant EXCEPT ![t] = issued[h]]
          /\ UNCHANGED <<objArray, issued>>
      BY <1>8 DEF CanalCall, Issued, Lookup, Running
    <2>2. IssuedInTable'
      BY <2>1
    <2>3. ASSUME NEW u \in Threads, u # t
          PROVE  Calling(u)' /\ Removing(u)'
                 /\ (pc'[u] = "close" => pobj'[u] = meant'[u])
      BY <2>1, <2>3
    <2>4. Calling(t)' /\ Removing(t)' /\ pc'[t] # "close"
      BY <2>1
    <2> QED
      BY <2>1, <2>2, <2>3, <2>4
  <1>9. ASSUME NEW t \in Threads, RemoveDriverObject(t) PROVE Disciplined'
    BY <1>9 DEF RemoveDriverObject, Return, Running
  <1>10. ASSUME NEW t \in Threads, CloseObject(t) PROVE Disciplined'
    BY <1>10 DEF CloseObject, Running
  <1>11. ASSUME NEW t \in Threads, CanalCallReturns(t) PROVE Disciplined'
    BY <1>11 DEF CanalCallReturns, Return, Running
  <1>12. CASE Exit
    BY <1>12 DEF Exit, Running
  <1>13. CASE ExitSlot
    BY <1>13, OpenAssumption DEF ExitSlot, Running, Slots, OpenAssumption
  <1>14. CASE UNCHANGED vars
    BY <1>14 DEF vars, Running
  <1> QED
    BY <1>1, <1>2, <1>3, <1>4, <1>5, <1>6, <1>7, <1>8, <1>9, <1>10, <1>11,
       <1>12, <1>13, <1>14 DEF Next, AtRest

\* As long as no handle is misused, every call reaches the open object that its
\* handle was returned for.
THEOREM CallsReach == Spec => []CallsReachTheirObject
  <1>1. TypeOK /\ Owned /\ Disciplined => CallsReachTheirObject
    <2> SUFFICES ASSUME TypeOK, Owned, Disciplined, orderly, NEW t \in Threads
                 PROVE  /\ pc[t] = "call" => pobj[t] = meant[t]
                                             /\ objState[pobj[t]] = "open"
                        /\ pc[t] = "close" => pobj[t] = meant[t]
      BY DEF CallsReachTheirObject
    <2>1. CASE pc[t] = "call"
      <3>1. /\ handle[t] \in Slots /\ pobj[t] # NULL
            /\ pobj[t] = meant[t] /\ issued[handle[t]] = meant[t]
        BY <2>1 DEF TypeOK, Disciplined, Calling
      <3>2. objArray[handle[t]] = pobj[t]
        BY <2>1, <3>1 DEF Disciplined, IssuedInTable
      <3> QED
        BY <2>1, <3>1, <3>2 DEF Owned, TableOpen
    <2> QED
      BY <2>1 DEF Disciplined
  <1> QED
    BY <1>1, InitType, TypeStep, InitOwned, OwnedStep, InitDisciplined,
       DisciplinedStep, PTL DEF Spec

\* The destructor leaves the table empty, and no object behind if every thread
\* had left the driver.
THEOREM ExitIsComplete == Spec => []ExitDeletesAll
  <1>1. TypeOK /\ Owned /\ Disciplined => ExitDeletesAll
    <2> SUFFICES ASSUME TypeOK, Owned, Disciplined, exitIdx > MaxOpen
                 PROVE  /\ \A s \in Slots : objArray[s] = NULL
                        /\ orderly => Live = {}
      BY DEF ExitDeletesAll
    <2>1. \A s \in Slots : objArray[s] = NULL
      BY OpenAssumption DEF OpenAssumption, Owned, Cleared, Slots, TypeOK
    <2>2. ASSUME orderly PROVE \A t \in Threads : ~Owner(t)
      <3>1. ~Running
        BY OpenAssumption DEF OpenAssumption, Running, TypeOK
      <3>2. \A t \in Threads : pc[t] = "idle"
        BY <2>2, <3>1 DEF Disciplined
      <3> QED
        BY <3>2 DEF Owner
    <2>3. Live \subseteq Objects
      BY DEF Live
    <2> QED
      BY <2>1, <2>2, <2>3, NameAssumption DEF NameAssumption, Owned, Ownership
  <1> QED
    BY <1>1, InitType, TypeStep, InitOwned, OwnedStep, InitDisciplined,
       DisciplinedStep, PTL DEF Spec
=============================================================================
