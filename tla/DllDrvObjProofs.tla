--------------------------- MODULE DllDrvObjProofs ---------------------------
(***************************************************************************)
(* Theorems about DllDrvObj, for any number of threads, objects and slots: *)
(* what CanalTables promises of the table on Windows.                      *)
(***************************************************************************)
EXTENDS CanalTables, TLAPS

----------------------------------------------------------------------------
(* Type correctness *)

\* The handle 0 and every slot's handle are in Handles; all are integers, and a
\* handle that getDriverObject accepts is its slot's.
LEMMA HandleFacts ==
  /\ 0 \in Dll!Handles
  /\ \A h \in Dll!Handles : h \in Int /\ Dll!Slot(h) \in Int
  /\ \A h, g \in Dll!Handles : Dll!Slot(h) = Dll!Slot(g) => h = g
  /\ \A s \in Dll!Slots : s \in Int /\ Dll!Slot(s) \notin Dll!Slots
  BY OpenAssumption DEF OpenAssumption, FirstHandle, Dll!Handles, Dll!Slot,
     Dll!Slots, Dll!FirstHandle

\* Looking up an index as if it were a handle finds nothing.
LEMMA NothingFound == Dll!Found = {}
  BY HandleFacts DEF Dll!Found, Dll!GetDriverObject

LEMMA InitType == Dll!Init => Dll!TypeOK
  BY HandleFacts DEF Dll!Init, Dll!TypeOK

LEMMA TypeStep == Dll!TypeOK /\ [Dll!Next]_(Dll!vars) => Dll!TypeOK'
  <1> SUFFICES ASSUME Dll!TypeOK, [Dll!Next]_(Dll!vars) PROVE Dll!TypeOK'
    OBVIOUS
  <1> USE DEF Dll!TypeOK, Dll!Goto, Dll!Return, Dll!Close, Dll!Delete,
              Dll!tableVars, Dll!objVars, Dll!histVars
  <1> USE NameAssumption DEF NameAssumption, NULL, Free, Dll!NULL, Dll!Free
  <1>1. ASSUME NEW t \in Threads, NEW o \in Objects, Dll!CanalOpen(t, o)
        PROVE  Dll!TypeOK'
    BY <1>1 DEF Dll!CanalOpen
  <1>2. ASSUME NEW t \in Threads, Dll!OpenNoPort(t) PROVE Dll!TypeOK'
    BY <1>2 DEF Dll!OpenNoPort
  <1>3. ASSUME NEW t \in Threads, Dll!OpenPort(t) PROVE Dll!TypeOK'
    BY <1>3 DEF Dll!OpenPort
  <1>4. ASSUME NEW t \in Threads, Dll!OpenRefused(t) PROVE Dll!TypeOK'
    BY <1>4 DEF Dll!OpenRefused
  <1>5. ASSUME NEW t \in Threads, Dll!OpenNoWorker(t) PROVE Dll!TypeOK'
    BY <1>5 DEF Dll!OpenNoWorker
  <1>6. ASSUME NEW t \in Threads, Dll!OpenStarts(t) PROVE Dll!TypeOK'
    BY <1>6 DEF Dll!OpenStarts
  <1>7. ASSUME NEW t \in Threads, NEW s \in Dll!Slots, Dll!AddDriverObject(t, s)
        PROVE  Dll!TypeOK'
    BY <1>7 DEF Dll!AddDriverObject
  <1>8. ASSUME NEW t \in Threads, Dll!AddDriverObjectFull(t) PROVE Dll!TypeOK'
    BY <1>8 DEF Dll!AddDriverObjectFull
  <1>9. ASSUME NEW t \in Threads, Dll!DeleteObject(t) PROVE Dll!TypeOK'
    BY <1>9 DEF Dll!DeleteObject
  <1>10. ASSUME NEW t \in Threads, NEW h \in Dll!Handles, Dll!CanalClose(t, h)
         PROVE  Dll!TypeOK'
    <2>1. Dll!Slot(h) \in Dll!Slots
      BY <1>10 DEF Dll!CanalClose, Dll!GetDriverObject
    <2> QED
      BY <1>10, <2>1 DEF Dll!CanalClose, Dll!GetDriverObject
  <1>11. ASSUME NEW t \in Threads, NEW h \in Dll!Handles, Dll!CanalCall(t, h)
         PROVE  Dll!TypeOK'
    <2>1. Dll!Slot(h) \in Dll!Slots
      BY <1>11 DEF Dll!CanalCall, Dll!GetDriverObject
    <2> QED
      BY <1>11, <2>1 DEF Dll!CanalCall, Dll!GetDriverObject
  <1>12. ASSUME NEW t \in Threads, Dll!UseDeleted(t) PROVE Dll!TypeOK'
    BY <1>12 DEF Dll!UseDeleted
  <1>13. ASSUME NEW t \in Threads, Dll!CanalCallReturns(t) PROVE Dll!TypeOK'
    BY <1>13 DEF Dll!CanalCallReturns
  <1>14. ASSUME NEW t \in Threads, Dll!CloseObject(t) PROVE Dll!TypeOK'
    BY <1>14 DEF Dll!CloseObject
  <1>15. ASSUME NEW t \in Threads, Dll!Remove(t) PROVE Dll!TypeOK'
    BY <1>15 DEF Dll!Remove
  <1>16. ASSUME NEW t \in Threads, Dll!Clear(t) PROVE Dll!TypeOK'
    BY <1>16 DEF Dll!Clear
  <1>17. ASSUME NEW o \in Objects, Dll!WorkerEnds(o) PROVE Dll!TypeOK'
    BY <1>17 DEF Dll!WorkerEnds
  <1>18. CASE Dll!Detach
    BY <1>18, NothingFound DEF Dll!Detach
  <1>19. CASE UNCHANGED Dll!vars
    BY <1>19 DEF Dll!vars
  <1> QED
    BY <1>1, <1>2, <1>3, <1>4, <1>5, <1>6, <1>7, <1>8, <1>9, <1>10, <1>11,
       <1>12, <1>13, <1>14, <1>15, <1>16, <1>17, <1>18, <1>19
       DEF Dll!Next, Dll!AtRest

\* The tables start as the one on Windows does, and a step of the other build
\* leaves this one alone.
LEMMA OnlyWindows ==
  /\ TablesInit => Dll!Init
  /\ [TablesNext]_<<system, vars, dllVars>> => [Dll!Next]_(Dll!vars)
  <1>1. TablesInit => Dll!Init
    BY DEF TablesInit
  <1>2. UNCHANGED dllVars => UNCHANGED Dll!vars
    BY DEF dllVars, Dll!vars, Dll!tableVars, Dll!objVars, Dll!histVars
  <1>3. TablesNext => Dll!Next \/ UNCHANGED dllVars
    BY DEF TablesNext
  <1> QED
    BY <1>1, <1>2, <1>3

\* Every state is well typed.
THEOREM TypeCorrect == TablesSpec => []DllTypeOK
  <1> QED
    BY OnlyWindows, InitType, TypeStep, PTL DEF TablesSpec, DllTypeOK

----------------------------------------------------------------------------
(* Ownership of the objects *)

\* The lock is held where removeDriverObject holds it.
Locked == \A t \in Threads : objMutex = t <=> winPc[t] = "clear"

\* What open has reached by the places a thread passes in it.
Opened ==
  \A t \in Threads :
    /\ winPc[t] = "dialogue" => winPobj[t] \in port \cap bRun
    /\ winPc[t] = "adding" => winPobj[t] \in port \cap bRun \cap worker

\* An object that a call has looked up has been in the table and is in no slot
\* but that of the call's handle.
Uses(t) == winPc[t] \in {"close", "remove", "clear", "call"}
LookedUp ==
  \A t \in Threads :
    Uses(t) =>
      /\ winPobj[t] \in born
      /\ \A s \in Dll!Slots :
           drvObjArray[s] = winPobj[t] => s = Dll!Slot(winHandle[t])
      /\ \A u \in Threads : Dll!Opens(u) => winPobj[u] # winPobj[t]
TableBorn ==
  \A s \in Dll!Slots : drvObjArray[s] # Dll!NULL => drvObjArray[s] \in born

Owned ==
  Dll!Ownership /\ Dll!TableOpen /\ Locked /\ Opened /\ LookedUp /\ TableBorn

LEMMA InitOwned == Dll!Init => Owned
  BY NameAssumption DEF Dll!Init, Owned, Dll!Ownership, Dll!TableOpen, Locked,
     Opened, LookedUp, TableBorn, Dll!Opens, Uses, Dll!Cleared,
     NameAssumption, NULL, Free, Dll!NULL, Dll!Free

\* An object changes hands only in a step of its owner; the lock keeps the slot
\* of a deleted object from being given away.
LEMMA OwnedStep == Dll!TypeOK /\ Owned /\ [Dll!Next]_(Dll!vars) => Owned'
  <1> SUFFICES ASSUME Dll!TypeOK, Owned, [Dll!Next]_(Dll!vars) PROVE Owned'
    OBVIOUS
  <1> USE DEF Dll!TypeOK, Owned, Dll!Ownership, Dll!TableOpen, Locked, Opened,
              LookedUp, TableBorn, Dll!Opens, Uses, Dll!Cleared, Dll!Goto,
              Dll!Return, Dll!Close, Dll!Delete,
              Dll!tableVars, Dll!objVars, Dll!histVars
  <1> USE NameAssumption DEF NameAssumption, NULL, Free, Dll!NULL, Dll!Free
  <1>1. ASSUME NEW t \in Threads, NEW o \in Objects, Dll!CanalOpen(t, o)
        PROVE  Owned'
    BY <1>1 DEF Dll!CanalOpen
  <1>2. ASSUME NEW t \in Threads, Dll!OpenNoPort(t) PROVE Owned'
    BY <1>2 DEF Dll!OpenNoPort
  <1>3. ASSUME NEW t \in Threads, Dll!OpenPort(t) PROVE Owned'
    BY <1>3 DEF Dll!OpenPort
  <1>4. ASSUME NEW t \in Threads, Dll!OpenRefused(t) PROVE Owned'
    BY <1>4 DEF Dll!OpenRefused
  <1>5. ASSUME NEW t \in Threads, Dll!OpenNoWorker(t) PROVE Owned'
    BY <1>5 DEF Dll!OpenNoWorker
  <1>6. ASSUME NEW t \in Threads, Dll!OpenStarts(t) PROVE Owned'
    BY <1>6 DEF Dll!OpenStarts
  <1>7. ASSUME NEW t \in Threads, NEW s \in Dll!Slots, Dll!AddDriverObject(t, s)
        PROVE  Owned'
    BY <1>7 DEF Dll!AddDriverObject, Dll!FirstFree
  <1>8. ASSUME NEW t \in Threads, Dll!AddDriverObjectFull(t) PROVE Owned'
    BY <1>8 DEF Dll!AddDriverObjectFull
  <1>9. ASSUME NEW t \in Threads, Dll!DeleteObject(t) PROVE Owned'
    BY <1>9 DEF Dll!DeleteObject
  <1>10. ASSUME NEW t \in Threads, NEW h \in Dll!Handles, Dll!CanalClose(t, h)
        PROVE  Owned'
    BY <1>10 DEF Dll!CanalClose, Dll!GetDriverObject
  <1>11. ASSUME NEW t \in Threads, NEW h \in Dll!Handles, Dll!CanalCall(t, h)
        PROVE  Owned'
    BY <1>11 DEF Dll!CanalCall, Dll!GetDriverObject
  <1>12. ASSUME NEW t \in Threads, Dll!UseDeleted(t) PROVE Owned'
    BY <1>12 DEF Dll!UseDeleted
  <1>13. ASSUME NEW t \in Threads, Dll!CanalCallReturns(t) PROVE Owned'
    BY <1>13 DEF Dll!CanalCallReturns
  <1>14. ASSUME NEW t \in Threads, Dll!CloseObject(t) PROVE Owned'
    BY <1>14 DEF Dll!CloseObject
  <1>15. ASSUME NEW t \in Threads, Dll!Remove(t) PROVE Owned'
    BY <1>15 DEF Dll!Remove
  <1>16. ASSUME NEW t \in Threads, Dll!Clear(t) PROVE Owned'
    BY <1>16 DEF Dll!Clear
  <1>17. ASSUME NEW o \in Objects, Dll!WorkerEnds(o) PROVE Owned'
    BY <1>17 DEF Dll!WorkerEnds
  <1>18. CASE Dll!Detach
    BY <1>18, NothingFound DEF Dll!Detach
  <1>19. CASE UNCHANGED Dll!vars
    BY <1>19 DEF Dll!vars
  <1> QED
    BY <1>1, <1>2, <1>3, <1>4, <1>5, <1>6, <1>7, <1>8, <1>9, <1>10, <1>11,
       <1>12, <1>13, <1>14, <1>15, <1>16, <1>17, <1>18, <1>19
       DEF Dll!Next, Dll!AtRest

\* Whatever handles the application passes, every object has exactly one owner,
\* and no port is open without its object.
THEOREM OwnershipHolds == TablesSpec => []DllOwnership
  <1> QED
    BY OnlyWindows, InitType, TypeStep, InitOwned, OwnedStep, PTL
       DEF TablesSpec, Owned, DllOwnership

\* Whatever handles the application passes, a lookup finds a working channel or
\* one that a CanalClose is at.
THEOREM TableStaysOpen == TablesSpec => []DllTableOpen
  <1> QED
    BY OnlyWindows, InitType, TypeStep, InitOwned, OwnedStep, PTL
       DEF TablesSpec, Owned, DllTableOpen

----------------------------------------------------------------------------
(* The calls of an application that does not misuse its handles *)

\* A handle issued and not yet passed to CanalClose has its object in the table;
\* a call shares its handle with calls only; a thread in CanalClose has the
\* handle, and the slot, to itself.
Closing(t) == winPc[t] \in {"close", "remove", "clear"}
Disciplined ==
  winOrderly =>
    /\ defined
    /\ \A s \in Dll!Slots : winIssued[s] # Dll!NULL =>
         /\ drvObjArray[s] = winIssued[s]
         /\ \A t \in Threads : Closing(t) => Dll!Slot(winHandle[t]) # s
    /\ \A t \in Threads :
         winPc[t] = "call" => winPobj[t] = winMeant[t]
                           /\ winIssued[Dll!Slot(winHandle[t])] = winMeant[t]
    /\ \A t \in Threads :
         winPc[t] \in {"close", "remove"} =>
           /\ winPobj[t] = winMeant[t]
           /\ drvObjArray[Dll!Slot(winHandle[t])] = winMeant[t]
    /\ \A t, u \in Threads :
         Closing(t) /\ Closing(u) /\ winHandle[t] = winHandle[u] => t = u

LEMMA InitDisciplined == Dll!Init => Disciplined
  BY DEF Dll!Init, Disciplined, Closing

\* What a disciplined application's calls find is alive: the slot of an issued
\* handle is not being closed or cleared, one being closed only by that thread.
LEMMA CallsFindOpen == Dll!TypeOK /\ Owned /\ Disciplined => Dll!OrderlyCalls
  <1> SUFFICES ASSUME Dll!TypeOK, Owned, Disciplined, winOrderly
               PROVE  Dll!OrderlyCalls
    BY DEF Dll!OrderlyCalls
  <1> USE DEF Dll!TypeOK, Disciplined, Closing
  <1>1. ASSUME NEW t \in Threads, winPc[t] \in {"call", "close"}
        PROVE  winPobj[t] = winMeant[t] /\ winPobj[t] \in alive \cap port
    <2> DEFINE s == Dll!Slot(winHandle[t])
    <2>1. s \in Dll!Slots /\ winPobj[t] # Dll!NULL /\ winPobj[t] = winMeant[t]
          /\ drvObjArray[s] = winPobj[t]
      BY <1>1
    <2>2. \A u \in Threads :
            winPc[u] \in {"remove", "clear"} => Dll!Slot(winHandle[u]) # s
      BY <1>1, <2>1, HandleFacts
    <2>3. ~Dll!Cleared(s)
      BY <2>2 DEF Dll!Cleared
    <2>4. \A u \in Threads : winPc[u] = "remove" => winPobj[u] # drvObjArray[s]
      BY <2>1, <2>2 DEF Owned, LookedUp, Uses
    <2> QED
      BY <2>1, <2>3, <2>4 DEF Owned, Dll!TableOpen
  <1> QED
    BY <1>1 DEF Dll!OrderlyCalls

LEMMA DisciplinedStep ==
  Dll!TypeOK /\ Owned /\ Disciplined /\ [Dll!Next]_(Dll!vars) => Disciplined'
  <1> SUFFICES ASSUME Dll!TypeOK, Owned, Disciplined, [Dll!Next]_(Dll!vars),
                      winOrderly'
               PROVE  Disciplined'
    BY DEF Disciplined
  <1>a. Dll!OrderlyCalls
    BY CallsFindOpen
  <1> USE HandleFacts, <1>a
  <1> USE DEF Dll!TypeOK, Disciplined, Closing, Dll!Goto, Dll!Return,
              Dll!Close, Dll!Delete,
              Dll!tableVars, Dll!objVars, Dll!histVars, Dll!OrderlyCalls, Owned,
              Locked
  <1> USE NameAssumption DEF NameAssumption, NULL, Free, Dll!NULL, Dll!Free
  <1>1. ASSUME NEW t \in Threads, NEW o \in Objects, Dll!CanalOpen(t, o)
        PROVE  Disciplined'
    BY <1>1 DEF Dll!CanalOpen
  <1>2. ASSUME NEW t \in Threads, Dll!OpenNoPort(t) PROVE Disciplined'
    BY <1>2 DEF Dll!OpenNoPort
  <1>3. ASSUME NEW t \in Threads, Dll!OpenPort(t) PROVE Disciplined'
    BY <1>3 DEF Dll!OpenPort
  <1>4. ASSUME NEW t \in Threads, Dll!OpenRefused(t) PROVE Disciplined'
    BY <1>4 DEF Dll!OpenRefused
  <1>5. ASSUME NEW t \in Threads, Dll!OpenNoWorker(t) PROVE Disciplined'
    BY <1>5 DEF Dll!OpenNoWorker
  <1>6. ASSUME NEW t \in Threads, Dll!OpenStarts(t) PROVE Disciplined'
    BY <1>6 DEF Dll!OpenStarts
  <1>7. ASSUME NEW t \in Threads, NEW s \in Dll!Slots, Dll!AddDriverObject(t, s)
        PROVE  Disciplined'
    BY <1>7 DEF Dll!AddDriverObject, Dll!FirstFree
  <1>8. ASSUME NEW t \in Threads, Dll!AddDriverObjectFull(t) PROVE Disciplined'
    BY <1>8 DEF Dll!AddDriverObjectFull
  <1>9. ASSUME NEW t \in Threads, Dll!DeleteObject(t) PROVE Disciplined'
    BY <1>9 DEF Dll!DeleteObject
  <1>10. ASSUME NEW t \in Threads, NEW h \in Dll!Handles, Dll!CanalClose(t, h)
        PROVE  Disciplined'
    <2>1. /\ winPc[t] = "idle" /\ winOrderly /\ Dll!Slot(h) \in Dll!Slots
          /\ winIssued[Dll!Slot(h)] # Dll!NULL /\ Dll!Using(h) = {}
          /\ winPc' = [winPc EXCEPT ![t] = "close"]
          /\ winPobj' = [winPobj EXCEPT ![t] = drvObjArray[Dll!Slot(h)]]
          /\ winHandle' = [winHandle EXCEPT ![t] = h]
          /\ winMeant' = [winMeant EXCEPT ![t] = winIssued[Dll!Slot(h)]]
          /\ winIssued' = [winIssued EXCEPT ![Dll!Slot(h)] = Dll!NULL]
          /\ UNCHANGED <<drvObjArray, defined>>
      BY <1>10 DEF Dll!CanalClose, Dll!GetDriverObject
    <2>2. \A u \in Threads : Closing(u) \/ winPc[u] = "call"
            => winHandle[u] # h /\ Dll!Slot(winHandle[u]) # Dll!Slot(h)
      BY <2>1 DEF Dll!Using
    <2>3. \A s \in Dll!Slots : winIssued'[s] # Dll!NULL =>
            /\ drvObjArray'[s] = winIssued'[s]
            /\ \A u \in Threads : Closing(u)' => Dll!Slot(winHandle'[u]) # s
      BY <2>1
    <2>4. \A u \in Threads : winPc'[u] = "call" =>
            /\ winPobj'[u] = winMeant'[u]
            /\ winIssued'[Dll!Slot(winHandle'[u])] = winMeant'[u]
      BY <2>1, <2>2
    <2>5. \A u \in Threads : winPc'[u] \in {"close", "remove"} =>
            /\ winPobj'[u] = winMeant'[u]
            /\ drvObjArray'[Dll!Slot(winHandle'[u])] = winMeant'[u]
      BY <2>1
    <2>6. \A u, v \in Threads :
            Closing(u)' /\ Closing(v)' /\ winHandle'[u] = winHandle'[v] => u = v
      BY <2>1, <2>2
    <2>7. defined'
      BY <2>1
    <2> QED
      BY <2>3, <2>4, <2>5, <2>6, <2>7
  <1>11. ASSUME NEW t \in Threads, NEW h \in Dll!Handles, Dll!CanalCall(t, h)
        PROVE  Disciplined'
    <2>1. /\ winPc[t] = "idle" /\ winOrderly /\ Dll!Slot(h) \in Dll!Slots
          /\ winIssued[Dll!Slot(h)] # Dll!NULL
          /\ winPc' = [winPc EXCEPT ![t] = "call"]
          /\ winPobj' = [winPobj EXCEPT ![t] = drvObjArray[Dll!Slot(h)]]
          /\ winHandle' = [winHandle EXCEPT ![t] = h]
          /\ winMeant' = [winMeant EXCEPT ![t] = winIssued[Dll!Slot(h)]]
          /\ UNCHANGED <<drvObjArray, winIssued, defined>>
      BY <1>11 DEF Dll!CanalCall, Dll!GetDriverObject
    <2>2. \A u \in Threads : Closing(u)' => u # t /\ Closing(u)
      BY <2>1
    <2>3. \A s \in Dll!Slots : winIssued'[s] # Dll!NULL =>
            /\ drvObjArray'[s] = winIssued'[s]
            /\ \A u \in Threads : Closing(u)' => Dll!Slot(winHandle'[u]) # s
      BY <2>1, <2>2
    <2>4. \A u \in Threads : winPc'[u] = "call" =>
            /\ winPobj'[u] = winMeant'[u]
            /\ winIssued'[Dll!Slot(winHandle'[u])] = winMeant'[u]
      BY <2>1
    <2>5. \A u \in Threads : winPc'[u] \in {"close", "remove"} =>
            /\ winPobj'[u] = winMeant'[u]
            /\ drvObjArray'[Dll!Slot(winHandle'[u])] = winMeant'[u]
      BY <2>1
    <2>6. \A u, v \in Threads :
            Closing(u)' /\ Closing(v)' /\ winHandle'[u] = winHandle'[v] => u = v
      BY <2>1, <2>2
    <2>7. defined'
      BY <2>1
    <2> QED
      BY <2>3, <2>4, <2>5, <2>6, <2>7
  <1>12. ASSUME NEW t \in Threads, Dll!UseDeleted(t) PROVE Disciplined'
    BY <1>12 DEF Dll!UseDeleted
  <1>13. ASSUME NEW t \in Threads, Dll!CanalCallReturns(t) PROVE Disciplined'
    BY <1>13 DEF Dll!CanalCallReturns
  <1>14. ASSUME NEW t \in Threads, Dll!CloseObject(t) PROVE Disciplined'
    BY <1>14 DEF Dll!CloseObject
  <1>15. ASSUME NEW t \in Threads, Dll!Remove(t) PROVE Disciplined'
    BY <1>15 DEF Dll!Remove
  <1>16. ASSUME NEW t \in Threads, Dll!Clear(t) PROVE Disciplined'
    BY <1>16 DEF Dll!Clear
  <1>17. ASSUME NEW o \in Objects, Dll!WorkerEnds(o) PROVE Disciplined'
    BY <1>17 DEF Dll!WorkerEnds
  <1>18. CASE Dll!Detach
    BY <1>18, NothingFound DEF Dll!Detach
  <1>19. CASE UNCHANGED Dll!vars
    BY <1>19 DEF Dll!vars
  <1> QED
    BY <1>1, <1>2, <1>3, <1>4, <1>5, <1>6, <1>7, <1>8, <1>9, <1>10, <1>11,
       <1>12, <1>13, <1>14, <1>15, <1>16, <1>17, <1>18, <1>19
       DEF Dll!Next, Dll!AtRest

\* As long as no handle is misused, every call works on the open object that its
\* handle was returned for, and none on a deleted one.
THEOREM CallsAreOrderly == TablesSpec => []OrderlyCalls
  <1> QED
    BY OnlyWindows, CallsFindOpen, InitType, TypeStep, InitOwned, OwnedStep,
       InitDisciplined, DisciplinedStep, PTL DEF TablesSpec, OrderlyCalls
=============================================================================
