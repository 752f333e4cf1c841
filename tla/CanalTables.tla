---------------------------- MODULE CanalTables ----------------------------
(***************************************************************************)
(* The two handle tables: the build takes one of the two, for Linux and    *)
(* macOS (CanalApp) or for Windows (DllDrvObj).                            *)
(***************************************************************************)
EXTENDS CanalApp

VARIABLES
  system,    \* the system built for
  drvObjArray, objMutex, loaded, alive, born, port, bRun, worker, winPc,
  winPobj, winHandle, winIssued, winMeant, winOrderly, defined

Dll == INSTANCE DllDrvObj WITH
         pc <- winPc, pobj <- winPobj, handle <- winHandle,
         issued <- winIssued, meant <- winMeant, orderly <- winOrderly

dllVars == <<drvObjArray, objMutex, loaded, alive, born, port, bRun, worker,
             winPc, winPobj, winHandle, winIssued, winMeant, winOrderly,
             defined>>

TablesInit == system \in {"posix", "windows"} /\ Init /\ Dll!Init

TablesNext ==
  /\ UNCHANGED system
  /\ \/ system = "posix" /\ Next /\ UNCHANGED dllVars
     \/ system = "windows" /\ Dll!Next /\ UNCHANGED vars

TablesSpec == TablesInit /\ [][TablesNext]_<<system, vars, dllVars>>

----------------------------------------------------------------------------
(* The properties of the table on Windows; those of the other are CanalApp's *)

\* Every variable of the Windows table has its type.
DllTypeOK == Dll!TypeOK

\* On Windows each object has one owner, a slot or a thread, and no port outlives
\* its object.
DllOwnership == Dll!Ownership

\* On Windows, where lookups take no lock, the table holds working channels, or
\* ones that a CanalClose is at.
DllTableOpen == Dll!TableOpen

\* On Windows no call of an orderly application uses a deleted object.
OrderlyCalls == Dll!OrderlyCalls
=============================================================================
