-------------------------- MODULE CommWin32Proofs --------------------------
(***************************************************************************)
(* Theorems about CommWin32, for any number of threads, buffer sizes and   *)
(* characters, and any interleaving of the calls: what CommPorts promises  *)
(* of the port on Windows.                                                 *)
(***************************************************************************)
EXTENDS CommPorts, SequenceTheorems, TLAPS

----------------------------------------------------------------------------
(* The inductive invariant *)

\* init is called alone.
Solitude ==
  \A t, u \in Threads : winPc[t] \in Win!Initialising /\ u # t => winPc[u] = "idle"

\* init opens a port that is closed.
Progress == \A t \in Threads : winPc[t] = "init" => ~hComPort

\* Every read that will restore timeouts has saved those of init, as long as
\* none has saved another's.
Saved ==
  hComPort /\ ~crossed =>
    \A t \in Threads : winPc[t] \in {"set", "read", "restore"} => old[t] = "object"

Control == Solitude /\ Progress /\ Saved /\ Win!TimeoutsRestored

Inv == Win!TypeOK /\ Control

LEMMA EmptySequence == <<>> \in Seq(1 .. MaxChars)
  BY EmptySeq

LEMMA InitInv == Win!Init => Inv
  <1> SUFFICES ASSUME Win!Init PROVE Inv
    OBVIOUS
  <1>1. Win!TypeOK
    <2>1. hComPort \in BOOLEAN /\ crossed \in BOOLEAN
      BY DEF Win!Init
    <2>2. /\ winPc \in [Threads -> Win!Places]
          /\ asked \in [Threads -> Win!Timeouts]
          /\ old \in [Threads -> Win!Timeouts] /\ timeouts \in Win!Timeouts
      BY DEF Win!Init, Win!Places, Win!Timeouts
    <2>3. winInput \in Seq(1 .. MaxChars) /\ winArrived \in 0 .. MaxChars
          /\ winResult \in [Threads -> Seq(1 .. MaxChars)]
      BY CharsAssumption, EmptySequence DEF Win!Init, CharsAssumption
    <2> QED
      BY <2>1, <2>2, <2>3 DEF Win!Init, Win!TypeOK
  <1>2. Control
    BY DEF Win!Init, Control, Solitude, Progress, Saved, Win!TimeoutsRestored,
       Win!Initialising
  <1> QED
    BY <1>1, <1>2 DEF Inv

----------------------------------------------------------------------------
(* Types *)

\* What the timeouts and the calls are.
ControlTypes ==
  /\ timeouts \in Win!Timeouts /\ winArrived \in 0 .. MaxChars
  /\ winPc \in [Threads -> Win!Places] /\ winCap \in [Threads -> Nat]
  /\ asked \in [Threads -> Win!Timeouts] /\ old \in [Threads -> Win!Timeouts]

\* What has come and what has been read.
StreamTypes ==
  /\ winInput \in Seq(1 .. MaxChars)
  /\ winResult \in [Threads -> Seq(1 .. MaxChars)]

LEMMA PortTypes ==
  Win!TypeOK /\ [Win!Next]_(Win!vars) => hComPort' \in BOOLEAN /\ crossed' \in BOOLEAN
  <1> SUFFICES ASSUME Win!TypeOK, [Win!Next]_(Win!vars)
               PROVE  hComPort' \in BOOLEAN /\ crossed' \in BOOLEAN
    OBVIOUS
  <1> USE DEF Win!Next, Win!Begin, Win!Proceed, Win!CallInit, Win!Close,
       Win!Write, Win!SendCommand, Win!ReadChar, Win!ReadBuf, Win!DrainInput,
       Win!InitOpens, Win!InitState, Win!InitTimeouts, Win!SaveTimeouts,
       Win!SetTimeouts, Win!ReadFile, Win!ReadFails, Win!RestoreTimeouts,
       Win!GiveUp, Win!Arrive, Win!vars
  <1>1. hComPort' = hComPort \/ hComPort' = FALSE \/ hComPort' = TRUE
    BY Zenon
  <1>2. \/ crossed' = crossed \/ crossed' = FALSE
        \/ \E t \in Threads :
             crossed' = (crossed \/ \E u \in Threads \ {t} :
                                       winPc[u] \in {"read", "restore"})
    BY Zenon
  <1>3. hComPort \in BOOLEAN /\ crossed \in BOOLEAN
    BY DEF Win!TypeOK
  <1>4. hComPort' \in BOOLEAN
    BY <1>1, <1>3, Zenon
  <1>5. crossed' \in BOOLEAN
    BY <1>2, <1>3, Zenon
  <1> QED
    BY <1>4, <1>5

LEMMA BeginReadTypes ==
  ASSUME Win!TypeOK, NEW t \in Threads, NEW n \in Nat, n > 0,
         NEW w \in {"call", "never"},
         Win!ReadBuf(t, n, w)
  PROVE  ControlTypes' /\ StreamTypes'
  <1>1. n - 1 \in Nat
    OBVIOUS
  <1>2. winCap' \in [Threads -> Nat]
    BY <1>1 DEF Win!ReadBuf, Win!TypeOK
  <1>3. asked' \in [Threads -> Win!Timeouts]
    BY DEF Win!ReadBuf, Win!TypeOK, Win!Timeouts
  <1>4. winPc' \in [Threads -> Win!Places]
    BY DEF Win!ReadBuf, Win!Call, Win!Goto, Win!TypeOK, Win!Places
  <1> QED
    BY <1>2, <1>3, <1>4 DEF Win!ReadBuf, Win!stream, Win!TypeOK, ControlTypes,
       StreamTypes

LEMMA BeginTypes ==
  ASSUME Win!TypeOK, NEW t \in Threads, Win!Begin(t)
  PROVE  ControlTypes' /\ StreamTypes'
  <1>1. CASE Win!CallInit(t) \/ Win!Close(t) \/ Win!DrainInput(t)
    <2>1. winPc' \in [Threads -> Win!Places]
      BY <1>1 DEF Win!CallInit, Win!Close, Win!DrainInput, Win!Call, Win!Goto,
         Win!TypeOK, Win!Places, Win!Initialising
    <2> QED
      BY <1>1, <2>1, EmptySequence DEF Win!CallInit, Win!Close, Win!DrainInput,
         Win!calls, Win!TypeOK, ControlTypes, StreamTypes
  <1>2. CASE Win!Write(t) \/ Win!SendCommand(t) \/ Win!ReadChar(t)
    BY <1>2, BeginReadTypes DEF Win!Write, Win!SendCommand, Win!ReadChar,
       Win!EchoRoom
  <1>3. ASSUME NEW n \in Sizes, NEW w \in {"call", "never"},
               Win!ReadBuf(t, n, w)
        PROVE  ControlTypes' /\ StreamTypes'
    BY <1>3, BeginReadTypes, SizeAssumption DEF SizeAssumption
  <1> QED
    BY <1>1, <1>2, <1>3 DEF Win!Begin

LEMMA PartTypes ==
  ASSUME NEW S, NEW s \in Seq(S), NEW n \in 0 .. Len(s)
  PROVE  SubSeq(s, 1, n) \in Seq(S) /\ SubSeq(s, n + 1, Len(s)) \in Seq(S)
  <1>1. Len(s) \in Nat /\ \A i \in 1 .. Len(s) : s[i] \in S
    BY ElementOfSeq, LenProperties
  <1>2. \A i \in 1 .. n : s[i] \in S
    BY <1>1
  <1>3. \A i \in n + 1 .. Len(s) : s[i] \in S
    BY <1>1
  <1>4. 1 \in Int /\ n \in Int /\ n + 1 \in Int /\ Len(s) \in Int
    BY <1>1
  <1> QED
    BY <1>2, <1>3, <1>4, SubSeqProperties

\* How much of what has come fits.
Fits(t) == IF winCap[t] < Len(winInput) THEN winCap[t] ELSE Len(winInput)

LEMMA FitsTypes ==
  ASSUME Win!TypeOK, NEW t \in Threads
  PROVE  Fits(t) \in 0 .. Len(winInput)
  <1>1. winCap[t] \in Nat /\ Len(winInput) \in Nat
    BY LenProperties DEF Win!TypeOK
  <1> QED
    BY <1>1 DEF Fits

LEMMA ProceedTypes ==
  ASSUME Win!TypeOK, NEW t \in Threads, Win!Proceed(t)
  PROVE  ControlTypes' /\ StreamTypes'
  <1>1. winPc' \in [Threads -> Win!Places]
    BY DEF Win!Proceed, Win!InitOpens, Win!InitState, Win!InitTimeouts,
       Win!GiveUp, Win!SaveTimeouts, Win!SetTimeouts, Win!ReadFile,
       Win!ReadFails, Win!RestoreTimeouts, Win!Return, Win!Goto, Win!TypeOK,
       Win!Places, Win!Initialising
  <1>2. CASE Win!InitOpens(t) \/ Win!InitState(t) \/ Win!InitTimeouts(t)
    BY <1>1, <1>2, EmptySequence DEF Win!InitOpens, Win!InitState,
       Win!InitTimeouts, Win!GiveUp, Win!calls, Win!stream, Win!TypeOK,
       ControlTypes, StreamTypes, Win!Timeouts
  <1>3. CASE Win!SaveTimeouts(t)
    <2>1. old' \in [Threads -> Win!Timeouts]
      BY <1>3 DEF Win!SaveTimeouts, Win!TypeOK
    <2> QED
      BY <1>1, <1>3, <2>1 DEF Win!SaveTimeouts, Win!stream, Win!TypeOK,
         ControlTypes, StreamTypes
  <1>4. CASE Win!SetTimeouts(t)
    BY <1>1, <1>4 DEF Win!SetTimeouts, Win!calls, Win!stream, Win!TypeOK,
       ControlTypes, StreamTypes
  <1>5. CASE Win!ReadFile(t)
    <2>1. /\ SubSeq(winInput, 1, Fits(t)) \in Seq(1 .. MaxChars)
          /\ SubSeq(winInput, Fits(t) + 1, Len(winInput)) \in Seq(1 .. MaxChars)
      BY FitsTypes, PartTypes DEF Win!TypeOK
    <2>2. /\ winResult' = [winResult EXCEPT ![t] = SubSeq(winInput, 1, Fits(t))]
          /\ winInput' = SubSeq(winInput, Fits(t) + 1, Len(winInput))
          /\ UNCHANGED <<timeouts, winArrived, Win!calls>>
      BY <1>5 DEF Win!ReadFile, Fits
    <2>3. StreamTypes'
      BY <2>1, <2>2 DEF Win!TypeOK, StreamTypes
    <2> QED
      BY <1>1, <2>2, <2>3 DEF Win!calls, Win!TypeOK, ControlTypes
  <1>6. CASE Win!ReadFails(t)
    BY <1>1, <1>6 DEF Win!ReadFails, Win!calls, Win!stream, Win!TypeOK,
       ControlTypes, StreamTypes
  <1>7. CASE Win!RestoreTimeouts(t)
    <2>1. /\ winCap' \in [Threads -> Nat]
          /\ asked' \in [Threads -> Win!Timeouts]
          /\ old' \in [Threads -> Win!Timeouts]
      BY <1>7 DEF Win!RestoreTimeouts, Win!Return, Win!TypeOK, Win!Timeouts
    <2> QED
      BY <1>1, <1>7, <2>1 DEF Win!RestoreTimeouts, Win!stream, Win!TypeOK,
         ControlTypes, StreamTypes
  <1> QED
    BY <1>2, <1>3, <1>4, <1>5, <1>6, <1>7 DEF Win!Proceed

LEMMA TypeStep == Win!TypeOK /\ [Win!Next]_(Win!vars) => Win!TypeOK'
  <1> SUFFICES ASSUME Win!TypeOK, [Win!Next]_(Win!vars) PROVE Win!TypeOK'
    OBVIOUS
  <1>1. CASE Win!Arrive
    <2>1. winArrived + 1 \in 1 .. MaxChars /\ winArrived' = winArrived + 1
      BY <1>1, CharsAssumption DEF Win!Arrive, Win!TypeOK, CharsAssumption
    <2>2. winInput' \in Seq(1 .. MaxChars)
      BY <1>1, <2>1, AppendProperties DEF Win!Arrive, Win!TypeOK
    <2> QED
      BY <1>1, <2>1, <2>2, PortTypes DEF Win!Arrive, Win!calls, Win!TypeOK
  <1>2. CASE UNCHANGED Win!vars
    BY <1>2 DEF Win!vars, Win!stream, Win!calls, Win!TypeOK
  <1>3. ASSUME ControlTypes' /\ StreamTypes' PROVE Win!TypeOK'
    BY <1>3, PortTypes DEF Win!TypeOK, ControlTypes, StreamTypes
  <1> QED
    BY <1>1, <1>2, <1>3, BeginTypes, ProceedTypes DEF Win!Next

----------------------------------------------------------------------------
(* The rest of the invariant *)

\* A step takes thread t to place p: what it must see to for the rest.
LEMMA Moves ==
  ASSUME Inv, NEW t \in Threads, NEW p, Win!Goto(t, p),
         p \in Win!Initialising =>
           winPc[t] \in Win!Initialising \/ \A u \in Threads : winPc[u] = "idle",
         winPc[t] = "idle" => \A u \in Threads : winPc[u] \notin Win!Initialising,
         p = "init" => ~hComPort',
         hComPort' => hComPort \/ p = "initState"
  PROVE  /\ winPc'[t] = p /\ \A u \in Threads : u # t => winPc'[u] = winPc[u]
         /\ Solitude' /\ Progress'
  <1>1. winPc'[t] = p /\ \A u \in Threads : u # t => winPc'[u] = winPc[u]
    BY DEF Win!Goto, Win!TypeOK, Inv
  <1>2. Solitude'
    BY <1>1 DEF Solitude, Inv, Control
  <1>3. Progress'
    <2> SUFFICES ASSUME NEW u \in Threads, winPc'[u] = "init" PROVE ~hComPort'
      BY DEF Progress
    <2>1. CASE u = t
      BY <1>1, <2>1
    <2>2. CASE u # t
      <3>1. winPc[u] = "init"
        BY <1>1, <2>2
      <3>2. ~hComPort /\ winPc[t] = "idle"
        BY <2>2, <3>1 DEF Inv, Control, Progress, Solitude, Win!Initialising
      <3> QED
        BY <3>1, <3>2 DEF Win!Initialising
    <2> QED
      BY <2>1, <2>2
  <1> QED
    BY <1>1, <1>2, <1>3

\* On a closed port there is nothing to restore.
LEMMA Closed == ~hComPort' => Saved' /\ Win!TimeoutsRestored'
  BY DEF Saved, Win!TimeoutsRestored

LEMMA BeginControl ==
  ASSUME Inv, NEW t \in Threads, Win!Begin(t)
  PROVE  Control'
  <1>1. /\ winPc[t] = "idle"
        /\ \A u \in Threads : winPc[u] \notin Win!Initialising
    BY DEF Win!Begin, Win!CallInit, Win!Close, Win!Write, Win!SendCommand,
       Win!ReadChar, Win!ReadBuf, Win!DrainInput, Win!Call
  <1>2. CASE Win!CallInit(t) \/ Win!Close(t)
    <2>1. ~hComPort'
      BY <1>2 DEF Win!CallInit, Win!Close
    <2>2. PICK p \in {"idle", "init"} :
            /\ Win!Goto(t, p)
            /\ p = "init" => \A u \in Threads : winPc[u] = "idle"
      BY <1>2 DEF Win!CallInit, Win!Close, Win!Call
    <2>3. Solitude' /\ Progress'
      BY <1>1, <2>1, <2>2, Moves DEF Win!Initialising
    <2> QED
      BY <2>1, <2>3, Closed DEF Control
  <1>3. ASSUME NEW p \in {"idle", "save"}, Win!Goto(t, p),
               UNCHANGED <<hComPort, timeouts, old, crossed>>,
               \A u \in Threads : u # t => asked'[u] = asked[u]
        PROVE  Control'
    <2>1. /\ winPc'[t] = p /\ \A u \in Threads : u # t => winPc'[u] = winPc[u]
          /\ Solitude' /\ Progress'
      BY <1>1, <1>3, Moves DEF Win!Initialising
    <2>2. Saved'
      BY <1>3, <2>1 DEF Saved, Inv, Control
    <2>3. Win!TimeoutsRestored'
      BY <1>1, <1>3, <2>1 DEF Win!TimeoutsRestored, Inv, Control
    <2> QED
      BY <2>1, <2>2, <2>3 DEF Control
  <1>4. CASE Win!DrainInput(t)
    BY <1>3, <1>4 DEF Win!DrainInput, Win!Call, Win!calls
  <1>5. ASSUME NEW n, NEW w, Win!ReadBuf(t, n, w) PROVE Control'
    <2>1. \A u \in Threads : u # t => asked'[u] = asked[u]
      BY <1>5 DEF Win!ReadBuf, Inv, Win!TypeOK
    <2> QED
      BY <1>3, <1>5, <2>1 DEF Win!ReadBuf, Win!Call
  <1> QED
    BY <1>2, <1>4, <1>5 DEF Win!Begin, Win!Write, Win!SendCommand, Win!ReadChar

LEMMA InitControl ==
  ASSUME Inv, NEW t \in Threads,
         Win!InitOpens(t) \/ Win!InitState(t) \/ Win!InitTimeouts(t)
  PROVE  Control'
  <1>1. winPc[t] \in Win!Initialising /\ winPc[t] # "idle"
    BY DEF Win!InitOpens, Win!InitState, Win!InitTimeouts, Win!Initialising
  <1>2. \A u \in Threads : u # t => winPc[u] = "idle"
    BY <1>1 DEF Inv, Control, Solitude
  <1>3. ASSUME NEW p \in {"initState", "initTimeouts"}, Win!Goto(t, p),
               hComPort' => hComPort \/ p = "initState"
        PROVE  Control'
    <2>1. /\ winPc'[t] = p /\ \A u \in Threads : u # t => winPc'[u] = winPc[u]
          /\ Solitude' /\ Progress'
      BY <1>1, <1>3, Moves
    <2>2. Saved' /\ Win!TimeoutsRestored'
      BY <1>2, <2>1 DEF Saved, Win!TimeoutsRestored, Win!Initialising
    <2> QED
      BY <2>1, <2>2 DEF Control
  <1>4. ASSUME Win!Goto(t, "idle"), hComPort' => hComPort /\ timeouts' = "object"
        PROVE  Control'
    <2>1. /\ winPc'[t] = "idle"
          /\ \A u \in Threads : u # t => winPc'[u] = winPc[u]
          /\ Solitude' /\ Progress'
      BY <1>1, <1>4, Moves DEF Win!Initialising
    <2>2. Saved' /\ Win!TimeoutsRestored'
      BY <1>2, <1>4, <2>1 DEF Saved, Win!TimeoutsRestored
    <2> QED
      BY <2>1, <2>2 DEF Control
  <1>5. CASE Win!InitOpens(t)
    <2>1. ~hComPort
      BY <1>5 DEF Win!InitOpens, Inv, Control, Progress
    <2>2. \/ Win!Goto(t, "initState")
          \/ Win!Goto(t, "idle") /\ ~hComPort'
      BY <1>5, <2>1, Zenon DEF Win!InitOpens
    <2> QED
      BY <1>3, <1>4, <2>2
  <1>6. CASE Win!InitState(t)
    <2>1. \/ Win!Goto(t, "initTimeouts") /\ (hComPort' => hComPort)
          \/ Win!Goto(t, "idle") /\ ~hComPort'
      BY <1>6, Zenon DEF Win!InitState, Win!GiveUp
    <2> QED
      BY <1>3, <1>4, <2>1
  <1>7. CASE Win!InitTimeouts(t)
    <2>1. \/ Win!Goto(t, "idle") /\ hComPort' = hComPort /\ timeouts' = "object"
          \/ Win!Goto(t, "idle") /\ ~hComPort'
      BY <1>7, Zenon DEF Win!InitTimeouts, Win!GiveUp
    <2> QED
      BY <1>4, <2>1, Zenon
  <1> QED
    BY <1>5, <1>6, <1>7

\* What thread t finds when it goes on with a read.
LEMMA ReadControl ==
  ASSUME Inv, NEW t \in Threads,
         \/ Win!SaveTimeouts(t) \/ Win!SetTimeouts(t) \/ Win!ReadFile(t)
         \/ Win!ReadFails(t) \/ Win!RestoreTimeouts(t)
  PROVE  Control'
  <1> USE DEF Inv, Control
  <1>1. /\ winPc[t] \in {"save", "set", "read", "restore"} /\ UNCHANGED hComPort
        /\ \E p \in {"set", "read", "restore", "idle"} : Win!Goto(t, p)
    BY DEF Win!SaveTimeouts, Win!SetTimeouts, Win!ReadFile, Win!ReadFails,
       Win!RestoreTimeouts, Win!Return
  <1>2. \A u \in Threads : winPc[u] \notin Win!Initialising
    BY <1>1 DEF Solitude, Win!Initialising
  <1>3. PICK p \in {"set", "read", "restore", "idle"} :
          /\ Win!Goto(t, p)
          /\ winPc'[t] = p /\ \A u \in Threads : u # t => winPc'[u] = winPc[u]
          /\ Solitude' /\ Progress'
    BY <1>1, Moves DEF Win!Initialising
  <1> SUFFICES ASSUME hComPort', ~crossed'
               PROVE  Saved' /\ Win!TimeoutsRestored'
    BY <1>3 DEF Saved, Win!TimeoutsRestored
  <1>4. CASE Win!SaveTimeouts(t)
    <2>1. hComPort /\ ~crossed /\ UNCHANGED <<timeouts, asked>>
          /\ \A u \in Threads : u # t => winPc[u] \notin {"read", "restore"}
      BY <1>4 DEF Win!SaveTimeouts
    <2>2. winPc[t] = "save" /\ winPc'[t] = "set"
      BY <1>4, <1>3 DEF Win!SaveTimeouts, Win!Goto, Win!TypeOK
    <2>3. timeouts = "object"
      BY <1>2, <2>1, <2>2 DEF Win!TimeoutsRestored
    <2>4. old' = [old EXCEPT ![t] = "object"]
      BY <1>4, <2>1, <2>3 DEF Win!SaveTimeouts
    <2>5. Saved'
      BY <1>3, <2>1, <2>4 DEF Saved, Win!TypeOK
    <2> QED
      BY <2>1, <2>3, <2>5 DEF Win!TimeoutsRestored
  <1>5. CASE Win!SetTimeouts(t)
    <2>1. /\ hComPort /\ ~crossed /\ UNCHANGED <<old, asked>> /\ winPc[t] = "set"
          /\ winPc'[t] = "read" /\ timeouts' = asked'[t]
      BY <1>1, <1>5 DEF Win!SetTimeouts, Win!calls, Win!Goto, Win!TypeOK
    <2>2. Saved'
      BY <1>3, <2>1 DEF Saved
    <2> QED
      BY <2>1, <2>2 DEF Win!TimeoutsRestored
  <1>6. CASE Win!ReadFile(t) \/ Win!ReadFails(t)
    <2>1. /\ hComPort /\ ~crossed /\ UNCHANGED <<timeouts, old, asked>>
          /\ winPc[t] = "read" /\ winPc'[t] = "restore"
      BY <1>1, <1>6 DEF Win!ReadFile, Win!ReadFails, Win!calls, Win!Goto, Win!TypeOK
    <2>2. Saved'
      BY <1>3, <2>1 DEF Saved
    <2>3. Win!TimeoutsRestored'
      BY <1>2, <1>3, <2>1 DEF Win!TimeoutsRestored
    <2> QED
      BY <2>2, <2>3
  <1>7. CASE Win!RestoreTimeouts(t)
    <2>1. /\ hComPort /\ ~crossed /\ winPc[t] = "restore" /\ winPc'[t] = "idle"
          /\ old' = [old EXCEPT ![t] = "object"] /\ timeouts' = old[t]
      BY <1>1, <1>7 DEF Win!RestoreTimeouts, Win!Return, Win!Goto, Win!TypeOK
    <2>2. timeouts' = "object"
      BY <2>1 DEF Saved
    <2>3. Saved'
      BY <1>3, <2>1 DEF Saved, Win!TypeOK
    <2> QED
      BY <2>2, <2>3 DEF Win!TimeoutsRestored
  <1> QED
    BY <1>4, <1>5, <1>6, <1>7

\* The ports start as the one on Windows does, and a step of the other build
\* leaves this one alone.
LEMMA OnlyWindows ==
  /\ PortsInit => Win!Init
  /\ [PortsNext]_<<system, vars, winVars>> => [Win!Next]_(Win!vars)
  <1>1. PortsInit => Win!Init
    BY DEF PortsInit
  <1>2. UNCHANGED winVars => UNCHANGED Win!vars
    BY DEF winVars, Win!vars, Win!stream, Win!calls
  <1>3. PortsNext => Win!Next \/ UNCHANGED winVars
    BY DEF PortsNext
  <1> QED
    BY <1>1, <1>2, <1>3

LEMMA Invariance == PortsSpec => []Inv
  <1>1. Inv /\ (Win!Arrive \/ UNCHANGED Win!vars) => Control'
    BY DEF Win!Arrive, Win!vars, Win!calls, Inv, Control, Solitude, Progress,
       Saved, Win!TimeoutsRestored
  <1>2. Inv /\ [Win!Next]_(Win!vars) => Inv'
    BY <1>1, TypeStep, BeginControl, InitControl, ReadControl
       DEF Inv, Win!Next, Win!Proceed
  <1> QED
    BY <1>2, OnlyWindows, InitInv, PTL DEF PortsSpec

\* Every state is well typed, whatever calls meet on the port.
THEOREM TypeCorrect == PortsSpec => []Win!TypeOK
  <1> QED
    BY Invariance, PTL DEF Inv

\* Whatever a read asks for, whether it fails or not, and whatever calls come
\* between its own: on an open port that nobody reads from the timeouts are init's,
\* unless a read has saved them while those of another were set.
THEOREM TimeoutsAreRestored == PortsSpec => []TimeoutsRestored
  <1> QED
    BY Invariance, PTL DEF Inv, Control, TimeoutsRestored
=============================================================================
