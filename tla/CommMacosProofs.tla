-------------------------- MODULE CommMacosProofs --------------------------
(***************************************************************************)
(* Theorems about CommMacos, for any number of threads, buffer sizes and   *)
(* characters, and any interleaving of the calls, close among them.        *)
(***************************************************************************)
EXTENDS CommMacos, SequenceTheorems, TLAPS

----------------------------------------------------------------------------
(* The inductive invariant *)

\* The thread that has the mutex is the one that is where the code holds it.
Exclusion == \A t \in Threads : mutex = t <=> pc[t] \in Holding

\* open and init are called alone.
Solitude == \A t, u \in Threads : pc[t] \in Lone /\ u # t => pc[u] = "idle"

\* DeviceReleased, with what close will restore.
Released ==
  (\A t \in Threads : pc[t] \notin Opening)
    => /\ descs = IF fd THEN 1 ELSE 0
       /\ ~fd => tios = "original"
       /\ fd => oldTios = "original"

\* How far a call has got.  A read under which the port has been closed finds no
\* characters.
Progress ==
  \A t \in Threads :
    /\ pc[t] \in {"open", "init"} => ~fd
    /\ pc[t] \in Opening => fd /\ descs = 1 /\ tios = "original"
    /\ pc[t] \in {"initSpeed", "initApplying"} => oldTios = "original"
    /\ pc[t] \in Reading \cup {"gets", "readBuf", "readChar"} => fd \/ input = <<>>

\* Characters have been taken by a comm_gets only, from an open port.
Gotten == \A t \in Threads : got[t] # <<>> => pc[t] = "getting" /\ fd

Inv == TypeOK /\ Exclusion /\ Solitude /\ Released /\ Progress /\ Gotten

LEMMA EmptySequence == <<>> \in Seq(1 .. MaxChars)
  BY EmptySeq

LEMMA InitInv == Init => Inv
  <1> SUFFICES ASSUME Init PROVE Inv
    OBVIOUS
  <1>1. TypeOK
    <2>1. fd \in BOOLEAN /\ forever \in [Threads -> BOOLEAN]
      BY DEF Init
    <2>2. pc \in [Threads -> Places] /\ mutex \in Threads \cup {NoThread}
      BY DEF Init, Places
    <2>3. input \in Seq(1 .. MaxChars) /\ arrived \in 0 .. MaxChars
      BY CharsAssumption, EmptySequence DEF Init, CharsAssumption
    <2>4. got \in [Threads -> Seq(1 .. MaxChars)]
          /\ result \in [Threads -> Seq(1 .. MaxChars)]
      BY EmptySequence DEF Init
    <2> QED
      BY <2>1, <2>2, <2>3, <2>4 DEF Init, TypeOK
  <1>2. Exclusion /\ Solitude
    BY ThreadAssumption
       DEF Init, Exclusion, Solitude, Opening, Reading, Holding, Lone, ThreadAssumption
  <1>3. Released /\ Progress /\ Gotten
    BY DEF Init, Released, Progress, Gotten, Opening, Reading
  <1> QED
    BY <1>1, <1>2, <1>3 DEF Inv

\* While a call is under way that does not open the port, nobody else does.
LEMMA NobodyOpens ==
  ASSUME Inv, NEW t \in Threads, pc[t] # "idle", pc[t] \notin Opening
  PROVE  /\ \A u \in Threads : pc[u] \notin Opening
         /\ descs = IF fd THEN 1 ELSE 0
         /\ ~fd => tios = "original"
         /\ fd => oldTios = "original"
  <1>1. \A u \in Threads : pc[u] \notin Opening
    BY DEF Inv, Solitude, Lone
  <1> QED
    BY <1>1 DEF Inv, Released

\* Nobody has taken characters but the one in comm_gets who has the mutex.
LEMMA NothingGotten ==
  ASSUME Inv, mutex = NoThread \/ pc[mutex] # "getting"
  PROVE  \A t \in Threads : got[t] = <<>>
  BY ThreadAssumption DEF Inv, Gotten, Exclusion, Holding, Reading, ThreadAssumption

----------------------------------------------------------------------------
(* Types *)

\* What each thread has of its own.
CallTypes ==
  /\ pc \in [Threads -> Places]
  /\ cap \in [Threads -> Nat]
  /\ forever \in [Threads -> BOOLEAN]
  /\ got \in [Threads -> Seq(1 .. MaxChars)]

LEMMA PlaceNames ==
  /\ Holding \subseteq Places /\ Lone \subseteq Places
  /\ {"idle", "close", "setParam", "puts", "write", "writeEcho", "send", "sendTerm",
      "gets", "readBuf", "readChar"} \subseteq Places
  BY DEF Places, Opening, Lone, Holding

LEMMA GotoTypes ==
  ASSUME TypeOK, NEW t \in Threads, NEW p \in Places, Goto(t, p)
  PROVE  pc' \in [Threads -> Places]
  BY DEF TypeOK, Goto

LEMMA ReturnTypes ==
  ASSUME TypeOK, NEW t \in Threads, Return(t)
  PROVE  CallTypes' /\ mutex' \in Threads \cup {NoThread}
  <1>1. pc' \in [Threads -> Places]
    BY GotoTypes, PlaceNames DEF Return
  <1>2. cap' \in [Threads -> Nat]
    BY DEF TypeOK, Return
  <1>3. forever' \in [Threads -> BOOLEAN]
    BY DEF TypeOK, Return
  <1>4. got' \in [Threads -> Seq(1 .. MaxChars)]
    BY EmptySequence DEF TypeOK, Return
  <1> QED
    BY <1>1, <1>2, <1>3, <1>4 DEF Return, CallTypes

\* A call that goes on keeps what it has.
LEMMA InsideTypes ==
  ASSUME TypeOK, NEW t \in Threads, NEW p \in Places, Goto(t, p), UNCHANGED calls
  PROVE  CallTypes'
  BY GotoTypes DEF TypeOK, CallTypes, calls

LEMMA BeginTypes ==
  ASSUME TypeOK, NEW t \in Threads, Begin(t)
  PROVE  TypeOK'
  <1>1. ASSUME NEW p \in Places, Call(t, p), UNCHANGED calls PROVE CallTypes'
    BY <1>1, InsideTypes DEF Call
  <1>2. CASE CallOpen(t) \/ CallClose(t) \/ CallSetParam(t) \/ CallPuts(t)
    BY <1>1, <1>2, PlaceNames DEF CallOpen, CallClose, CallSetParam, CallPuts,
       device, stream, Lone, TypeOK, CallTypes
  <1>3. CASE CallInit(t)
    BY <1>1, <1>3, PlaceNames DEF CallInit, device, stream, Lone, TypeOK, CallTypes
  <1>4. ASSUME NEW p \in {"write", "writeEcho", "send"}, CallWrite(t, p)
        PROVE  TypeOK'
    BY <1>1, <1>4, PlaceNames DEF CallWrite, device, stream, TypeOK, CallTypes
  <1>5. ASSUME NEW p \in {"gets", "readBuf", "readChar"}, NEW n \in Nat,
               NEW f \in BOOLEAN, CallRead(t, p, n, f)
        PROVE  TypeOK'
    <2>1. pc' \in [Threads -> Places]
      BY <1>5, GotoTypes, PlaceNames DEF CallRead, Call
    <2>2. cap' \in [Threads -> Nat]
      BY <1>5 DEF CallRead, TypeOK
    <2>3. forever' \in [Threads -> BOOLEAN]
      BY <1>5 DEF CallRead, TypeOK
    <2> QED
      BY <1>5, <2>1, <2>2, <2>3 DEF CallRead, device, stream, TypeOK
  <1>6. ASSUME NEW n \in Sizes, CallGets(t, n) PROVE TypeOK'
    <2>1. n - 1 \in Nat
      BY SizeAssumption DEF SizeAssumption
    <2> QED
      BY <1>5, <1>6, <2>1 DEF CallGets
  <1>7. ASSUME NEW n \in Sizes, NEW f \in BOOLEAN, CallReadBuf(t, n, f)
        PROVE  TypeOK'
    <2>1. n - 1 \in Nat
      BY SizeAssumption DEF SizeAssumption
    <2> QED
      BY <1>5, <1>7, <2>1 DEF CallReadBuf
  <1>8. CASE CallReadChar(t)
    BY <1>5, <1>8 DEF CallReadChar
  <1>9. CASE DrainInput(t)
    BY <1>1, <1>9, PlaceNames, EmptySequence
       DEF DrainInput, device, TypeOK, CallTypes
  <1> QED
    BY <1>2, <1>3, <1>4, <1>6, <1>7, <1>8, <1>9 DEF Begin

LEMMA EnterTypes ==
  ASSUME Inv, NEW t \in Threads, Enter(t)
  PROVE  TypeOK'
  <1> USE DEF Inv
  <1>1. ASSUME NEW p, NEW q \in Places, OpenDevice(t, p, q) PROVE TypeOK'
    <2>1. CallTypes' /\ mutex' \in Threads \cup {NoThread}
      BY <1>1, ReturnTypes, InsideTypes DEF OpenDevice, Inside
    <2> QED
      <3>1. fd' \in BOOLEAN
        BY <1>1, Zenon DEF OpenDevice
      <3>2. descs' \in Nat
        BY <1>1 DEF OpenDevice, TypeOK
      <3>3. UNCHANGED <<tios, oldTios, input, arrived, result>>
        BY <1>1 DEF OpenDevice, stream
      <3> QED
        BY <2>1, <3>1, <3>2, <3>3 DEF TypeOK, CallTypes
  <1>2. ASSUME ClosePort, pc[t] \in {"close", "reinit"}
        PROVE  /\ fd' \in BOOLEAN /\ descs' \in Nat
               /\ tios' \in {"original", "port"}
               /\ input' \in Seq(1 .. MaxChars)
               /\ UNCHANGED <<oldTios, arrived, result>>
    <2>1. descs = (IF fd THEN 1 ELSE 0) /\ (fd => oldTios = "original")
      BY <1>2, NobodyOpens DEF Opening
    <2> QED
      <3>1. CASE fd
        <4>0. descs = 1 /\ oldTios = "original"
          BY <2>1, <3>1, Zenon
        <4>1. fd' = FALSE
          BY <1>2, <3>1, Zenon DEF ClosePort
        <4>2. descs' = descs - 1 /\ input' = <<>> /\ tios' = oldTios
              /\ UNCHANGED <<oldTios, arrived, result>>
          BY <1>2, <3>1 DEF ClosePort
        <4> QED
          <5>1. fd' \in BOOLEAN
            BY <4>1, Zenon
          <5> QED
            BY <4>0, <4>2, <5>1, EmptySequence
      <3>2. CASE ~fd
        BY <1>2, <3>2 DEF ClosePort, TypeOK
      <3> QED
        BY <3>1, <3>2
  <1>3. CASE Close(t)
    BY <1>2, <1>3, ReturnTypes DEF Close, Lock, TypeOK, CallTypes
  <1>4. CASE InitCloses(t)
    <2>1. CallTypes'
      BY <1>4, InsideTypes, PlaceNames DEF InitCloses, Lone
    <2> QED
      BY <1>2, <1>4, <2>1 DEF InitCloses, Lock, TypeOK, CallTypes
  <1>5. CASE SetParam(t)
    BY <1>5, ReturnTypes DEF SetParam, stream, TypeOK, CallTypes
  <1>6. CASE CommPuts(t)
    <2>1. CallTypes' /\ mutex' \in Threads \cup {NoThread}
      BY <1>6, ReturnTypes, InsideTypes, PlaceNames DEF CommPuts, Inside, Holding
    <2> QED
      BY <1>6, <2>1 DEF CommPuts, device, stream, TypeOK, CallTypes
  <1>7. ASSUME ThenReadBuf(t, EchoRoom) PROVE CallTypes' /\ UNCHANGED mutex
    <2>1. pc' \in [Threads -> Places]
      BY <1>7, GotoTypes, PlaceNames DEF ThenReadBuf
    <2>2. cap' \in [Threads -> Nat]
      BY <1>7 DEF ThenReadBuf, EchoRoom, TypeOK
    <2> QED
      BY <1>7, <2>1, <2>2 DEF ThenReadBuf, TypeOK, CallTypes
  <1>8. CASE Write(t)
    BY <1>7, <1>8, ReturnTypes DEF Write, device, stream, TypeOK, CallTypes
  <1>9. CASE SendCommand(t)
    <2>1. CASE Goto(t, "sendTerm") /\ UNCHANGED calls
      BY <1>9, <2>1, InsideTypes, PlaceNames, <1>7
         DEF SendCommand, device, stream, TypeOK, CallTypes
    <2>2. CASE ThenReadBuf(t, EchoRoom)
      BY <1>9, <2>2, <1>7 DEF SendCommand, device, stream, TypeOK, CallTypes
    <2> QED
      BY <1>9, <2>1, <2>2 DEF SendCommand
  <1>10. ASSUME NEW p, NEW q \in Places, LockToRead(t, p, q) PROVE TypeOK'
    <2>1. CallTypes' /\ mutex' \in Threads
      BY <1>10, InsideTypes DEF LockToRead, Inside
    <2> QED
      BY <1>10, <2>1 DEF LockToRead, device, stream, TypeOK, CallTypes
  <1> QED
    BY <1>1, <1>3, <1>4, <1>5, <1>6, <1>8, <1>9, <1>10
       DEF Enter, Opening, Reading, Holding, Places

LEMMA ProceedTypes ==
  ASSUME Inv, NEW t \in Threads, Proceed(t) \/ ReadFails(t)
  PROVE  TypeOK'
  <1> USE DEF Inv
  <1>1. \A s \in Seq(1 .. MaxChars), n \in Nat : n <= Len(s) =>
          /\ SubSeq(s, 1, n) \in Seq(1 .. MaxChars)
          /\ SubSeq(s, n + 1, Len(s)) \in Seq(1 .. MaxChars)
    <2> SUFFICES ASSUME NEW s \in Seq(1 .. MaxChars), NEW n \in Nat, n <= Len(s)
                 PROVE  /\ SubSeq(s, 1, n) \in Seq(1 .. MaxChars)
                        /\ SubSeq(s, n + 1, Len(s)) \in Seq(1 .. MaxChars)
      OBVIOUS
    <2>1. Len(s) \in Int /\ n + 1 \in Int /\ n \in Int /\ 1 \in Int
      OBVIOUS
    <2>2. SubSeq(s, 1, n) \in Seq(1 .. MaxChars)
      <3>1. ASSUME NEW i \in 1 .. n PROVE s[i] \in 1 .. MaxChars
        <4>1. i \in 1 .. Len(s)
          BY <2>1
        <4> QED
          BY <4>1, ElementOfSeq
      <3> QED
        BY <2>1, <3>1, SubSeqProperties
    <2>3. SubSeq(s, n + 1, Len(s)) \in Seq(1 .. MaxChars)
      <3>1. ASSUME NEW i \in n + 1 .. Len(s) PROVE s[i] \in 1 .. MaxChars
        <4>1. i \in 1 .. Len(s)
          BY <2>1
        <4> QED
          BY <4>1, ElementOfSeq
      <3> QED
        BY <2>1, <3>1, SubSeqProperties
    <2> QED
      BY <2>2, <2>3
  <1>2. ASSUME GiveUp(t), pc[t] \in Opening
        PROVE  fd' \in BOOLEAN /\ descs' \in Nat /\ CallTypes'
               /\ mutex' \in Threads \cup {NoThread}
    <2>1. descs = 1
      BY <1>2 DEF Progress
    <2>2. fd' \in BOOLEAN
      BY <1>2, Zenon DEF GiveUp
    <2>3. descs' \in Nat
      BY <1>2, <2>1 DEF GiveUp
    <2> QED
      BY <1>2, <2>2, <2>3, ReturnTypes DEF GiveUp
  <1>3. ASSUME NEW p \in Places, Goto(t, p), UNCHANGED <<fd, descs, mutex, calls>>
        PROVE  fd' \in BOOLEAN /\ descs' \in Nat /\ CallTypes'
               /\ mutex' \in Threads \cup {NoThread}
    BY <1>3, InsideTypes DEF TypeOK
  <1>4. CASE LockSerialFd(t)
    BY <1>2, <1>3, <1>4, PlaceNames
       DEF LockSerialFd, stream, Opening, Holding, TypeOK, CallTypes
  <1>5. CASE SaveTios(t)
    BY <1>2, <1>5, ReturnTypes DEF SaveTios, stream, Opening, TypeOK, CallTypes
  <1>6. CASE InitSaves(t)
    BY <1>2, <1>3, <1>6, PlaceNames
       DEF InitSaves, stream, Opening, Holding, TypeOK, CallTypes
  <1>7. CASE InitSpeed(t)
    <2>1. oldTios = "original"
      BY <1>7 DEF InitSpeed, Progress
    <2> QED
      BY <1>2, <1>3, <1>7, <2>1, PlaceNames
         DEF InitSpeed, stream, Opening, Holding, TypeOK, CallTypes
  <1>8. CASE InitApplies(t)
    <2>1. oldTios = "original"
      BY <1>8 DEF InitApplies, Progress
    <2> QED
      BY <1>2, <1>8, <2>1, ReturnTypes, EmptySequence
         DEF InitApplies, Opening, TypeOK, CallTypes
  <1>9. CASE Drained(t)
    BY <1>9, ReturnTypes DEF Drained, device, stream, TypeOK, CallTypes
  <1>10. CASE GetsChar(t)
    <2> DEFINE text == Append(got[t], Head(input))
    <2>1. /\ input \in Seq(1 .. MaxChars) /\ input # <<>>
          /\ text \in Seq(1 .. MaxChars) /\ input' \in Seq(1 .. MaxChars)
      <3>1. /\ input \in Seq(1 .. MaxChars) /\ input # <<>> /\ input' = Tail(input)
            /\ got[t] \in Seq(1 .. MaxChars)
        BY <1>10 DEF GetsChar, TypeOK
      <3>2. Head(input) \in 1 .. MaxChars /\ Tail(input) \in Seq(1 .. MaxChars)
        BY <3>1, HeadTailProperties
      <3>3. text \in Seq(1 .. MaxChars)
        BY <3>1, <3>2, AppendProperties
      <3> QED
        BY <3>1, <3>2, <3>3
    <2>2. CASE result' = [result EXCEPT ![t] = text] /\ Return(t)
      BY <1>10, <2>1, <2>2, ReturnTypes DEF GetsChar, device, TypeOK, CallTypes
    <2>3. CASE got' = [got EXCEPT ![t] = text]
               /\ UNCHANGED <<mutex, pc, cap, forever, result>>
      BY <1>10, <2>1, <2>3 DEF GetsChar, device, TypeOK
    <2> QED
      BY <1>10, <2>2, <2>3 DEF GetsChar
  <1>11. CASE ReadAvailable(t)
    <2> DEFINE n == IF cap[t] < Len(input) THEN cap[t] ELSE Len(input)
    <2>1. n \in Nat /\ n <= Len(input)
      BY DEF TypeOK
    <2>2. result' = [result EXCEPT ![t] = SubSeq(input, 1, n)]
          /\ input' = SubSeq(input, n + 1, Len(input))
      BY <1>11 DEF ReadAvailable
    <2>3. SubSeq(input, 1, n) \in Seq(1 .. MaxChars)
          /\ SubSeq(input, n + 1, Len(input)) \in Seq(1 .. MaxChars)
      BY <1>1, <2>1 DEF TypeOK
    <2>4. result' \in [Threads -> Seq(1 .. MaxChars)] /\ input' \in Seq(1 .. MaxChars)
      BY <2>2, <2>3 DEF TypeOK
    <2> QED
      BY <1>11, <2>4, ReturnTypes DEF ReadAvailable, device, TypeOK, CallTypes
  <1>12. CASE ReadEnds(t)
    BY <1>12, ReturnTypes DEF ReadEnds, device, stream, TypeOK, CallTypes
  <1> QED
    BY <1>4, <1>5, <1>6, <1>7, <1>8, <1>9, <1>10, <1>11, <1>12
       DEF Proceed, ReadTimesOut, ReadFails

LEMMA TypeStep == Inv /\ [Next]_vars => TypeOK'
  <1> SUFFICES ASSUME Inv, [Next]_vars PROVE TypeOK'
    OBVIOUS
  <1>1. CASE Arrive
    BY <1>1, CharsAssumption
       DEF Arrive, device, calls, CharsAssumption, Inv, TypeOK
  <1>2. CASE UNCHANGED vars
    BY <1>2 DEF vars, device, stream, calls, Inv, TypeOK
  <1> QED
    BY <1>1, <1>2, BeginTypes, EnterTypes, ProceedTypes DEF Next, Inv

----------------------------------------------------------------------------
(* Who has the mutex, and who is alone *)

\* A step of thread t within a call takes it to place p: it takes, keeps or
\* releases the mutex as the place says, and no call becomes one of those that
\* are called alone.
Moves(t, p) ==
  /\ Goto(t, p)
  /\ \/ mutex' = mutex /\ (p \in Holding <=> pc[t] \in Holding)
     \/ mutex \in {NoThread, t} /\ mutex' = t /\ p \in Holding
     \/ mutex \in {NoThread, t} /\ mutex' = NoThread /\ p \notin Holding
  /\ pc[t] # "idle"
  /\ p \in Lone => pc[t] \in Lone

LEMMA EnterMoves ==
  ASSUME Inv, NEW t \in Threads, Enter(t)
  PROVE  \E p \in Places : Moves(t, p)
  <1> USE DEF Lock, Inside, Return, Goto
  <1>1. ASSUME NEW p \in {"open", "init"}, NEW q \in {"locking", "initSaving"},
               OpenDevice(t, p, q)
        PROVE  Moves(t, q) \/ Moves(t, "idle")
    BY <1>1 DEF OpenDevice, Moves, Holding, Opening, Reading, Lone
  <1>2. ASSUME Close(t)
        PROVE  Moves(t, "idle")
    BY <1>2 DEF Close, Moves, Holding, Opening, Reading, Lone
  <1>3. ASSUME InitCloses(t)
        PROVE  Moves(t, "init")
    BY <1>3 DEF InitCloses, Moves, Holding, Opening, Reading, Lone
  <1>4. ASSUME SetParam(t)
        PROVE  Moves(t, "idle")
    BY <1>4 DEF SetParam, Moves, Holding, Opening, Reading, Lone
  <1>5. ASSUME CommPuts(t)
        PROVE  Moves(t, "draining") \/ Moves(t, "idle")
    BY <1>5 DEF CommPuts, Moves, Holding, Opening, Reading, Lone
  <1>6. ASSUME Write(t)
        PROVE  Moves(t, "idle") \/ Moves(t, "readBuf")
    BY <1>6 DEF Write, ThenReadBuf, Moves, Holding, Opening, Reading, Lone
  <1>7. ASSUME SendCommand(t)
        PROVE  Moves(t, "sendTerm") \/ Moves(t, "readBuf") \/ Moves(t, "idle")
    BY <1>7 DEF SendCommand, ThenReadBuf, Moves, Holding, Opening, Reading, Lone
  <1>8. ASSUME NEW p \in {"gets", "readBuf", "readChar"}, NEW q \in Reading,
               LockToRead(t, p, q)
        PROVE  Moves(t, q)
    BY <1>8 DEF LockToRead, Moves, Holding, Opening, Reading, Lone
  <1> QED
    BY <1>1, <1>2, <1>3, <1>4, <1>5, <1>6, <1>7, <1>8
       DEF Enter, Reading, Places, Holding, Opening, Moves

LEMMA ProceedMoves ==
  ASSUME Inv, NEW t \in Threads, Proceed(t) \/ ReadFails(t)
  PROVE  (\E p \in Places : Moves(t, p)) \/ UNCHANGED <<mutex, pc>>
  <1>1. pc[t] \in Holding => mutex = t
    BY DEF Inv, Exclusion
  <1> USE <1>1 DEF Goto, Moves, Holding, Opening, Reading, Lone, Places
  <1>2. ASSUME Return(t), pc[t] \in Holding PROVE Moves(t, "idle")
    BY <1>2 DEF Return
  <1>3. CASE LockSerialFd(t)
    BY <1>2, <1>3 DEF LockSerialFd, GiveUp
  <1>4. CASE SaveTios(t)
    BY <1>2, <1>4 DEF SaveTios, GiveUp
  <1>5. CASE InitSaves(t)
    BY <1>2, <1>5 DEF InitSaves, GiveUp
  <1>6. CASE InitSpeed(t)
    BY <1>2, <1>6 DEF InitSpeed, GiveUp
  <1>7. CASE InitApplies(t)
    BY <1>2, <1>7 DEF InitApplies, GiveUp
  <1>8. CASE Drained(t)
    BY <1>2, <1>8 DEF Drained
  <1>9. CASE GetsChar(t)
    BY <1>2, <1>9 DEF GetsChar
  <1>10. CASE ReadAvailable(t)
    BY <1>2, <1>10 DEF ReadAvailable
  <1>11. CASE ReadEnds(t) /\ pc[t] \in Reading
    BY <1>2, <1>11 DEF ReadEnds
  <1> QED
    BY <1>3, <1>4, <1>5, <1>6, <1>7, <1>8, <1>9, <1>10, <1>11
       DEF Proceed, ReadTimesOut, ReadFails

LEMMA MoveKeeps ==
  ASSUME Inv, NEW t \in Threads, NEW p \in Places, Moves(t, p)
  PROVE  Exclusion' /\ Solitude'
  <1> USE DEF Inv, TypeOK, Moves, Goto
  <1>1. pc'[t] = p /\ \A u \in Threads : u # t => pc'[u] = pc[u]
    OBVIOUS
  <1>2. Exclusion'
    BY <1>1, ThreadAssumption DEF Exclusion, ThreadAssumption
  <1>3. Solitude'
    BY <1>1 DEF Solitude
  <1> QED
    BY <1>2, <1>3

LEMMA BeginKeeps ==
  ASSUME Inv, NEW t \in Threads, Begin(t)
  PROVE  Exclusion' /\ Solitude'
  <1>1. ASSUME NEW p \in Places \ Holding, Call(t, p), UNCHANGED mutex
        PROVE  Exclusion' /\ Solitude'
    <2>1. pc'[t] = p /\ \A u \in Threads : u # t => pc'[u] = pc[u]
      BY <1>1 DEF Call, Goto, Inv, TypeOK
    <2>2. pc[t] = "idle" /\ "idle" \notin Holding /\ "idle" \notin Lone
      BY <1>1 DEF Call, Holding, Opening, Reading, Lone
    <2>3. Exclusion'
      BY <1>1, <2>1, <2>2 DEF Exclusion, Inv
    <2>4. Solitude'
      BY <1>1, <2>1, <2>2 DEF Call, Solitude, Inv
    <2> QED
      BY <2>3, <2>4
  <1>2. {"idle", "open", "init", "reinit", "close", "setParam", "puts", "write",
         "writeEcho", "send", "gets", "readBuf", "readChar"}
          \subseteq Places \ Holding
    BY DEF Places, Holding, Opening, Reading
  <1>3. \E p \in Places \ Holding : Call(t, p) /\ UNCHANGED mutex
    BY <1>2 DEF Begin, CallOpen, CallClose, CallInit, CallSetParam, CallPuts,
       CallWrite, CallGets, CallReadBuf, CallReadChar, CallRead, DrainInput
  <1> QED
    BY <1>1, <1>3

LEMMA ControlStep == Inv /\ [Next]_vars => Exclusion' /\ Solitude'
  <1> SUFFICES ASSUME Inv, [Next]_vars PROVE Exclusion' /\ Solitude'
    OBVIOUS
  <1>1. CASE UNCHANGED <<mutex, pc>>
    BY <1>1 DEF Inv, Exclusion, Solitude
  <1>2. CASE Arrive \/ UNCHANGED vars
    BY <1>1, <1>2 DEF Arrive, vars
  <1> QED
    BY <1>1, <1>2, EnterMoves, ProceedMoves, MoveKeeps, BeginKeeps DEF Next

----------------------------------------------------------------------------
(* The device *)

\* What Progress asks of a call at place p.
At(p) ==
  /\ p \in {"open", "init"} => ~fd
  /\ p \in Opening => fd /\ descs = 1 /\ tios = "original"
  /\ p \in {"initSpeed", "initApplying"} => oldTios = "original"
  /\ p \in Reading \cup {"gets", "readBuf", "readChar"} => fd \/ input = <<>>

\* A step that leaves the device alone, and brings nothing to a closed one.
LEMMA DeviceAlone ==
  ASSUME Inv, NEW t \in Threads, NEW p \in Places, Goto(t, p),
         UNCHANGED <<fd, device>>, fd \/ input' \in {input, <<>>}, At(p),
         pc[t] \in Opening => p \in Opening
  PROVE  Released' /\ Progress'
  <1> USE DEF Inv, TypeOK, Goto, device
  <1>1. pc'[t] = p /\ \A u \in Threads : u # t => pc'[u] = pc[u]
    OBVIOUS
  <1>2. Released'
    <2>1. (\A u \in Threads : pc'[u] \notin Opening)
            => \A u \in Threads : pc[u] \notin Opening
      BY <1>1
    <2> QED
      BY <2>1 DEF Released
  <1>3. Progress'
    BY <1>1 DEF Progress, At
  <1> QED
    BY <1>2, <1>3

\* A step of a call that is alone, whatever it does with the device.
LEMMA DeviceOfLone ==
  ASSUME Inv, NEW t \in Threads, pc[t] \in Lone, NEW p \in Places, Goto(t, p),
         At(p)',
         p \notin Opening => /\ descs' = IF fd' THEN 1 ELSE 0
                             /\ ~fd' => tios' = "original"
                             /\ fd' => oldTios' = "original"
  PROVE  Released' /\ Progress'
  <1> USE DEF Inv, TypeOK, Goto
  <1>1. pc'[t] = p /\ \A u \in Threads : u # t => pc'[u] = "idle"
    BY DEF Solitude
  <1>2. Released'
    BY <1>1 DEF Released
  <1>3. Progress'
    BY <1>1 DEF Progress, At, Opening, Reading
  <1> QED
    BY <1>2, <1>3

LEMMA BeginDevice ==
  ASSUME Inv, NEW t \in Threads, Begin(t)
  PROVE  Released' /\ Progress'
  <1>1. \E p \in Places : pc[t] = "idle" /\ Goto(t, p) /\ At(p)
                          /\ UNCHANGED <<fd, device>> /\ input' \in {input, <<>>}
    BY DEF stream, Begin, CallOpen, CallClose, CallInit, CallSetParam, CallPuts, CallWrite,
       CallGets, CallReadBuf, CallReadChar, CallRead, DrainInput, Call, Places, At,
       Opening, Reading
  <1>2. "idle" \notin Opening
    BY DEF Opening
  <1> QED
    BY <1>1, <1>2, DeviceAlone

LEMMA EnterDevice ==
  ASSUME Inv, NEW t \in Threads, Enter(t)
  PROVE  Released' /\ Progress'
  <1> USE DEF Inv, Lock, Inside, Return
  <1>1. ASSUME NEW p \in {"open", "init"}, NEW q \in {"locking", "initSaving"},
               OpenDevice(t, p, q)
        PROVE  Released' /\ Progress'
    <2>1. ~fd /\ pc[t] \in Lone /\ pc[t] \notin Opening
      BY <1>1 DEF OpenDevice, Progress, Lone, Opening
    <2>2. descs = 0 /\ tios = "original"
      BY <1>1, <2>1, NobodyOpens DEF OpenDevice, Lock
    <2>3. CASE Goto(t, q) /\ fd' = TRUE /\ descs' = descs + 1
      BY <1>1, <2>1, <2>2, <2>3, DeviceOfLone
         DEF OpenDevice, At, Opening, Reading, Places, Holding
    <2>4. CASE Goto(t, "idle") /\ fd' = FALSE /\ UNCHANGED descs
      BY <1>1, <2>1, <2>2, <2>4, DeviceOfLone
         DEF OpenDevice, At, Opening, Reading, Places
    <2> QED
      BY <1>1, <2>3, <2>4 DEF OpenDevice
  <1>2. ASSUME ClosePort, pc[t] \in {"close", "reinit"}
        PROVE  /\ ~fd' /\ descs' = 0 /\ tios' = "original"
               /\ input' \in {input, <<>>} /\ (fd => input' = <<>>)
    <2>1. /\ descs = IF fd THEN 1 ELSE 0
          /\ ~fd => tios = "original"
          /\ fd => oldTios = "original"
      BY <1>2, NobodyOpens DEF Opening
    <2>2. CASE fd
      BY <1>2, <2>1, <2>2 DEF ClosePort
    <2>3. CASE ~fd
      BY <1>2, <2>1, <2>3 DEF ClosePort
    <2> QED
      BY <2>2, <2>3
  <1>3. CASE InitCloses(t)
    <2>1. ClosePort /\ pc[t] = "reinit" /\ Goto(t, "init")
      BY <1>3 DEF InitCloses
    <2>2. At("init")' /\ "init" \in Places /\ pc[t] \in Lone
      BY <1>2, <2>1 DEF At, Places, Opening, Reading, Lone
    <2> QED
      BY <1>2, <2>1, <2>2, DeviceOfLone
  \* close comes between a read's look at m_fd and its lock.
  <1>9. CASE Close(t)
    <2>1. ClosePort /\ pc[t] = "close" /\ Goto(t, "idle")
      BY <1>9 DEF Close
    <2>2. \A u \in Threads : pc'[u] = "idle" \/ pc'[u] = pc[u]
      BY <2>1 DEF Goto, TypeOK
    <2>5. \A u \in Threads : pc[u] \notin Lone
      BY <2>1 DEF Solitude, Lone, Opening
    <2>3. Released'
      BY <1>2, <2>1 DEF Released
    <2>4. Progress'
      <3> SUFFICES ASSUME NEW u \in Threads
                   PROVE  /\ pc'[u] \notin Lone
                          /\ pc'[u] \in Reading \cup {"gets", "readBuf", "readChar"}
                               => fd' \/ input' = <<>>
        BY DEF Progress, Lone, Opening
      <3>1. pc'[u] \notin Lone
        BY <2>2, <2>5 DEF Lone, Opening
      <3>2. ASSUME pc'[u] \in Reading \cup {"gets", "readBuf", "readChar"}
            PROVE  input' = <<>>
        <4>1. fd \/ input = <<>>
          BY <2>2, <3>2 DEF Progress, Reading
        <4> QED
          BY <1>2, <2>1, <4>1
      <3> QED
        BY <3>1, <3>2
    <2> QED
      BY <2>3, <2>4
  <1>4. CASE SetParam(t)
    <2>1. \A u \in Threads : pc[u] \notin Opening
      BY <1>4 DEF SetParam, Solitude, Lone, Opening
    <2>2. UNCHANGED <<fd, descs, oldTios>> /\ (~fd => UNCHANGED tios)
          /\ pc' = [pc EXCEPT ![t] = "idle"]
      BY <1>4 DEF SetParam, Goto
    <2>3. Released'
      BY <2>1, <2>2 DEF Released
    <2>4. \A u \in Threads : pc'[u] = "idle" \/ pc'[u] = pc[u]
      BY <2>2 DEF TypeOK
    <2>5. Progress'
      BY <1>4, <2>1, <2>2, <2>4 DEF SetParam, stream, Progress, Opening, Reading
    <2> QED
      BY <2>3, <2>5
  <1>5. CASE CommPuts(t)
    BY <1>5, DeviceAlone
       DEF CommPuts, stream, At, Opening, Reading, Places, Holding
  <1>6. CASE Write(t)
    BY <1>6, DeviceAlone
       DEF Write, ThenReadBuf, stream, At, Opening, Reading, Places
  <1>7. CASE SendCommand(t)
    BY <1>7, DeviceAlone
       DEF SendCommand, ThenReadBuf, stream, At, Opening, Reading, Places
  <1>8. ASSUME NEW p \in {"gets", "readBuf", "readChar"}, NEW q \in Reading,
               LockToRead(t, p, q)
        PROVE  Released' /\ Progress'
    <2>1. fd \/ input = <<>>
      BY <1>8 DEF LockToRead, Progress
    <2> QED
      BY <1>8, <2>1, DeviceAlone
         DEF LockToRead, stream, At, Opening, Reading, Places, Holding
  <1> QED
    BY <1>1, <1>3, <1>4, <1>5, <1>6, <1>7, <1>8, <1>9 DEF Enter, Reading

LEMMA ProceedDevice ==
  ASSUME Inv, NEW t \in Threads, Proceed(t) \/ ReadFails(t)
  PROVE  Released' /\ Progress'
  <1> USE DEF Inv
  <1>1. /\ pc[t] \in Opening => pc[t] \in Lone
        /\ "idle" \notin Opening /\ "idle" \in Places
    BY DEF Opening, Lone, Places
  <1>2. pc[t] \in Opening => fd /\ descs = 1 /\ tios = "original"
    BY DEF Progress
  <1>3. ASSUME pc[t] \in Opening, GiveUp(t), tios' = "original"
        PROVE  Released' /\ Progress'
    BY <1>1, <1>2, <1>3, DeviceOfLone DEF GiveUp, Return, At, Opening, Reading
  <1>4. ASSUME pc[t] \notin Opening, Return(t), UNCHANGED <<fd, device>>,
               fd \/ UNCHANGED input
        PROVE  Released' /\ Progress'
    BY <1>1, <1>4, DeviceAlone DEF Return, At, Opening, Reading
  <1>5. CASE LockSerialFd(t)
    <2>1. CASE Goto(t, "saving") /\ UNCHANGED <<fd, descs>>
      BY <1>2, <1>5, <2>1, DeviceAlone
         DEF LockSerialFd, device, stream, At, Opening, Reading, Places, Holding
    <2> QED
      BY <1>2, <1>3, <1>5, <2>1 DEF LockSerialFd, Opening
  <1>6. CASE SaveTios(t)
    <2>1. CASE oldTios' = tios /\ Return(t) /\ UNCHANGED <<fd, descs>>
      BY <1>1, <1>2, <1>6, <2>1, DeviceOfLone
         DEF SaveTios, Return, At, Opening, Reading
    <2> QED
      BY <1>2, <1>3, <1>6, <2>1 DEF SaveTios, Opening
  <1>7. CASE InitSaves(t)
    <2>1. CASE oldTios' = tios /\ Goto(t, "initSpeed") /\ UNCHANGED <<fd, descs>>
      BY <1>1, <1>2, <1>7, <2>1, DeviceOfLone
         DEF InitSaves, At, Opening, Reading, Places, Holding
    <2> QED
      BY <1>2, <1>3, <1>7, <2>1 DEF InitSaves, Opening
  <1>8. CASE InitSpeed(t)
    <2>1. oldTios = "original"
      BY <1>8 DEF InitSpeed, Progress
    <2>2. CASE Goto(t, "initApplying") /\ UNCHANGED <<fd, descs, tios>>
      BY <1>2, <1>8, <2>1, <2>2, DeviceAlone
         DEF InitSpeed, device, stream, At, Opening, Reading, Places, Holding
    <2> QED
      BY <1>2, <1>3, <1>8, <2>1, <2>2 DEF InitSpeed, Opening
  <1>9. CASE InitApplies(t)
    <2>1. oldTios = "original"
      BY <1>9 DEF InitApplies, Progress
    <2>2. CASE Return(t) /\ UNCHANGED <<fd, descs>>
      BY <1>1, <1>2, <1>9, <2>1, <2>2, DeviceOfLone
         DEF InitApplies, Return, At, Opening, Reading
    <2> QED
      BY <1>3, <1>9, <2>1, <2>2 DEF InitApplies, Opening
  <1>10. CASE Drained(t) \/ ReadAvailable(t) \/ (ReadEnds(t) /\ pc[t] \in Reading)
    <2>1. ReadAvailable(t) => fd
      BY DEF ReadAvailable, Progress, Reading
    <2> QED
      BY <1>4, <1>10, <2>1
         DEF Drained, ReadAvailable, ReadEnds, stream, Opening, Reading
  <1>11. CASE GetsChar(t)
    <2>1. fd
      BY <1>11 DEF GetsChar, Progress, Reading
    <2>2. CASE UNCHANGED pc
      BY <1>11, <2>1, <2>2 DEF GetsChar, Released, Progress, device
    <2> QED
      BY <1>4, <1>11, <2>1, <2>2 DEF GetsChar, Opening
  <1> QED
    BY <1>5, <1>6, <1>7, <1>8, <1>9, <1>10, <1>11
       DEF Proceed, ReadTimesOut, ReadFails

LEMMA DeviceStep == Inv /\ [Next]_vars => Released' /\ Progress'
  <1> SUFFICES ASSUME Inv, [Next]_vars PROVE Released' /\ Progress'
    OBVIOUS
  <1>1. CASE UNCHANGED vars
    BY <1>1 DEF vars, device, stream, Inv, Released, Progress
  <1>2. CASE Arrive
    <2>1. descs > 0 /\ UNCHANGED <<fd, device, pc>>
      BY <1>2 DEF Arrive
    <2>2. ASSUME NEW t \in Threads,
                 pc[t] \in Reading \cup {"gets", "readBuf", "readChar"}
          PROVE  fd
      BY <2>1, <2>2, NobodyOpens DEF Reading, Opening
    <2> QED
      BY <2>1, <2>2 DEF device, Inv, Released, Progress
  <1> QED
    BY <1>1, <1>2, BeginDevice, EnterDevice, ProceedDevice DEF Next

\* Only comm_gets has characters, and it has none when it returns.
LEMMA GottenStep == Inv /\ [Next]_vars => Gotten'
  <1> SUFFICES ASSUME Inv, [Next]_vars PROVE Gotten'
    OBVIOUS
  <1> USE DEF Inv, TypeOK
  <1>1. ASSUME NEW t \in Threads, NEW p, Goto(t, p), UNCHANGED <<fd, got>>,
               pc[t] # "getting"
        PROVE  Gotten'
    BY <1>1 DEF Gotten, Goto
  <1>2. ASSUME NEW t \in Threads, Return(t), UNCHANGED fd PROVE Gotten'
    BY <1>2 DEF Gotten, Return, Goto
  \* The port is opened and closed when no comm_gets is at work.
  <1>7. ASSUME NEW t \in Threads, mutex \in {NoThread, t}, pc[t] # "getting",
               UNCHANGED got \/ Return(t)
        PROVE  Gotten'
    BY <1>7, NothingGotten, ThreadAssumption DEF Gotten, Return, ThreadAssumption
  <1>3. ASSUME NEW t \in Threads, Begin(t) PROVE Gotten'
    <2>1. \E p : pc[t] = "idle" /\ Goto(t, p) /\ UNCHANGED <<fd, got>>
      BY <1>3 DEF Begin, CallOpen, CallClose, CallInit, CallSetParam, CallPuts,
         CallWrite, CallGets, CallReadBuf, CallReadChar, CallRead, DrainInput, Call,
         calls
    <2> QED
      BY <1>1, <2>1
  <1>4. ASSUME NEW t \in Threads, Enter(t) PROVE Gotten'
    <2>1. \/ mutex = NoThread /\ (UNCHANGED got \/ Return(t))
          \/ \E p : Goto(t, p) /\ UNCHANGED <<fd, got>>
      BY <1>4 DEF Enter, OpenDevice, Close, InitCloses, SetParam, CommPuts, Write,
         SendCommand, LockToRead, ThenReadBuf, Lock, Inside, calls
    <2>4. pc[t] # "getting"
      BY <1>4 DEF Enter, OpenDevice, Close, InitCloses, SetParam, CommPuts, Write,
         SendCommand, LockToRead, Lock
    <2>2. CASE mutex = NoThread /\ (UNCHANGED got \/ Return(t))
      BY <1>7, <2>2, <2>4
    <2>3. CASE \E p : Goto(t, p) /\ UNCHANGED <<fd, got>>
      BY <1>1, <2>3, <2>4
    <2> QED
      BY <2>1, <2>2, <2>3
  <1>5. ASSUME NEW t \in Threads, Proceed(t) \/ ReadFails(t) PROVE Gotten'
    <2>1. CASE GetsChar(t) /\ UNCHANGED pc
      <3>1. /\ pc[t] = "getting" /\ \A u \in Threads : u # t => got'[u] = got[u]
            /\ fd /\ fd' = fd
        BY <2>1 DEF GetsChar, Return, Progress, Reading
      <3> QED
        BY <2>1, <3>1 DEF Gotten
    <2>2. \/ Return(t) /\ UNCHANGED fd
          \/ pc[t] \in Opening /\ Return(t)
          \/ GetsChar(t) /\ UNCHANGED pc
          \/ \E p : pc[t] # "getting" /\ Goto(t, p) /\ UNCHANGED <<fd, got>>
      BY <1>5 DEF Proceed, LockSerialFd, SaveTios, InitSaves, InitSpeed, InitApplies,
         Drained, GetsChar, ReadAvailable, ReadTimesOut, ReadFails, ReadEnds, GiveUp,
         calls, Opening
    <2>3. pc[t] \in Opening => mutex = t /\ pc[t] # "getting"
      BY DEF Exclusion, Holding, Opening
    <2> QED
      BY <1>1, <1>2, <1>7, <2>1, <2>2, <2>3
  <1>6. CASE Arrive \/ UNCHANGED vars
    BY <1>6 DEF Arrive, vars, calls, Gotten
  <1> QED
    BY <1>3, <1>4, <1>5, <1>6 DEF Next

LEMMA Invariance == Spec => []Inv
  <1>1. Inv /\ [Next]_vars => Inv'
    BY TypeStep, ControlStep, DeviceStep, GottenStep DEF Inv
  <1> QED
    BY <1>1, InitInv, PTL DEF Spec

\* Every state is well typed; the process has never closed a descriptor it does
\* not have.
THEOREM TypeCorrect == Spec => []TypeOK
  <1> QED
    BY Invariance, PTL DEF Inv

\* Whatever fails in open or init, however often they are called, and whatever calls
\* close meets, a closed port has no descriptor and its first settings, an open one
\* exactly one.
THEOREM DeviceIsReleased == Spec => []DeviceReleased
  <1>1. Inv => DeviceReleased
    BY DEF Inv, Released, DeviceReleased
  <1> QED
    BY <1>1, Invariance, PTL

----------------------------------------------------------------------------
(* The port implements SerialPort.  What a caller has not got yet is what  *)
(* the comm_gets that holds the mutex has, and what is left on the device. *)

LEMMA Concatenated ==
  ASSUME NEW S, NEW s \in Seq(S), NEW r \in Seq(S)
  PROVE  /\ s \o r \in Seq(S) /\ Len(s) \in 0 .. Len(s \o r)
         /\ SubSeq(s \o r, 1, Len(s)) = s
         /\ SubSeq(s \o r, Len(s) + 1, Len(s \o r)) = r
         /\ \A x \in S : s \o Append(r, x) = Append(s \o r, x)
         /\ r # <<>> => Append(s, Head(r)) \o Tail(r) = s \o r
         /\ <<>> \o r = r /\ s \o <<>> = s
  <1>1. s \o r \in Seq(S) /\ Len(s \o r) = Len(s) + Len(r) /\ Len(s) \in Nat
        /\ Len(r) \in Nat
    BY ConcatProperties
  <1>2. SubSeq(s \o r, 1, Len(s)) = s
    OBVIOUS
  <1>3. SubSeq(s \o r, Len(s) + 1, Len(s \o r)) = r
    OBVIOUS
  <1>4. \A x \in S : s \o Append(r, x) = Append(s \o r, x)
    OBVIOUS
  <1>5. r # <<>> => Append(s, Head(r)) \o Tail(r) = s \o r
    OBVIOUS
  <1>6. <<>> \o r = r /\ s \o <<>> = s
    BY ConcatEmptySeq
  <1>7. Len(s) \in 0 .. Len(s \o r)
    BY <1>1
  <1> QED
    BY <1>1, <1>2, <1>3, <1>4, <1>5, <1>6, <1>7, Zenon

LEMMA BegunTypes == TypeOK => Begun \in Seq(1 .. MaxChars)
  BY EmptySequence DEF TypeOK, Begun

\* Nothing has begun while nobody has the mutex, or one who does not read lines.
LEMMA BegunEmpty ==
  ASSUME Inv, mutex = NoThread \/ pc[mutex] # "getting"
  PROVE  Begun = <<>>
  BY NothingGotten DEF Begun

\* Whoever waits for characters does it on an open port, or on one that was closed
\* before it had the mutex, where there are none.
LEMMA ReadingUp ==
  ASSUME Inv, NEW t \in Threads, pc[t] \in Reading
  PROVE  mutex = t /\ (~Up => input = <<>> /\ got[t] = <<>>)
  <1>1. mutex = t
    BY DEF Inv, Exclusion, Holding
  <1>2. \A u \in Threads : pc[u] \notin Opening
    BY NobodyOpens DEF Opening, Reading
  <1>3. ~fd => input = <<>> /\ got[t] = <<>>
    BY DEF Inv, Progress, Gotten
  <1> QED
    BY <1>1, <1>2, <1>3 DEF Up

LEMMA BegunEmptyNext ==
  ASSUME Inv', mutex' = NoThread \/ pc'[mutex'] # "getting"
  PROVE  Begun' = <<>>
  BY ThreadAssumption DEF Inv, Gotten, Begun, ThreadAssumption

PortStep == [Port!Next]_Port!vars

\* A step that changes neither the descriptor nor the device's characters, and
\* takes no line that has begun with it.
LEMMA Stutters ==
  ASSUME Up' = Up, Begun' = Begun, UNCHANGED <<input, result>>
  PROVE  PortStep
  BY DEF PortStep, Port!vars, Unread

\* A step that begins or ends with a closed port opens it, closes it or does not
\* concern it.
LEMMA Switches ==
  ASSUME Inv', ~Up \/ ~Up', UNCHANGED result
  PROVE  PortStep
  <1>1. CASE Up'
    <2>1. Unread' = (Begun \o input)'
      BY <1>1 DEF Unread
    <2>2. Begun' \in Seq(1 .. MaxChars) /\ input' \in Seq(1 .. MaxChars)
      BY EmptySequence DEF Inv, TypeOK, Begun
    <2>3. Unread' \in Seq(1 .. MaxChars)
      BY <2>1, <2>2, ConcatProperties
    <2>4. Port!Open
      BY <1>1, <2>3 DEF Port!Open
    <2> QED
      BY <2>4 DEF PortStep, Port!Next
  <1>2. CASE Up
    <2>1. Unread' = <<>>
      BY <1>2 DEF Unread
    <2>2. Port!Close
      BY <1>2, <2>1 DEF Port!Close
    <2> QED
      BY <2>2 DEF PortStep, Port!Next
  <1>3. CASE ~Up /\ ~Up'
    <2>1. Up' = Up
      BY <1>3, Zenon DEF Up
    <2>2. Unread = <<>> /\ Unread' = <<>>
      BY <1>3 DEF Unread
    <2> QED
      BY <2>1, <2>2, Zenon DEF PortStep, Port!vars
  <1> QED
    BY <1>1, <1>2, <1>3

\* A step of one thread, on neither side of which it opens the port.
LEMMA KeepsUp ==
  ASSUME Inv, NEW t \in Threads, NEW p \in Places, pc[t] \notin Opening,
         p \notin Opening, Goto(t, p), UNCHANGED fd
  PROVE  Up' = Up
  <1>1. \A u \in Threads : pc'[u] \notin Opening <=> pc[u] \notin Opening
    BY DEF Goto, Inv, TypeOK
  <1> QED
    BY <1>1, Zenon DEF Up

LEMMA BeginRefines ==
  ASSUME Inv, Inv', NEW t \in Threads, Begin(t)
  PROVE  PortStep
  <1>1. CASE DrainInput(t)
    <2>1. /\ Up /\ UNCHANGED <<mutex, got, result>> /\ input' = <<>>
          /\ Goto(t, "idle") /\ UNCHANGED fd /\ pc[t] = "idle"
      BY <1>1 DEF DrainInput, Call, Up, Lone, calls
    <2>2. Up'
      BY <2>1, KeepsUp, PlaceNames DEF Opening
    <2>3. Begun' = Begun /\ Begun \in Seq(1 .. MaxChars) /\ input \in Seq(1 .. MaxChars)
      BY <2>1, BegunTypes DEF Begun, Inv, TypeOK
    <2>4. /\ Unread = Begun \o input /\ Unread' = Begun
      BY <2>1, <2>2, <2>3, ConcatEmptySeq DEF Unread
    <2>5. /\ Len(Begun) \in 0 .. Len(Unread)
          /\ Unread' = SubSeq(Unread, 1, Len(Begun))
      BY <2>3, <2>4, Concatenated
    <2>6. Port!Drain(Len(Begun))
      <3>1. Up' = Up
        BY <2>1, KeepsUp, PlaceNames DEF Opening
      <3> QED
        BY <2>1, <2>5, <3>1 DEF Port!Drain
    <2> QED
      BY <2>5, <2>6 DEF PortStep, Port!Next
  <1>2. CASE ~DrainInput(t)
    <2>1. \E p \in Places \ Opening :
            /\ pc[t] = "idle" /\ Goto(t, p)
            /\ UNCHANGED <<fd, mutex, got, input, result>>
      BY <1>2 DEF Begin, CallOpen, CallClose, CallInit, CallSetParam, CallPuts,
         CallWrite, CallGets, CallReadBuf, CallReadChar, CallRead, Call, calls, stream,
         Places, Opening
    <2>2. Begun' = Begun
      BY <2>1 DEF Begun
    <2>3. Up' = Up
      BY <2>1, KeepsUp DEF Opening
    <2> QED
      BY <2>1, <2>2, <2>3, Stutters
  <1> QED
    BY <1>1, <1>2

LEMMA EnterRefines ==
  ASSUME Inv, Inv', NEW t \in Threads, Enter(t)
  PROVE  PortStep
  <1>1. ASSUME NEW p \in {"open", "init"}, NEW q \in Opening, OpenDevice(t, p, q)
        PROVE  PortStep
    <2>1. ~Up /\ UNCHANGED result
      BY <1>1 DEF OpenDevice, Lock, Inv, Progress, Up
    <2> QED
      BY <2>1, Switches
  <1>2. CASE Close(t) \/ InitCloses(t)
    <2>1. ClosePort
      BY <1>2 DEF Close, InitCloses
    <2>2. fd' = FALSE \/ (~fd /\ UNCHANGED fd)
      BY <2>1, Zenon DEF ClosePort
    <2>3. ~Up \/ ~Up'
      BY <2>2, Zenon DEF Up
    <2> QED
      BY <2>1, <2>3, Switches DEF ClosePort
  \* A call that takes the mutex, and keeps it or not.
  <1>3. ASSUME NEW p \in Places \ Opening, NEW q \in Places \ Opening,
               Lock(t, p), p # "getting", Goto(t, q),
               UNCHANGED <<fd, input, result>>, mutex' \in {NoThread, t},
               q # "getting" \/ got' = got
        PROVE  PortStep
    <2>1. Up' = Up
      BY <1>3, KeepsUp DEF Lock
    <2>2. Begun = <<>>
      BY <1>3, BegunEmpty DEF Lock
    <2>3. Begun' = <<>>
      <3>1. CASE q # "getting" \/ mutex' = NoThread
        BY <1>3, <3>1, BegunEmptyNext DEF Goto, Inv, TypeOK
      <3>2. CASE got' = got /\ mutex' = t
        BY <1>3, <3>2 DEF Lock, Inv, Gotten, Begun
      <3> QED
        BY <1>3, <3>1, <3>2
    <2> QED
      BY <1>3, <2>1, <2>2, <2>3, Stutters
  <1>4. CASE SetParam(t) \/ CommPuts(t)
    BY <1>3, <1>4 DEF SetParam, CommPuts, stream, Inside, Return, Places, Opening,
       Holding
  <1>5. CASE Write(t)
    BY <1>3, <1>5, ThreadAssumption DEF Write, stream, ThenReadBuf, Lock, Return, Places, Opening
  <1>6. CASE SendCommand(t)
    <2>1. PICK p \in {"sendTerm", "readBuf", "idle"} :
            /\ pc[t] \in {"send", "sendTerm"} /\ Goto(t, p)
            /\ UNCHANGED <<fd, mutex, got, input, result>>
      BY <1>6 DEF SendCommand, Lock, ThenReadBuf, stream, calls
    <2>2. Begun' = Begun
      BY <2>1 DEF Begun
    <2>3. Up' = Up
      BY <2>1, KeepsUp DEF Opening, Places
    <2> QED
      BY <2>1, <2>2, <2>3, Stutters
  <1>7. ASSUME NEW p \in {"gets", "readBuf", "readChar"}, NEW q \in Reading,
               LockToRead(t, p, q)
        PROVE  PortStep
    BY <1>3, <1>7 DEF LockToRead, Inside, Lock, stream, calls, Places, Reading, Opening,
       Holding
  <1> QED
    BY <1>1, <1>2, <1>4, <1>5, <1>6, <1>7 DEF Enter, Opening, Reading

LEMMA ProceedRefines ==
  ASSUME Inv, Inv', NEW t \in Threads, Proceed(t) \/ ReadFails(t)
  PROVE  PortStep
  <1> DEFINE S == 1 .. MaxChars
  <1>0. /\ input \in Seq(S) /\ got[t] \in Seq(S)
        /\ cap[t] \in Nat
        /\ result \in [Threads -> Seq(S)]
    BY DEF Inv, TypeOK
  <1>9. \A s, r \in Seq(S) :
          /\ s \o r \in Seq(S) /\ Len(s) \in 0 .. Len(s \o r)
          /\ SubSeq(s \o r, 1, Len(s)) = s
          /\ SubSeq(s \o r, Len(s) + 1, Len(s \o r)) = r
          /\ \A x \in S : s \o Append(r, x) = Append(s \o r, x)
          /\ r # <<>> => Append(s, Head(r)) \o Tail(r) = s \o r
          /\ <<>> \o r = r /\ s \o <<>> = s
    BY Concatenated, Zenon
  <1>1. CASE LockSerialFd(t) \/ SaveTios(t) \/ InitSaves(t) \/ InitSpeed(t)
             \/ InitApplies(t)
    <2>1. ~Up /\ UNCHANGED result
      BY <1>1 DEF LockSerialFd, SaveTios, InitSaves, InitSpeed, InitApplies, Up,
         Opening
    <2> QED
      BY <2>1, Switches
  \* A call that returns leaves the port open, with no line begun.
  <1>2. ASSUME Return(t), UNCHANGED fd, pc[t] \notin Opening
        PROVE  Up' = Up /\ Begun' = <<>>
    BY <1>2, KeepsUp, PlaceNames, BegunEmptyNext DEF Return, Opening
  <1>3. CASE Drained(t)
    <2>1. mutex = t /\ pc[t] = "draining"
      BY <1>3 DEF Drained, Inv, Exclusion, Holding
    <2>2. Begun = <<>>
      BY <2>1, BegunEmpty
    <2>3. UNCHANGED <<fd, input, result>> /\ Return(t)
      BY <1>3 DEF Drained, stream
    <2> QED
      BY <1>2, <2>1, <2>2, <2>3, Stutters DEF Opening
  <1>4. ASSUME pc[t] \in Reading
        PROVE  /\ mutex = t /\ Begun = got[t] /\ Unread = got[t] \o input
               /\ Up \/ Unread = <<>>
               /\ input # <<>> => Up
               /\ pc[t] \notin Opening
    <2>1. mutex = t /\ (~Up => input = <<>> /\ got[t] = <<>>)
      BY <1>4, ReadingUp
    <2>2. Unread = got[t] \o input
      <3>1. CASE Up
        BY <2>1, <3>1 DEF Begun, Unread
      <3>2. CASE ~Up
        BY <1>0, <1>9, <2>1, <3>2 DEF Unread
      <3> QED
        BY <3>1, <3>2
    <2> QED
      BY <1>4, <2>1, <2>2 DEF Begun, Unread, Reading, Opening
  \* A read that returns the first n characters.
  <1>5. ASSUME pc[t] \in Reading, Return(t), UNCHANGED fd,
               NEW n \in 0 .. Len(Unread),
               result' = [result EXCEPT ![t] = SubSeq(Unread, 1, n)],
               input' = SubSeq(Unread, n + 1, Len(Unread)), input' \in Seq(S)
        PROVE  PortStep
    <2>1. Up' = Up /\ Begun' = <<>>
      BY <1>2, <1>4, <1>5
    <2>2. Unread' = input'
      <3>1. CASE Up
        BY <1>5, <2>1, <3>1, ConcatEmptySeq DEF Unread
      <3>2. CASE ~Up
        <4>1. Unread = <<>> /\ Unread' = <<>>
          BY <2>1, <3>2 DEF Unread
        <4>2. n = 0 /\ input' = SubSeq(<<>>, 1, 0)
          BY <1>5, <4>1
        <4> QED
          BY <4>1, <4>2
      <3> QED
        BY <3>1, <3>2
    <2>3. Port!Read(t, n)
      BY <1>5, <2>1, <2>2 DEF Port!Read
    <2> QED
      BY <2>3 DEF PortStep, Port!Next
  <1>6. CASE GetsChar(t)
    <2> DEFINE text == Append(got[t], Head(input))
    <2>1. pc[t] \in Reading /\ input # <<>> /\ input' = Tail(input) /\ UNCHANGED fd
      BY <1>6 DEF GetsChar, Reading
    <2>2. text \in Seq(S) /\ Tail(input) \in Seq(S)
      BY <1>0, <2>1, HeadTailProperties, AppendProperties
    <2>3. text \o Tail(input) = Unread
      <3>1. Unread = got[t] \o input
        BY <1>4, <2>1
      <3>2. text \o Tail(input) = got[t] \o input
        BY <1>0, <1>9, <2>1, Zenon
      <3> QED
        BY <3>1, <3>2
    <2> HIDE DEF text
    <2>4. CASE result' = [result EXCEPT ![t] = text] /\ Return(t)
      <3>1. /\ Len(text) \in 0 .. Len(Unread)
            /\ SubSeq(Unread, 1, Len(text)) = text
            /\ SubSeq(Unread, Len(text) + 1, Len(Unread)) = Tail(input)
        BY <1>9, <2>2, <2>3
      <3> QED
        BY <1>5, <2>1, <2>2, <2>4, <3>1
    <2>5. CASE got' = [got EXCEPT ![t] = text] /\ UNCHANGED <<mutex, pc, result>>
      <3>1. Up' = Up /\ Up /\ Up'
        BY <1>4, <2>1, <2>5 DEF Up
      <3>2. Begun' = text
        BY <1>4, <2>1, <2>5 DEF Begun, Inv, TypeOK
      <3>3. Unread' = Unread
        BY <2>1, <2>3, <3>1, <3>2 DEF Unread
      <3> QED
        BY <2>5, <3>1, <3>3 DEF PortStep, Port!vars
    <2> QED
      BY <1>6, <2>4, <2>5 DEF GetsChar, text
  <1>7. CASE ReadAvailable(t)
    <2> DEFINE n == IF cap[t] < Len(input) THEN cap[t] ELSE Len(input)
    <2>1. pc[t] \in Reading /\ got[t] = <<>> /\ Return(t) /\ UNCHANGED fd
      BY <1>7 DEF ReadAvailable, Reading, Inv, Gotten
    <2>2. Unread = input
      BY <1>0, <1>4, <2>1, ConcatEmptySeq
    <2>3. n \in 0 .. Len(Unread)
      BY <1>0, <2>2
    <2>4. /\ result' = [result EXCEPT ![t] = SubSeq(input, 1, n)]
          /\ input' = SubSeq(input, n + 1, Len(input))
      BY <1>7 DEF ReadAvailable
    <2>5. input' \in Seq(S)
      BY DEF Inv, TypeOK
    <2> QED
      BY <1>5, <2>1, <2>2, <2>3, <2>4, <2>5
  <1>8. CASE ReadTimesOut(t) \/ ReadFails(t)
    <2>1. pc[t] \in Reading /\ Return(t) /\ UNCHANGED <<fd, input>>
          /\ result' = [result EXCEPT ![t] = got[t]]
      BY <1>8 DEF ReadTimesOut, ReadFails, ReadEnds, stream
    <2>2. Unread = got[t] \o input /\ got[t] \in Seq(S) /\ input \in Seq(S)
      BY <1>0, <1>4, <2>1
    <2>3. /\ Len(got[t]) \in 0 .. Len(Unread)
          /\ SubSeq(Unread, 1, Len(got[t])) = got[t]
          /\ SubSeq(Unread, Len(got[t]) + 1, Len(Unread)) = input
      BY <1>9, <2>2
    <2> QED
      BY <1>0, <1>5, <2>1, <2>3
  <1> QED
    BY <1>1, <1>3, <1>6, <1>7, <1>8 DEF Proceed

LEMMA ArriveRefines ==
  ASSUME Inv, Inv', Arrive
  PROVE  PortStep
  <1>1. UNCHANGED <<fd, mutex, pc, got, result>> /\ input' = Append(input, arrived + 1)
    BY DEF Arrive, calls
  <1>2. Up' = Up /\ Begun' = Begun
    BY <1>1 DEF Up, Begun
  <1>3. CASE Up
    <2>1. /\ arrived + 1 \in 1 .. MaxChars /\ input \in Seq(1 .. MaxChars)
          /\ Begun \in Seq(1 .. MaxChars)
      BY CharsAssumption, BegunTypes DEF Arrive, CharsAssumption, Inv, TypeOK
    <2>2. Begun \o input' = Append(Begun \o input, arrived + 1)
      BY <1>1, <2>1, Concatenated
    <2>3. Unread' = Append(Unread, arrived + 1)
      BY <1>2, <1>3, <2>2 DEF Unread
    <2>4. Port!Arrive(arrived + 1)
      BY <1>1, <1>2, <1>3, <2>3 DEF Port!Arrive
    <2> QED
      BY <2>1, <2>4 DEF PortStep, Port!Next
  <1> QED
    BY <1>1, <1>3, Switches

\* Whatever the interleaving, each call's read returns neighbouring characters,
\* the next ones that nobody has got, and comm_gets as if in one step; a close in
\* between comes before it or after it.
THEOREM PortImplemented == Spec => ImplementsPort
  <1>1. Init => Port!Init
    BY DEF Init, Port!Init, Up, Unread
  <1>2. Inv /\ Inv' /\ [Next]_vars => [Port!Next]_Port!vars
    <2> SUFFICES ASSUME Inv, Inv', [Next]_vars PROVE PortStep
      BY DEF PortStep
    <2>1. CASE UNCHANGED vars
      <3>1. Up' = Up /\ Begun' = Begun
        BY <2>1 DEF vars, calls, Up, Begun
      <3> QED
        BY <2>1, <3>1, Stutters DEF vars, stream
    <2> QED
      BY <2>1, BeginRefines, EnterRefines, ProceedRefines, ArriveRefines DEF Next
  <1> QED
    BY <1>1, <1>2, Invariance, PTL DEF Spec, ImplementsPort, Port!Spec
=============================================================================
