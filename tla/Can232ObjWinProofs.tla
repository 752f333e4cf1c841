------------------------- MODULE Can232ObjWinProofs -------------------------
(***************************************************************************)
(* Theorems about Can232ObjWin, for every finite number of threads, every  *)
(* size of the queues and the buffer, and any interleaving of the steps    *)
(* that no mutex keeps apart.                                              *)
(***************************************************************************)
EXTENDS Can232ObjWin, FiniteSetTheorems, SequenceTheorems, TLAPS

----------------------------------------------------------------------------
(* The line.  Whatever a step does, it puts nothing, an answer or the next *)
(* frame, unless it is lost, behind what is there, and takes some of the   *)
(* first tokens away.                                                      *)

Behind ==
  \/ /\ UNCHANGED busFrames \/ (busFrames < MaxFrames /\ busFrames' = busFrames + 1)
     /\ \E a \in {<<>>, <<Cr>>, <<Other>>} : line' \in Left(line \o a)
  \/ /\ busFrames < MaxFrames /\ busFrames' = busFrames + 1
     /\ line' \in Left(line \o Frame(busFrames + 1))

LEMMA TokensOnLine ==
  /\ <<>> \in Seq(Tokens) /\ <<Cr>> \in Seq(Tokens) /\ <<Other>> \in Seq(Tokens)
  /\ \A n \in Frames : Frame(n) \in Seq(Tokens)
  BY DEF Frame, Tokens

LEMMA AllLeft ==
  ASSUME NEW l \in Seq(Tokens)
  PROVE  l \in Left(l) /\ <<>> \in Left(l) /\ (l # <<>> => Tail(l) \in Left(l))
  <1>1. l = SubSeq(l, 0 + 1, Len(l)) /\ 0 \in 0 .. Len(l)
    OBVIOUS
  <1>2. <<>> = SubSeq(l, Len(l) + 1, Len(l)) /\ Len(l) \in 0 .. Len(l)
    OBVIOUS
  <1>3. l # <<>> => Tail(l) = SubSeq(l, 1 + 1, Len(l)) /\ 1 \in 0 .. Len(l)
    OBVIOUS
  <1> QED
    BY <1>1, <1>2, <1>3, Zenon DEF Left

LEMMA AnsweredBehind ==
  ASSUME TypeOK, NEW Answers, NEW l \in Answered(Answers)
  PROVE  l \in Left(line \o <<>>) \/ \E a \in Answers : l \in Left(line \o a)
  <1>1. line \o <<>> = line
    BY ConcatEmptySeq DEF TypeOK
  <1> QED
    BY <1>1 DEF Answered

LEMMA CommandBehind ==
  ASSUME TypeOK, Command
  PROVE  Behind
  <1>1. line \in Left(line \o <<>>)
    BY AllLeft, ConcatEmptySeq DEF TypeOK
  <1> QED
    BY <1>1, AnsweredBehind DEF Command, Behind

LEMMA StillBehind ==
  ASSUME TypeOK, UNCHANGED busFrames, line' \in Left(line)
  PROVE  Behind
  <1>1. line \o <<>> = line
    BY ConcatEmptySeq DEF TypeOK
  <1> QED
    BY <1>1 DEF Behind

LEMMA LineStep == TypeOK /\ [Next]_vars => Behind
  <1> SUFFICES ASSUME TypeOK, [Next]_vars PROVE Behind
    OBVIOUS
  <1> USE DEF adapter
  <1>0. line \in Seq(Tokens)
    BY DEF TypeOK
  <1>1. CASE UNCHANGED adapter
    BY <1>0, <1>1, StillBehind, AllLeft
  <1>2. ASSUME NEW t \in Threads, CallStep(t), ~UNCHANGED adapter
        PROVE  Behind
    <2>1. CASE Command
      BY <2>1, CommandBehind
    <2>2. CASE SetFilterDone(t)
      BY <2>2, StillBehind DEF SetFilterDone, ReadBuf
    <2>3. CASE ClosePort(t)
      BY <1>0, <2>3, StillBehind, AllLeft DEF ClosePort
    <2> QED
      BY <1>2, <2>1, <2>2, <2>3 DEF CallStep, WriteMsg, AddBegins, AddEnds, ReadMsg,
         TakeBegins, TakeEnds, SetFilter, SetFilterMask, Close
  <1>3. ASSUME WorkerStep, ~UNCHANGED adapter PROVE Behind
    <2>1. CASE Command
      BY <2>1, CommandBehind
    <2>2. CASE WorkerReceive
      BY <1>0, <2>2, StillBehind, AllLeft DEF WorkerReceive
    <2>3. CASE WorkerAnswer
      BY <2>3, StillBehind DEF WorkerAnswer, ReadBuf
    <2>4. CASE WorkerPoll /\ Poll /\ ~Command
      <3>1. /\ busFrames < MaxFrames /\ busFrames' = busFrames + 1
            /\ line' \in Answered({Frame(busFrames + 1)})
        BY <2>4 DEF Poll
      <3> DEFINE f == Frame(busFrames + 1)
      <3> HIDE DEF f
      <3>2. line' \in Left(line \o <<>>) \/ line' \in Left(line \o f)
        BY <3>1, AnsweredBehind DEF f
      <3> QED
        BY <3>1, <3>2 DEF Behind, f
    <2> QED
      BY <1>3, <2>1, <2>2, <2>3, <2>4 DEF WorkerStep, WorkerLoop, WorkerReceiveNothing,
         QueueBegins, QueueEnds, WorkerNoMessage, RemoveBegins, RemoveEnds, WorkerPoll,
         UseDeleted
  <1>4. CASE BusFrame
    <2>1. Frame(busFrames + 1) \in Seq(Tokens)
      BY <1>4, TokensOnLine, BoundAssumption
         DEF BusFrame, TypeOK, Frames, BoundAssumption
    <2>2. line \o Frame(busFrames + 1) \in Seq(Tokens)
      BY <1>0, <2>1, ConcatProperties
    <2> QED
      BY <1>4, <2>2, AllLeft DEF BusFrame, Behind
  <1> QED
    BY <1>1, <1>2, <1>3, <1>4 DEF Next, Delete, AtRest, vars

\* The frames of l have numbers up to n, grow along the line, and are later than
\* the one that is being received and all those received.
Seen == {delivered[i] : i \in DOMAIN delivered} \cup {rcvList[i] : i \in DOMAIN rcvList}
Later(f) == begun < f /\ \A g \in Seen : g < f
Orderly(l, n) ==
  /\ \A i \in DOMAIN l : l[i] \in Frames => l[i] <= n /\ Later(l[i])
  /\ \A i, j \in DOMAIN l :
       i < j /\ l[i] \in Frames /\ l[j] \in Frames => l[i] < l[j]

LEMMA LeftOrderly ==
  ASSUME NEW l \in Seq(Tokens), NEW r \in Left(l), NEW n, Orderly(l, n)
  PROVE  r \in Seq(Tokens) /\ Orderly(r, n)
  <1>1. PICK k \in 0 .. Len(l) : r = SubSeq(l, k + 1, Len(l))
    BY DEF Left
  <1>2. k + 1 \in Int /\ Len(l) \in Int
        /\ \A i \in k + 1 .. Len(l) : l[i] \in Tokens
    OBVIOUS
  <1>3. r \in Seq(Tokens)
    BY <1>1, <1>2, SubSeqProperties
  <1>4. DOMAIN r = 1 .. Len(l) - k
        /\ \A i \in 1 .. Len(l) - k : r[i] = l[k + i] /\ k + i \in DOMAIN l
    BY <1>1
  <1>5. Orderly(r, n)
    <2>1. \A i \in DOMAIN r : r[i] \in Frames => r[i] <= n /\ Later(r[i])
      BY <1>4 DEF Orderly
    <2>2. ASSUME NEW i \in DOMAIN r, NEW j \in DOMAIN r, i < j, r[i] \in Frames,
                 r[j] \in Frames
          PROVE  r[i] < r[j]
      <3>1. k + i < k + j /\ k + i \in DOMAIN l /\ k + j \in DOMAIN l
            /\ r[i] = l[k + i] /\ r[j] = l[k + j]
        BY <1>4, <2>2
      <3> QED
        BY <2>2, <3>1 DEF Orderly
    <2> QED
      BY <2>1, <2>2 DEF Orderly
  <1> QED
    BY <1>3, <1>5

\* An answer begins no frame.
LEMMA AnswerOrderly ==
  ASSUME TypeOK, Orderly(line, busFrames), NEW n \in {busFrames, busFrames + 1},
         NEW a \in {<<>>, <<Cr>>, <<Other>>}
  PROVE  line \o a \in Seq(Tokens) /\ Orderly(line \o a, n)
  <1>1. line \in Seq(Tokens) /\ a \in Seq(Tokens)
    BY TokensOnLine DEF TypeOK
  <1>2. \A i \in DOMAIN a : a[i] \notin Frames
    BY DEF Frames, Cr, Other
  <1>3. /\ DOMAIN (line \o a) = 1 .. Len(line) + Len(a)
        /\ \A i \in 1 .. Len(line) : (line \o a)[i] = line[i] /\ i \in DOMAIN line
        /\ \A i \in Len(line) + 1 .. Len(line) + Len(a) :
              (line \o a)[i] = a[i - Len(line)] /\ i - Len(line) \in DOMAIN a
    BY <1>1
  <1>4. \A i \in DOMAIN (line \o a) :
          (line \o a)[i] \in Frames =>
             i \in DOMAIN line /\ (line \o a)[i] = line[i]
    <2> TAKE i \in DOMAIN (line \o a)
    <2>1. i \in 1 .. Len(line) \/ i \in Len(line) + 1 .. Len(line) + Len(a)
      BY <1>1, <1>3
    <2> QED
      BY <1>2, <1>3, <2>1
  <1>5. \A i \in DOMAIN line : line[i] \in Frames => line[i] <= n
    BY BoundAssumption DEF Orderly, TypeOK, Frames, BoundAssumption
  <1>6. Orderly(line \o a, n)
    BY <1>4, <1>5 DEF Orderly
  <1> QED
    BY <1>1, <1>6, ConcatProperties

\* The next frame is later than all before it.
LEMMA FrameOrderly ==
  ASSUME TypeOK, Orderly(line, busFrames), busFrames < MaxFrames,
         Later(busFrames + 1)
  PROVE  /\ line \o Frame(busFrames + 1) \in Seq(Tokens)
         /\ Orderly(line \o Frame(busFrames + 1), busFrames + 1)
  <1> DEFINE n == busFrames + 1
             l == line \o Frame(n)
  <1>1. n \in Frames /\ busFrames \in Nat /\ line \in Seq(Tokens)
    BY BoundAssumption DEF TypeOK, Frames, BoundAssumption
  <1>2. Frame(n) \in Seq(Tokens)
    BY <1>1, TokensOnLine
  <1>3. /\ DOMAIN l = 1 .. Len(line) + 3
        /\ \A i \in 1 .. Len(line) : l[i] = line[i] /\ i \in DOMAIN line
        /\ l[Len(line) + 1] = n /\ l[Len(line) + 2] = Other /\ l[Len(line) + 3] = Cr
    BY <1>1, <1>2 DEF Frame
  <1> HIDE DEF l
  <1>4. \A i \in DOMAIN l : l[i] \in Frames =>
          (i \in DOMAIN line /\ l[i] = line[i]) \/ (i = Len(line) + 1 /\ l[i] = n)
    <2> TAKE i \in DOMAIN l
    <2>1. i \in 1 .. Len(line) \/ i = Len(line) + 1 \/ i = Len(line) + 2
          \/ i = Len(line) + 3
      BY <1>1, <1>3
    <2> QED
      BY <1>3, <2>1 DEF Frames, Cr, Other
  <1>5. \A i \in DOMAIN l : l[i] \in Frames => l[i] <= n /\ Later(l[i])
    <2> SUFFICES ASSUME NEW i \in DOMAIN l, l[i] \in Frames
                 PROVE  l[i] <= n /\ Later(l[i])
      OBVIOUS
    <2>1. CASE i \in DOMAIN line /\ l[i] = line[i]
      BY <1>1, <2>1 DEF Orderly, Frames
    <2>2. CASE l[i] = n
      BY <1>1, <2>2
    <2> QED
      BY <1>4, <2>1, <2>2
  <1>6. ASSUME NEW i \in DOMAIN l, NEW j \in DOMAIN l, i < j, l[i] \in Frames,
               l[j] \in Frames
        PROVE  l[i] < l[j]
    <2>1. j \in DOMAIN line => i \in DOMAIN line
      BY <1>1, <1>3, <1>6
    <2>2. i \in DOMAIN line => l[i] <= busFrames
      BY <1>3, <1>1, <1>6 DEF Orderly
    <2>3. DOMAIN line = 1 .. Len(line)
      BY <1>1
    <2>4. CASE j \in DOMAIN line
      BY <1>3, <1>6, <2>1, <2>3, <2>4 DEF Orderly
    <2>5. CASE j \notin DOMAIN line
      BY <1>1, <1>4, <1>6, <2>2, <2>3, <2>5 DEF Frames
    <2> QED
      BY <2>4, <2>5
  <1>7. Orderly(l, n)
    BY <1>5, <1>6 DEF Orderly
  <1> QED
    BY <1>1, <1>2, <1>7, ConcatProperties DEF l

Order ==
  /\ \A f \in Seen : f <= busFrames
  /\ begun # NoFrame => begun <= busFrames /\ \A f \in Seen : f < begun
  /\ Orderly(line, busFrames)

LEMMA SeenFrames == TypeOK => Seen \subseteq Frames
  BY DEF TypeOK, Seen

LEMMA BehindOrderly ==
  ASSUME TypeOK, Order, Behind
  PROVE  /\ line' \in Seq(Tokens) /\ Orderly(line', busFrames')
         /\ busFrames' \in 0 .. MaxFrames /\ busFrames <= busFrames'
  <1>1. busFrames \in Nat /\ MaxFrames \in Nat /\ busFrames <= MaxFrames
    BY BoundAssumption DEF TypeOK, BoundAssumption
  <1>2. busFrames' \in {busFrames, busFrames + 1} /\ busFrames' <= MaxFrames
    BY <1>1 DEF Behind
  <1>3. CASE \E a \in {<<>>, <<Cr>>, <<Other>>} : line' \in Left(line \o a)
    <2>1. PICK a \in {<<>>, <<Cr>>, <<Other>>} : line' \in Left(line \o a)
      BY <1>3
    <2>2. line \o a \in Seq(Tokens) /\ Orderly(line \o a, busFrames')
      BY <1>2, AnswerOrderly DEF Order
    <2>3. line' \in Seq(Tokens) /\ Orderly(line', busFrames')
      BY <2>1, <2>2, LeftOrderly
    <2> QED
      BY <1>1, <1>2, <2>3
  <1>4. CASE /\ busFrames < MaxFrames /\ busFrames' = busFrames + 1
             /\ line' \in Left(line \o Frame(busFrames + 1))
    <2>1. Later(busFrames + 1)
      <3>1. begun < busFrames + 1
        BY <1>1 DEF Order, TypeOK, Frames, NoFrame
      <3>2. \A f \in Seen : f < busFrames + 1
        BY <1>1, SeenFrames DEF Order, Frames
      <3> QED
        BY <3>1, <3>2 DEF Later
    <2>2. /\ line \o Frame(busFrames + 1) \in Seq(Tokens)
          /\ Orderly(line \o Frame(busFrames + 1), busFrames + 1)
      BY <1>4, <2>1, FrameOrderly DEF Order
    <2>3. line' \in Seq(Tokens) /\ Orderly(line', busFrames + 1)
      BY <1>4, <2>2, LeftOrderly
    <2> QED
      BY <1>1, <1>2, <1>4, <2>3
  <1> QED
    BY <1>3, <1>4 DEF Behind

----------------------------------------------------------------------------
(* The inductive invariant *)

\* What a thread inside a list relies on, as long as nothing undefined happened.
Control ==
  /\ wpc \in {"queue", "queueing"} => begun \in Frames /\ Len(rcvList) < MaxRcv
  /\ wpc = "removing" => sndList # <<>>
  /\ defined => \A t \in Threads : tpc[t] = "taking" =>
                  rcvList # <<>> /\ \A u \in Threads : tpc[u] = "taking" => u = t

\* OneMessageLate, with where the worker is when it has taken that message.
Ending ==
  /\ wpc = "done" => ~bRun
  /\ ~bRun => /\ Len(transmitted) \in {sentAtClose, sentAtClose + 1}
              /\ Len(transmitted) = sentAtClose + 1
                   => wpc \in {"answer", "poll", "loop", "done"}

Inv == TypeOK /\ Control /\ Order /\ Ending /\ RoomKept

LEMMA AddingFinite ==
  /\ IsFiniteSet(Adding) /\ Cardinality(Adding) \in Nat
  /\ Cardinality(Threads) \in Nat /\ Cardinality(Adding) <= Cardinality(Threads)
  <1>1. Adding \subseteq Threads
    BY DEF Adding
  <1> QED
    BY <1>1, ThreadAssumption, FS_Subset, FS_CardinalityType DEF ThreadAssumption

LEMMA InitInv == Init => Inv
  <1> SUFFICES ASSUME Init PROVE Inv
    OBVIOUS
  <1>1. TypeOK
    <2>1. /\ <<>> \in Seq(Messages) /\ <<>> \in Seq(Frames) /\ <<>> \in Seq(Tokens)
      OBVIOUS
    <2>2. tpc \in [Threads -> {"idle", "add", "adding", "take", "taking", "answer2",
                               "answer1", "shut"}]
      BY DEF Init
    <2>3. /\ bRun \in BOOLEAN /\ bAuto \in BOOLEAN /\ portOpen \in BOOLEAN
          /\ deleted \in BOOLEAN /\ defined \in BOOLEAN
      BY DEF Init
    <2>4. /\ cntRcv \in 0 .. BufSize /\ nPollCnt \in 0 .. PollEvery
          /\ busFrames \in 0 .. MaxFrames /\ commands \in 0 .. MaxCommands
          /\ sentAtClose \in Nat
      BY BufferAssumption, BoundAssumption
         DEF Init, BufferAssumption, BoundAssumption
    <2> QED
      BY <2>1, <2>2, <2>3, <2>4 DEF Init, TypeOK
  <1>2. Control /\ Ending
    BY DEF Init, Control, Ending
  <1>3. Order
    <2>1. Seen = {} /\ DOMAIN line = {}
      BY DEF Init, Seen
    <2> QED
      BY <2>1 DEF Init, Order, Orderly
  <1>4. RoomKept
    <2>1. Adding = {}
      BY DEF Init, Adding
    <2> QED
      BY <2>1, QueueAssumption, AddingFinite, FS_EmptySet
         DEF Init, RoomKept, QueueAssumption
  <1> QED
    BY <1>1, <1>2, <1>3, <1>4 DEF Inv

----------------------------------------------------------------------------
(* Types.  The line has its own lemma.                                     *)

LEMMA HeadAndTail ==
  ASSUME NEW S, NEW s \in Seq(S), s # <<>>
  PROVE  Head(s) \in S /\ Tail(s) \in Seq(S) /\ Len(Tail(s)) = Len(s) - 1
         /\ Len(s) \in Nat
  BY HeadTailProperties

CallTypes ==
  tpc \in [Threads -> {"idle", "add", "adding", "take", "taking", "answer2",
                       "answer1", "shut"}]

\* All but the adapter and the calls.
RestTypes ==
  /\ bRun \in BOOLEAN /\ bAuto \in BOOLEAN /\ portOpen \in BOOLEAN
  /\ deleted \in BOOLEAN /\ defined \in BOOLEAN
  /\ wpc \in {"loop", "receive", "queue", "queueing", "transmit", "removing",
              "answer", "poll", "done"}
  /\ sndList \in Seq(Messages) /\ rcvList \in Seq(Frames)
  /\ begun \in {NoFrame} \cup Frames /\ cntRcv \in 0 .. BufSize
  /\ nPollCnt \in 0 .. PollEvery
  /\ commands \in 0 .. MaxCommands
  /\ transmitted \in Seq(Messages) /\ delivered \in Seq(Frames)
  /\ sentAtClose \in Nat

LEMMA CallStepTypes ==
  ASSUME Inv, NEW t \in Threads, CallStep(t)
  PROVE  CallTypes' /\ RestTypes'
  <1> USE DEF rx, tx, rest
  <1>0. TypeOK
    BY DEF Inv
  <1>1. CallTypes'
    BY <1>0 DEF CallStep, WriteMsg, AddBegins, AddEnds, ReadMsg, TakeBegins, TakeEnds,
       SetFilter, SetFilterMask, SetFilterDone, Close, ClosePort, Goto, CallTypes,
       TypeOK
  <1>2. CASE WriteMsg(t) \/ SetFilterMask(t) \/ SetFilterDone(t)
    BY <1>0, <1>1, <1>2 DEF WriteMsg, SetFilterMask, SetFilterDone, TypeOK, RestTypes
  <1>3. CASE AddBegins(t) \/ ReadMsg(t) \/ TakeBegins(t)
    <2>1. defined' \in BOOLEAN
      BY <1>3, Zenon DEF AddBegins, ReadMsg, TakeBegins
    <2> QED
      BY <1>0, <1>1, <1>3, <2>1 DEF AddBegins, ReadMsg, TakeBegins, TypeOK, RestTypes
  <1>4. ASSUME NEW m \in Messages, AddEnds(t, m) PROVE RestTypes'
    <2>1. Append(sndList, m) \in Seq(Messages)
      BY <1>0, AppendProperties DEF TypeOK
    <2> QED
      BY <1>0, <1>1, <1>4, <2>1 DEF AddEnds, TypeOK, RestTypes
  <1>5. CASE TakeEnds(t)
    <2>1. rcvList \in Seq(Frames) /\ rcvList # <<>> /\ delivered \in Seq(Frames)
      BY <1>5 DEF TakeEnds, At, Inv, Control, TypeOK
    <2>2. Head(rcvList) \in Frames /\ Tail(rcvList) \in Seq(Frames)
      BY <2>1, HeadAndTail
    <2>3. Append(delivered, Head(rcvList)) \in Seq(Frames)
      BY <2>1, <2>2, AppendProperties
    <2> QED
      BY <1>0, <1>1, <1>5, <2>2, <2>3 DEF TakeEnds, TypeOK, RestTypes
  <1>6. ASSUME NEW n \in {1, 2}, SetFilter(t, n) PROVE RestTypes'
    BY <1>0, <1>6, BoundAssumption DEF SetFilter, TypeOK, RestTypes, BoundAssumption
  <1>7. CASE Close(t)
    <2>1. bRun' \in BOOLEAN
      BY <1>7, Zenon DEF Close
    <2>2. sentAtClose' \in Nat
      BY <1>0, <1>7, LenProperties DEF Close, TypeOK
    <2> QED
      BY <1>0, <1>1, <1>7, <2>1, <2>2 DEF Close, TypeOK, RestTypes
  <1>8. CASE ClosePort(t)
    <2>1. portOpen' \in BOOLEAN
      BY <1>8, Zenon DEF ClosePort
    <2> QED
      BY <1>0, <1>1, <1>8, <2>1 DEF ClosePort, TypeOK, RestTypes
  <1> QED
    BY <1>1, <1>2, <1>3, <1>4, <1>5, <1>6, <1>7, <1>8 DEF CallStep

LEMMA WorkerStepTypes ==
  ASSUME Inv, WorkerStep
  PROVE  CallTypes' /\ RestTypes'
  <1> USE DEF rx, tx, rest
  <1>0. TypeOK
    BY DEF Inv
  <1>1. CallTypes'
    BY <1>0 DEF WorkerStep, WorkerLoop, WorkerReceive, WorkerReceiveNothing, QueueBegins,
       QueueEnds, WorkerNoMessage, RemoveBegins, RemoveEnds, WorkerAnswer, WorkerPoll,
       UseDeleted, CallTypes, TypeOK
  <1>2. CASE WorkerLoop \/ WorkerReceiveNothing \/ WorkerNoMessage \/ WorkerAnswer
    BY <1>0, <1>1, <1>2 DEF WorkerLoop, WorkerReceiveNothing, WorkerNoMessage, WorkerAnswer,
       TypeOK, RestTypes
  <1>3. CASE QueueBegins \/ RemoveBegins \/ UseDeleted
    <2>1. defined' \in BOOLEAN
      BY <1>3, Zenon DEF QueueBegins, RemoveBegins, UseDeleted
    <2> QED
      BY <1>0, <1>1, <1>3, <2>1 DEF QueueBegins, RemoveBegins, UseDeleted, TypeOK, RestTypes
  <1>4. CASE WorkerReceive
    <2>1. begun' \in {NoFrame} \cup Frames
      BY <1>0, <1>1, <1>4 DEF WorkerReceive, Complete, Abandon, StoreByte, TypeOK
    <2>2. cntRcv' \in 0 .. BufSize
      BY <1>0, <1>4, BufferAssumption
         DEF WorkerReceive, Complete, Abandon, StoreByte, TypeOK, BufferAssumption
    <2>3. wpc' \in {"receive", "queue"}
      BY <1>4 DEF WorkerReceive, WorkerAt, Complete, Abandon, StoreByte
    <2> QED
      BY <1>0, <1>1, <1>4, <2>1, <2>2, <2>3 DEF WorkerReceive, TypeOK, RestTypes
  <1>5. CASE QueueEnds
    <2>1. Append(rcvList, begun) \in Seq(Frames)
      BY <1>0, <1>5, AppendProperties DEF QueueEnds, WorkerAt, Inv, Control, TypeOK
    <2>2. 0 \in 0 .. BufSize
      BY BufferAssumption DEF BufferAssumption
    <2> QED
      BY <1>0, <1>1, <1>5, <2>1, <2>2 DEF QueueEnds, TypeOK, RestTypes
  <1>6. CASE RemoveEnds
    <2>1. sndList \in Seq(Messages) /\ sndList # <<>> /\ transmitted \in Seq(Messages)
      BY <1>6 DEF RemoveEnds, WorkerAt, Inv, Control, TypeOK
    <2>2. Head(sndList) \in Messages /\ Tail(sndList) \in Seq(Messages)
      BY <2>1, HeadAndTail
    <2>3. Append(transmitted, Head(sndList)) \in Seq(Messages)
      BY <2>1, <2>2, AppendProperties
    <2> QED
      BY <1>0, <1>1, <1>6, <2>2, <2>3 DEF RemoveEnds, TypeOK, RestTypes
  <1>7. CASE WorkerPoll
    <2>1. nPollCnt' \in 0 .. PollEvery
      BY <1>0, <1>7, BufferAssumption DEF WorkerPoll, TypeOK, BufferAssumption
    <2> QED
      BY <1>0, <1>1, <1>7, <2>1 DEF WorkerPoll, TypeOK, RestTypes
  <1> QED
    BY <1>1, <1>2, <1>3, <1>4, <1>5, <1>6, <1>7 DEF WorkerStep

LEMMA TypeStep == Inv /\ [Next]_vars => TypeOK'
  <1> SUFFICES ASSUME Inv, [Next]_vars PROVE TypeOK'
    OBVIOUS
  <1>1. line' \in Seq(Tokens) /\ busFrames' \in 0 .. MaxFrames
    BY LineStep, BehindOrderly DEF Inv
  <1>2. CallTypes' /\ RestTypes'
    <2>1. CASE Delete
      <3>1. deleted' \in BOOLEAN
        BY <2>1, Zenon DEF Delete
      <3> QED
        BY <2>1, <3>1 DEF Delete, rx, tx, Inv, TypeOK, CallTypes, RestTypes
    <2>2. CASE BusFrame
      BY <2>2 DEF BusFrame, rx, tx, rest, Inv, TypeOK, CallTypes, RestTypes
    <2>3. CASE AtRest \/ UNCHANGED vars
      BY <2>3 DEF AtRest, vars, rx, tx, rest, Inv, TypeOK, CallTypes, RestTypes
    <2> QED
      BY <2>1, <2>2, <2>3, CallStepTypes, WorkerStepTypes DEF Next
  <1> QED
    BY <1>1, <1>2 DEF TypeOK, CallTypes, RestTypes

----------------------------------------------------------------------------
(* The rest of the invariant *)

LEMMA ControlStep == Inv /\ [Next]_vars => Control' /\ Ending'
  <1> SUFFICES ASSUME Inv, [Next]_vars PROVE Control' /\ Ending'
    OBVIOUS
  <1> USE DEF rx, tx, rest
  <1>0. TypeOK /\ Control /\ Ending /\ Len(transmitted) \in Nat /\ sentAtClose \in Nat
        /\ sndList \in Seq(Messages) /\ rcvList \in Seq(Frames)
    BY LenProperties DEF Inv, TypeOK
  <1> DEFINE list == <<wpc, begun, cntRcv, rcvList, sndList>>
             end == <<wpc, bRun, transmitted, sentAtClose>>
  <1>1. UNCHANGED end => Ending'
    BY <1>0 DEF Ending
  \* A call outside the list of received messages.
  <1>2. ASSUME NEW t \in Threads, NEW p, p # "taking", Goto(t, p),
               UNCHANGED <<wpc, begun, rcvList>>,
               sndList' = sndList \/ sndList' # <<>>, defined' => defined
        PROVE  Control'
    BY <1>0, <1>2 DEF Control, Goto, TypeOK
  <1>3. ASSUME NEW t \in Threads,
               WriteMsg(t) \/ AddBegins(t) \/ ReadMsg(t)
               \/ (\E n \in {1, 2} : SetFilter(t, n)) \/ SetFilterMask(t)
               \/ SetFilterDone(t) \/ ClosePort(t)
        PROVE  Control' /\ Ending'
    <2>1. /\ \E p : p # "taking" /\ Goto(t, p)
          /\ UNCHANGED <<wpc, begun, rcvList, sndList>> /\ UNCHANGED end
          /\ defined' => defined
      BY <1>3 DEF WriteMsg, AddBegins, ReadMsg, SetFilter, SetFilterMask,
         SetFilterDone, ClosePort, Calling, At
    <2> QED
      BY <1>1, <1>2, <2>1
  <1>4. ASSUME NEW t \in Threads, NEW m \in Messages, AddEnds(t, m)
        PROVE  Control' /\ Ending'
    <2>1. sndList' # <<>>
      BY <1>0, <1>4, AppendProperties DEF AddEnds
    <2> QED
      BY <1>1, <1>2, <1>4, <2>1 DEF AddEnds, At
  <1>5. ASSUME NEW t \in Threads, TakeBegins(t) PROVE Control' /\ Ending'
    <2>1. Control'
      BY <1>0, <1>5 DEF TakeBegins, InRcvList, Control, Goto, TypeOK
    <2> QED
      BY <1>1, <1>5, <2>1 DEF TakeBegins
  <1>6. ASSUME NEW t \in Threads, TakeEnds(t) PROVE Control' /\ Ending'
    <2>1. rcvList # <<>> /\ \A u \in Threads : tpc[u] = "taking" => u = t
      BY <1>0, <1>6 DEF TakeEnds, At, Control
    <2>2. Len(rcvList') = Len(rcvList) - 1 /\ Len(rcvList) \in Nat
      BY <1>0, <1>6, <2>1, HeadAndTail DEF TakeEnds
    <2>3. Control'
      BY <1>0, <1>6, <2>1, <2>2, QueueAssumption
         DEF TakeEnds, Control, Goto, TypeOK, QueueAssumption
    <2> QED
      BY <1>1, <1>6, <2>3 DEF TakeEnds
  <1>7. ASSUME NEW t \in Threads, Close(t) PROVE Control' /\ Ending'
    <2>1. Control'
      BY <1>2, <1>7 DEF Close, Calling
    <2>2. Ending'
      <3>1. wpc' = wpc /\ transmitted' = transmitted /\ ~bRun'
        BY <1>7 DEF Close
      <3>2. CASE bRun
        <4>1. sentAtClose' = Len(transmitted)
          BY <1>7, <3>2 DEF Close
        <4> QED
          BY <1>0, <3>1, <4>1 DEF Ending
      <3>3. CASE ~bRun
        <4>1. sentAtClose' = sentAtClose
          BY <1>7, <3>3 DEF Close
        <4> QED
          BY <1>0, <3>1, <3>3, <4>1 DEF Ending
      <3> QED
        BY <3>2, <3>3
    <2> QED
      BY <2>1, <2>2
  <1>8. CASE WorkerLoop
    BY <1>0, <1>8 DEF WorkerLoop, WorkerAt, Control, Ending
  <1>9. CASE WorkerReceiveNothing \/ WorkerNoMessage \/ WorkerAnswer \/ WorkerPoll
    BY <1>0, <1>9 DEF WorkerReceiveNothing, WorkerNoMessage, WorkerAnswer, WorkerPoll,
       WorkerAt, Control, Ending
  <1>10. CASE WorkerReceive
    <2>1. /\ wpc = "receive" /\ UNCHANGED <<tpc, rcvList, sndList, defined>>
          /\ UNCHANGED <<bRun, transmitted, sentAtClose>>
          /\ wpc' = "receive" \/ (wpc' = "queue" /\ begun' = begun /\ begun # NoFrame
                                  /\ Len(rcvList) < MaxRcv)
      BY <1>10 DEF WorkerReceive, WorkerAt, Complete, Abandon, StoreByte
    <2>2. begun \in {NoFrame} \cup Frames
      BY <1>0 DEF TypeOK
    <2> QED
      BY <1>0, <2>1, <2>2 DEF Control, Ending
  <1>11. CASE QueueBegins
    BY <1>0, <1>11 DEF QueueBegins, WorkerAt, InRcvList, Control, Ending
  <1>12. CASE QueueEnds
    <2>1. rcvList' # <<>>
      BY <1>0, <1>12, AppendProperties DEF QueueEnds, WorkerAt, Control
    <2> QED
      BY <1>0, <1>12, <2>1 DEF QueueEnds, WorkerAt, Control, Ending
  <1>13. CASE RemoveBegins
    BY <1>0, <1>13 DEF RemoveBegins, WorkerAt, Control, Ending
  <1>14. CASE RemoveEnds
    <2>1. Len(transmitted') = Len(transmitted) + 1
      <3>1. sndList # <<>> /\ transmitted \in Seq(Messages)
        BY <1>0, <1>14 DEF RemoveEnds, WorkerAt, Control, TypeOK
      <3>2. Head(sndList) \in Messages
        BY <1>0, <3>1, HeadAndTail
      <3> QED
        BY <1>14, <3>1, <3>2, AppendProperties DEF RemoveEnds
    <2> QED
      BY <1>0, <1>14, <2>1 DEF RemoveEnds, WorkerAt, Control, Ending
  <1>15. CASE UseDeleted
    BY <1>0, <1>1, <1>15 DEF UseDeleted, Control
  <1>16. CASE Delete \/ BusFrame \/ AtRest \/ UNCHANGED vars
    BY <1>0, <1>1, <1>16 DEF Delete, BusFrame, AtRest, vars, Control
  <1> QED
    BY <1>3, <1>4, <1>5, <1>6, <1>7, <1>8, <1>9, <1>10, <1>11, <1>12, <1>13, <1>14,
       <1>15, <1>16 DEF Next, CallStep, WorkerStep

\* A thread that has found room for its message is counted with the messages.
LEMMA RoomStep == Inv /\ [Next]_vars => RoomKept'
  <1> SUFFICES ASSUME Inv, [Next]_vars PROVE RoomKept'
    OBVIOUS
  <1> USE DEF rx, tx, rest
  <1>0. /\ TypeOK /\ RoomKept /\ sndList \in Seq(Messages) /\ Len(sndList) \in Nat
        /\ MaxSnd \in Nat
    BY LenProperties, QueueAssumption DEF Inv, TypeOK, QueueAssumption
  <1>1. ASSUME UNCHANGED sndList, Adding' = Adding PROVE RoomKept'
    BY <1>0, <1>1 DEF RoomKept
  <1>2. ASSUME NEW t \in Threads, NEW p, Goto(t, p), UNCHANGED sndList,
               tpc[t] \in {"add", "adding"} <=> p \in {"add", "adding"}
        PROVE  RoomKept'
    <2>1. Adding' = Adding
      BY <1>0, <1>2 DEF Adding, Goto, TypeOK
    <2> QED
      BY <1>1, <1>2, <2>1
  <1>3. ASSUME NEW t \in Threads, WriteMsg(t) PROVE RoomKept'
    <2>1. Adding' \subseteq Threads /\ Cardinality(Adding') <= Cardinality(Threads)
          /\ Cardinality(Adding') \in Nat
      <3>1. Adding' \subseteq Threads
        BY DEF Adding
      <3> QED
        BY <3>1, ThreadAssumption, FS_Subset, FS_CardinalityType DEF ThreadAssumption
    <2>2. sndList' = sndList /\ Len(sndList) < MaxSnd
      BY <1>3 DEF WriteMsg
    <2> QED
      BY <1>0, <2>1, <2>2, AddingFinite DEF RoomKept
  <1>4. ASSUME NEW t \in Threads, NEW m \in Messages, AddEnds(t, m) PROVE RoomKept'
    <2>1. t \in Adding /\ Adding' = Adding \ {t}
      BY <1>0, <1>4 DEF AddEnds, At, Goto, Adding, TypeOK
    <2>2. Cardinality(Adding') = Cardinality(Adding) - 1
      BY <2>1, AddingFinite, FS_RemoveElement
    <2>3. Len(sndList') = Len(sndList) + 1
      BY <1>0, <1>4, AppendProperties DEF AddEnds
    <2> QED
      BY <1>0, <2>2, <2>3, AddingFinite DEF RoomKept
  <1>5. ASSUME NEW t \in Threads, CallStep(t), ~WriteMsg(t),
               ~\E m \in Messages : AddEnds(t, m)
        PROVE  RoomKept'
    <2>1. UNCHANGED sndList
      BY <1>5 DEF CallStep, AddBegins, ReadMsg, TakeBegins, TakeEnds, SetFilter,
         SetFilterMask, SetFilterDone, Close, ClosePort
    <2>2. \E p : Goto(t, p)
                 /\ (tpc[t] \in {"add", "adding"} <=> p \in {"add", "adding"})
      BY <1>5 DEF CallStep, AddBegins, ReadMsg, TakeBegins, TakeEnds, SetFilter,
         SetFilterMask, SetFilterDone, Close, ClosePort, At, Calling
    <2> QED
      BY <1>2, <2>1, <2>2
  <1>6. CASE RemoveEnds
    <2>1. sndList # <<>>
      BY <1>6 DEF RemoveEnds, WorkerAt, Inv, Control
    <2>2. Len(sndList') = Len(sndList) - 1
      BY <1>0, <1>6, <2>1, HeadAndTail DEF RemoveEnds
    <2>3. Adding' = Adding
      BY <1>6 DEF RemoveEnds, Adding
    <2> QED
      BY <1>0, <2>2, <2>3, AddingFinite DEF RoomKept
  <1>7. CASE WorkerStep /\ ~RemoveEnds
    <2>1. UNCHANGED <<sndList, tpc>>
      BY <1>7 DEF WorkerStep, WorkerLoop, WorkerReceive, WorkerReceiveNothing,
         QueueBegins, QueueEnds, WorkerNoMessage, RemoveBegins, WorkerAnswer,
         WorkerPoll, UseDeleted
    <2> QED
      BY <1>1, <2>1 DEF Adding
  <1>8. CASE Delete \/ BusFrame \/ AtRest \/ UNCHANGED vars
    <2>1. UNCHANGED <<sndList, tpc>>
      BY <1>8 DEF Delete, BusFrame, AtRest, vars
    <2> QED
      BY <1>1, <2>1 DEF Adding
  <1> QED
    BY <1>3, <1>4, <1>5, <1>6, <1>7, <1>8 DEF Next

\* The frames keep their order on the way from the line to the application.
LEMMA OrderStep == Inv /\ [Next]_vars => Order'
  <1> SUFFICES ASSUME Inv, [Next]_vars PROVE Order'
    OBVIOUS
  <1> USE DEF rx, tx, rest
  <1>0. /\ TypeOK /\ Order /\ Seen \subseteq Frames
        /\ line' \in Seq(Tokens) /\ Orderly(line', busFrames')
        /\ busFrames \in Nat /\ busFrames' \in Nat /\ busFrames <= busFrames'
        /\ begun \in {NoFrame} \cup Frames
        /\ rcvList \in Seq(Frames) /\ delivered \in Seq(Frames)
    BY LineStep, BehindOrderly, SeenFrames, BoundAssumption
       DEF Inv, TypeOK, BoundAssumption
  <1>00. TypeOK' /\ Seen' \subseteq Frames
    <2>1. TypeOK'
      BY TypeStep
    <2> QED
      BY <2>1 DEF TypeOK, Seen
  \* No message comes or goes, or one goes from the list to its reader.
  <1>1. ASSUME begun' \in {begun, NoFrame}, Seen' \subseteq Seen PROVE Order'
    <2>1. \A f \in Frames : Later(f) => begun' < f /\ \A g \in Seen' : g < f
      BY <1>0, <1>1 DEF Later, NoFrame, Frames
    <2>2. Orderly(line, busFrames)'
      BY <1>0, <2>1 DEF Orderly, Later
    <2> QED
      BY <1>0, <1>1, <2>2 DEF Order, Orderly, Frames, NoFrame
  <1>2. UNCHANGED <<delivered, rcvList>> => Seen' = Seen
    BY DEF Seen
  <1>3. ASSUME NEW t \in Threads, TakeEnds(t) PROVE Order'
    <2>1. rcvList # <<>>
      BY <1>3 DEF TakeEnds, At, Inv, Control
    <2>2. /\ \A i \in DOMAIN delivered' :
               \/ i \in DOMAIN delivered /\ delivered'[i] = delivered[i]
               \/ delivered'[i] = rcvList[1]
          /\ 1 \in DOMAIN rcvList
          /\ \A i \in DOMAIN rcvList' : i + 1 \in DOMAIN rcvList
                                        /\ rcvList'[i] = rcvList[i + 1]
      <3>1. Head(rcvList) \in Frames /\ Head(rcvList) = rcvList[1]
        BY <1>0, <2>1
      <3>2. /\ 1 \in DOMAIN rcvList
            /\ \A i \in DOMAIN Tail(rcvList) : i + 1 \in DOMAIN rcvList
                                        /\ Tail(rcvList)[i] = rcvList[i + 1]
        BY <1>0, <2>1
      <3>3. \A i \in DOMAIN Append(delivered, Head(rcvList)) :
               \/ /\ i \in DOMAIN delivered
                  /\ Append(delivered, Head(rcvList))[i] = delivered[i]
               \/ Append(delivered, Head(rcvList))[i] = Head(rcvList)
        BY <1>0, <3>1
      <3> QED
        BY <1>3, <3>1, <3>2, <3>3 DEF TakeEnds
    <2>3. Seen' \subseteq Seen
      BY <2>2 DEF Seen
    <2> QED
      BY <1>1, <1>3, <2>3 DEF TakeEnds
  <1>4. CASE QueueEnds
    <2>1. begun \in Frames /\ begun' = NoFrame
          /\ UNCHANGED <<delivered, line, busFrames>>
          /\ rcvList' = Append(rcvList, begun)
      BY <1>4 DEF QueueEnds, WorkerAt, Inv, Control, adapter
    <2>2. Seen' \subseteq Seen \cup {begun}
      <3>1. \A i \in DOMAIN Append(rcvList, begun) :
               \/ i \in DOMAIN rcvList /\ Append(rcvList, begun)[i] = rcvList[i]
               \/ Append(rcvList, begun)[i] = begun
        BY <1>0, <2>1
      <3> QED
        BY <2>1, <3>1 DEF Seen
    <2>3. \A f \in Frames : Later(f) => begun' < f /\ \A g \in Seen' : g < f
      BY <1>0, <2>1, <2>2 DEF Later, NoFrame, Frames
    <2>4. Orderly(line, busFrames)'
      BY <1>0, <2>3 DEF Orderly, Later
    <2>5. \A f \in Seen' : f <= busFrames'
      BY <1>0, <2>1, <2>2 DEF Order, Frames, NoFrame
    <2> QED
      BY <1>0, <2>1, <2>4, <2>5 DEF Order, Orderly
  <1>5. CASE WorkerReceive /\ begun = NoFrame /\ Head(line) \in Frames
    <2>1. /\ begun' = Head(line) /\ line' = Tail(line) /\ line # <<>>
          /\ UNCHANGED <<delivered, rcvList, busFrames>>
      BY <1>5 DEF WorkerReceive
    <2>2. line \in Seq(Tokens)
      BY <1>0 DEF TypeOK
    <2>3. /\ Head(line) = line[1] /\ 1 \in DOMAIN line
          /\ \A i \in DOMAIN Tail(line) : i + 1 \in DOMAIN line /\ 1 < i + 1
                                          /\ Tail(line)[i] = line[i + 1]
      BY <2>1, <2>2
    <2>4. /\ begun' <= busFrames /\ \A f \in Seen : f < begun'
          /\ \A i \in DOMAIN line' : line'[i] \in Frames => begun' < line'[i]
      BY <1>0, <1>5, <2>1, <2>3 DEF Order, Orderly, Later
    <2>5. \A i \in DOMAIN line' : line'[i] \in Frames =>
            begun' < line'[i] /\ \A g \in Seen' : g < line'[i]
      BY <1>0, <1>2, <2>1, <2>4 DEF Orderly, Later
    <2>6. Orderly(line, busFrames)'
      BY <1>0, <2>5 DEF Orderly, Later
    <2>7. \A f \in Seen' : f <= busFrames'
      BY <1>0, <1>2, <2>1 DEF Order
    <2> QED
      BY <1>0, <1>2, <2>1, <2>4, <2>6, <2>7 DEF Order, Orderly
  <1>6. CASE WorkerReceive /\ ~(begun = NoFrame /\ Head(line) \in Frames)
    <2>1. begun' \in {begun, NoFrame} /\ UNCHANGED <<delivered, rcvList>>
      BY <1>6 DEF WorkerReceive, Complete, Abandon, StoreByte
    <2> QED
      BY <1>1, <1>2, <2>1
  <1>7. ASSUME NEW t \in Threads, CallStep(t), ~TakeEnds(t) PROVE Order'
    <2>1. UNCHANGED <<begun, delivered, rcvList>>
      BY <1>7 DEF CallStep, WriteMsg, AddBegins, AddEnds, ReadMsg, TakeBegins,
         SetFilter, SetFilterMask, SetFilterDone, Close, ClosePort
    <2> QED
      BY <1>1, <1>2, <2>1
  <1>8. CASE WorkerStep /\ ~WorkerReceive /\ ~QueueEnds
    <2>1. UNCHANGED <<begun, delivered, rcvList>>
      BY <1>8 DEF WorkerStep, WorkerLoop, WorkerReceiveNothing, QueueBegins,
         WorkerNoMessage, RemoveBegins, RemoveEnds, WorkerAnswer, WorkerPoll,
         UseDeleted
    <2> QED
      BY <1>1, <1>2, <2>1
  <1>9. CASE Delete \/ BusFrame \/ AtRest \/ UNCHANGED vars
    <2>1. UNCHANGED <<begun, delivered, rcvList>>
      BY <1>9 DEF Delete, BusFrame, AtRest, vars
    <2> QED
      BY <1>1, <1>2, <2>1
  <1> QED
    BY <1>3, <1>4, <1>5, <1>6, <1>7, <1>8, <1>9 DEF Next

LEMMA Invariance == Spec => []Inv
  <1>1. Inv /\ [Next]_vars => Inv'
    BY TypeStep, ControlStep, RoomStep, OrderStep DEF Inv
  <1> QED
    BY <1>1, InitInv, PTL DEF Spec

\* Every state has its shape, and the index of m_receiveBuf stays in it, whatever
\* the threads do to the lists and however long what the adapter sends is.
THEOREM TypeCorrect == Spec => []TypeOK
  <1> QED
    BY Invariance, PTL DEF Inv

\* However many threads find room at once, the send queue never exceeds its size
\* by as many messages as there are threads.
THEOREM RoomIsKept == Spec => []RoomKept
  <1> QED
    BY Invariance, PTL DEF Inv

\* The worker, which nobody joins, takes one message at most after close has
\* cleared m_bRun.
THEOREM OneMessageIsLate == Spec => []OneMessageLate
  <1>1. Inv => OneMessageLate
    <2> SUFFICES ASSUME Inv, ~bRun PROVE Len(transmitted) <= sentAtClose + 1
      BY DEF OneMessageLate
    <2>1. Len(transmitted) \in {sentAtClose, sentAtClose + 1} /\ sentAtClose \in Nat
      BY DEF Inv, Ending, TypeOK
    <2> QED
      BY <2>1
  <1> QED
    BY <1>1, Invariance, PTL

----------------------------------------------------------------------------
(* The object implements CanalFifo *)

FifoMoves == [Fifo!Next]_Fifo!vars

LEMMA PhaseKept ==
  ASSUME UNCHANGED bRun, wpc' = "done" <=> wpc = "done"
  PROVE  Phase' = Phase
  BY DEF Phase

LEMMA Stutters ==
  ASSUME Phase' = Phase, UNCHANGED <<sndList, transmitted, rcvList, delivered>>
  PROVE  FifoMoves
  BY DEF FifoMoves, Fifo!vars

LEMMA CallRefines ==
  ASSUME Inv, NEW t \in Threads, CallStep(t)
  PROVE  FifoMoves
  <1> USE DEF rx, tx, rest
  <1>1. ASSUME NEW m \in Messages, AddEnds(t, m) PROVE FifoMoves
    <2>1. t \in Adding
      BY <1>1 DEF AddEnds, At, Adding
    <2>2. Cardinality(Adding) # 0
      BY <2>1, AddingFinite, FS_EmptySet
    <2>3. Len(sndList) < MaxSnd + Cardinality(Threads) - 1
      <3>1. Len(sndList) \in Nat /\ MaxSnd \in Nat
        BY LenProperties, QueueAssumption DEF Inv, TypeOK, QueueAssumption
      <3> QED
        BY <2>2, <3>1, AddingFinite DEF Inv, RoomKept
    <2>4. Phase' = Phase
      BY <1>1, PhaseKept DEF AddEnds
    <2>5. Fifo!Send(m)
      BY <1>1, <2>3, <2>4 DEF AddEnds, Fifo!Send
    <2> QED
      BY <2>5 DEF FifoMoves, Fifo!Next
  <1>2. CASE TakeEnds(t)
    <2>1. rcvList # <<>>
      BY <1>2 DEF TakeEnds, At, Inv, Control
    <2>2. Phase' = Phase
      BY <1>2, PhaseKept DEF TakeEnds
    <2>3. Fifo!Receive
      BY <1>2, <2>1, <2>2 DEF TakeEnds, Fifo!Receive
    <2> QED
      BY <2>3 DEF FifoMoves, Fifo!Next
  <1>3. CASE Close(t)
    <2>1. UNCHANGED <<wpc, sndList, transmitted, rcvList, delivered>> /\ bRun' = FALSE
      BY <1>3 DEF Close
    <2>2. CASE bRun
      <3>1. Phase = "open" /\ Phase' = "closing"
        BY <2>1, <2>2 DEF Phase, Inv, Ending
      <3>2. Fifo!Shutdown
        BY <2>1, <3>1 DEF Fifo!Shutdown
      <3> QED
        BY <3>2 DEF FifoMoves, Fifo!Next
    <2>3. CASE ~bRun
      <3>1. Phase' = Phase
        BY <2>1, <2>3 DEF Phase
      <3> QED
        BY <2>1, <3>1, Stutters
    <2> QED
      BY <2>2, <2>3
  <1>4. CASE ~(\E m \in Messages : AddEnds(t, m)) /\ ~TakeEnds(t) /\ ~Close(t)
    <2>1. UNCHANGED <<bRun, wpc, sndList, transmitted, rcvList, delivered>>
      BY <1>4 DEF CallStep, WriteMsg, AddBegins, ReadMsg, TakeBegins, SetFilter,
         SetFilterMask, SetFilterDone, ClosePort
    <2> QED
      BY <2>1, PhaseKept, Stutters
  <1> QED
    BY <1>1, <1>2, <1>3, <1>4

LEMMA WorkerRefines ==
  ASSUME Inv, WorkerStep
  PROVE  FifoMoves
  <1> USE DEF rx, tx, rest
  <1>1. CASE WorkerLoop
    <2>1. wpc = "loop" /\ wpc' = (IF bRun THEN "receive" ELSE "done")
          /\ UNCHANGED <<bRun, sndList, transmitted, rcvList, delivered>>
      BY <1>1 DEF WorkerLoop, WorkerAt
    <2>2. CASE bRun
      <3>1. Phase' = Phase
        BY <2>1, <2>2 DEF Phase
      <3> QED
        BY <2>1, <3>1, Stutters
    <2>3. CASE ~bRun
      <3>1. Phase = "closing" /\ Phase' = "closed"
        BY <2>1, <2>3 DEF Phase
      <3>2. Fifo!Closed
        BY <2>1, <3>1 DEF Fifo!Closed
      <3> QED
        BY <3>2 DEF FifoMoves, Fifo!Next
    <2> QED
      BY <2>2, <2>3
  <1>2. CASE QueueEnds
    <2>1. begun \in Frames /\ Len(rcvList) < MaxRcv /\ wpc = "queueing"
          /\ wpc' = "receive" /\ rcvList' = Append(rcvList, begun)
          /\ UNCHANGED <<bRun, sndList, transmitted, delivered>>
      BY <1>2 DEF QueueEnds, WorkerAt, Inv, Control
    <2>2. Phase # "closed" /\ Phase' = Phase
      BY <2>1, PhaseKept DEF Phase
    <2>3. Fifo!Later(begun)
      BY <2>1 DEF Inv, Order, Seen, Frames, NoFrame, Fifo!Later
    <2>4. Fifo!Deliver(begun)
      BY <2>1, <2>2, <2>3 DEF Fifo!Deliver
    <2> QED
      BY <2>1, <2>4 DEF FifoMoves, Fifo!Next
  <1>3. CASE RemoveEnds
    <2>1. sndList # <<>> /\ wpc = "removing" /\ wpc' = "answer"
          /\ sndList' = Tail(sndList) /\ transmitted' = Append(transmitted, Head(sndList))
          /\ UNCHANGED <<bRun, rcvList, delivered>>
      BY <1>3 DEF RemoveEnds, WorkerAt, Inv, Control
    <2>2. Phase # "closed" /\ Phase' = Phase
      BY <2>1, PhaseKept DEF Phase
    <2>3. Fifo!Transmit
      BY <2>1, <2>2 DEF Fifo!Transmit
    <2> QED
      BY <2>3 DEF FifoMoves, Fifo!Next
  <1>4. CASE ~WorkerLoop /\ ~QueueEnds /\ ~RemoveEnds
    <2>1. UNCHANGED <<bRun, sndList, transmitted, rcvList, delivered>>
          /\ (wpc' = "done" <=> wpc = "done")
      BY <1>4 DEF WorkerStep, WorkerReceive, WorkerReceiveNothing, QueueBegins,
         WorkerNoMessage, RemoveBegins, WorkerAnswer, WorkerPoll, UseDeleted, WorkerAt,
         Complete, Abandon, StoreByte
    <2> QED
      BY <2>1, PhaseKept, Stutters
  <1> QED
    BY <1>1, <1>2, <1>3, <1>4

\* Until something undefined happens, a message leaves once and in the order of
\* acceptance, the received frames keep their order, and nothing moves any more
\* when the worker has ended.
THEOREM ObjectImplementsFifo == Spec => ImplementsFifo
  <1>1. Init => Fifo!Init
    BY DEF Init, Fifo!Init, Phase
  <1>2. Inv /\ [Next]_vars => [Fifo!Next]_Fifo!vars
    <2> SUFFICES ASSUME Inv, [Next]_vars PROVE FifoMoves
      BY DEF FifoMoves
    <2>1. CASE Delete \/ BusFrame \/ AtRest \/ UNCHANGED vars
      <3>1. UNCHANGED <<bRun, wpc, sndList, transmitted, rcvList, delivered>>
        BY <2>1 DEF Delete, BusFrame, AtRest, vars, rx, tx
      <3> QED
        BY <3>1, PhaseKept, Stutters
    <2> QED
      BY <2>1, CallRefines, WorkerRefines DEF Next
  <1> QED
    BY <1>1, <1>2, Invariance, PTL DEF Spec, ImplementsFifo, Fifo!Spec
=============================================================================
