-------------------------- MODULE Can232ObjProofs --------------------------
(***************************************************************************)
(* Theorems about Can232Obj, for every number of threads, every size of    *)
(* the queues and the buffer, and both behaviours of readChar.             *)
(***************************************************************************)
EXTENDS Can232Obj, SequenceTheorems, TLAPS

----------------------------------------------------------------------------
(* Type correctness *)

\* Every bus frame and answer is a sequence of tokens.
LEMMA TokensOnLine ==
  /\ \A n \in Nat : Frame(n) \in Seq(Tokens)
  /\ Acks \subseteq Seq(Tokens) /\ {<<Other>>} \subseteq Seq(Tokens)
  /\ Other \in Tokens /\ <<Other, Cr>> \in Seq(Tokens)
  BY DEF Frame, Acks, Tokens, Kinds, Cr, Other

LEMMA CommandType ==
  ASSUME TypeOK, Command
  PROVE  /\ line' \in Seq(Tokens) /\ partial' \in BOOLEAN
         /\ busFrames' \in 0 .. MaxFrames
  <1>1. \A a \in Seq(Tokens) : line \o a \in Seq(Tokens)
    BY DEF TypeOK
  <1>2. line' \in Seq(Tokens)
    BY <1>1, TokensOnLine, Zenon DEF TypeOK, Command, Answered
  <1> QED
    BY <1>2 DEF TypeOK, Command

LEMMA PollType ==
  ASSUME TypeOK, Poll
  PROVE  /\ line' \in Seq(Tokens) /\ partial' \in BOOLEAN
         /\ busFrames' \in 0 .. MaxFrames
  <1>1. CASE Command
    BY <1>1, CommandType
  <1>2. CASE ~Command
    <2>1. /\ busFrames < MaxFrames
          /\ line' = line \o Frame(busFrames + 1) \o <<Other, Cr>>
          /\ busFrames' = busFrames + 1 /\ partial' = partial
      BY <1>2 DEF Poll
    <2>2. Frame(busFrames + 1) \in Seq(Tokens)
      BY TokensOnLine DEF TypeOK
    <2> QED
      BY <2>1, <2>2, TokensOnLine, BoundAssumption DEF TypeOK
  <1> QED
    BY <1>1, <1>2

LEMMA ReceiveByteType ==
  ASSUME TypeOK, NEW c \in Tokens, ReceiveByte(c)
  PROVE  /\ rcvList' \in Seq(Seq(Tokens)) /\ Len(rcvList') <= MaxRcv
         /\ rxState' \in {"NONE", "MSG"} /\ receiveBuf' \in Seq(Tokens)
         /\ rxFrames' \in Nat
  <1>1. Append(receiveBuf, c) \in Seq(Tokens)
    BY DEF TypeOK
  <1>2. \A n \in 0 .. BufSize :
           Len(Append(receiveBuf, c)) > BufSize
             => SubSeq(receiveBuf, 1, n) \in Seq(Tokens)
    <2> SUFFICES ASSUME NEW n \in 0 .. BufSize,
                        Len(Append(receiveBuf, c)) > BufSize
                 PROVE  SubSeq(receiveBuf, 1, n) \in Seq(Tokens)
      OBVIOUS
    <2>1. receiveBuf \in Seq(Tokens) /\ n <= Len(receiveBuf) /\ n \in Int
      BY BufferAssumption DEF TypeOK, BufferAssumption
    <2> QED
      BY <2>1, SubSeqProperties
  <1>3. \A buf \in Seq(Tokens) : Complete(buf) =>
           /\ rcvList' \in Seq(Seq(Tokens)) /\ Len(rcvList') <= MaxRcv
           /\ rxState' \in {"NONE", "MSG"} /\ receiveBuf' \in Seq(Tokens)
           /\ rxFrames' \in Nat
    <2> SUFFICES ASSUME NEW buf \in Seq(Tokens), Complete(buf)
                 PROVE  /\ rcvList' \in Seq(Seq(Tokens)) /\ Len(rcvList') <= MaxRcv
                        /\ rxState' \in {"NONE", "MSG"} /\ receiveBuf' \in Seq(Tokens)
                        /\ rxFrames' \in Nat
      OBVIOUS
    <2>1. rxState' = "NONE" /\ receiveBuf' = <<>>
      BY DEF Complete
    <2>2. CASE Len(rcvList) < MaxRcv /\ Translates(buf)
      <3>1. rcvList' = Append(rcvList, buf) /\ rxFrames' = rxFrames + 1
        BY <2>2 DEF Complete
      <3>2. Len(rcvList') = Len(rcvList) + 1
        BY <3>1 DEF TypeOK
      <3> QED
        BY <2>1, <2>2, <3>1, <3>2, QueueAssumption DEF TypeOK, QueueAssumption
    <2>3. CASE ~(Len(rcvList) < MaxRcv /\ Translates(buf))
      BY <2>1, <2>3 DEF Complete, TypeOK
    <2> QED
      BY <2>2, <2>3
  <1>4. CASE rxState = "MSG"
    BY <1>1, <1>2, <1>3, <1>4 DEF ReceiveByte, ReceiveInMsg, TypeOK
  <1>5. CASE rxState # "MSG"
    <2>1. CASE c.k = "head"
      <3>1. /\ rxState' = "MSG" /\ receiveBuf' = <<c>>
            /\ rcvList' = rcvList /\ rxFrames' = rxFrames
        BY <1>5, <2>1 DEF ReceiveByte
      <3>2. <<c>> \in Seq(Tokens)
        OBVIOUS
      <3> QED
        BY <3>1, <3>2 DEF TypeOK
    <2>2. CASE c.k # "head"
      BY <1>5, <2>2 DEF ReceiveByte, TypeOK, rx
    <2> QED
      BY <2>1, <2>2
  <1> QED
    BY <1>4, <1>5

LEMMA GetsType ==
  ASSUME TypeOK, Gets
  PROVE  line' \in Seq(Tokens)
  <1>1. PICK n \in 0 .. Len(line) : line' = SubSeq(line, n + 1, Len(line))
    BY DEF Gets
  <1>2. n + 1 \in Int /\ Len(line) \in Int
        /\ \A i \in n + 1 .. Len(line) : line[i] \in Tokens
    BY DEF TypeOK
  <1> QED
    BY <1>1, <1>2, SubSeqProperties

LEMMA TypeOKInit == Init => TypeOK
  <1> SUFFICES ASSUME Init PROVE TypeOK
    OBVIOUS
  <1>1. /\ <<>> \in Seq(Messages) /\ <<>> \in Seq(Tokens)
        /\ <<>> \in Seq(Seq(Tokens)) /\ Len(<<>>) = 0
    OBVIOUS
  <1>2. tpc \in [Threads -> {"idle", "gets2", "puts", "gets1", "join", "shut"}]
    BY DEF Init
  <1>3. /\ 0 <= MaxSnd /\ 0 <= MaxRcv
        /\ 0 \in 0 .. PollEvery /\ 0 \in 0 .. MaxAckRetries
        /\ 0 \in 0 .. MaxFrames /\ 0 \in 0 .. MaxCommands
    BY QueueAssumption, PollAssumption, BoundAssumption
       DEF QueueAssumption, PollAssumption, BoundAssumption
  <1> QED
    BY <1>1, <1>2, <1>3 DEF Init, TypeOK

LEMMA TypeOKStep == TypeOK /\ [Next]_vars => TypeOK'
  <1> SUFFICES ASSUME TypeOK, [Next]_vars PROVE TypeOK'
    OBVIOUS
  <1> USE DEF worker, rx, tx, adapter, history
  <1>1. ASSUME NEW t \in Threads, NEW m \in Messages, WriteMsg(t, m)
        PROVE  TypeOK'
    BY <1>1, QueueAssumption DEF QueueAssumption, WriteMsg, TypeOK
  <1>2. ASSUME NEW t \in Threads, ReadMsg(t) PROVE TypeOK'
    <2>1. /\ delivered' = Append(delivered, Head(rcvList))
          /\ rcvList' = Tail(rcvList) /\ rcvList # <<>>
      BY <1>2 DEF ReadMsg
    <2>2. /\ Head(rcvList) \in Seq(Tokens) /\ Tail(rcvList) \in Seq(Seq(Tokens))
          /\ Len(Tail(rcvList)) <= MaxRcv
      BY <2>1, QueueAssumption, SMTT(30) DEF QueueAssumption, TypeOK
    <2>3. delivered' \in Seq(Seq(Tokens))
      BY <2>1, <2>2 DEF TypeOK
    <2> QED
      BY <1>2, <2>1, <2>2, <2>3, SMTT(30) DEF ReadMsg, TypeOK
  <1>3. ASSUME NEW t \in Threads, NEW n \in {1, 2}, SetFilter(t, n)
        PROVE  TypeOK'
    <2>1. /\ line' \in Seq(Tokens) /\ partial' \in BOOLEAN
          /\ busFrames' \in 0 .. MaxFrames
      BY <1>3, CommandType DEF SetFilter, PutsCommand, TypeOK
    <2> QED
      BY <1>3, <2>1, BoundAssumption DEF BoundAssumption, SetFilter, TypeOK
  <1>4. ASSUME NEW t \in Threads, CloseExchange(t) PROVE TypeOK'
    BY <1>4 DEF CloseExchange, TypeOK
  <1>5. ASSUME NEW t \in Threads, SetFilterGetsCode(t) PROVE TypeOK'
    BY <1>5, GetsType DEF SetFilterGetsCode, TypeOK
  <1>6. ASSUME NEW t \in Threads, SetFilterPutsMask(t) PROVE TypeOK'
    <2>1. /\ line' \in Seq(Tokens) /\ partial' \in BOOLEAN
          /\ busFrames' \in 0 .. MaxFrames
      BY <1>6, CommandType DEF SetFilterPutsMask, PutsCommand, TypeOK
    <2> QED
      BY <1>6, <2>1 DEF SetFilterPutsMask, TypeOK
  <1>7. ASSUME NEW t \in Threads, SetFilterDone(t) PROVE TypeOK'
    BY <1>7, GetsType DEF SetFilterDone, TypeOK
  <1>8. ASSUME NEW t \in Threads, CloseJoin(t) PROVE TypeOK'
    BY <1>8 DEF CloseJoin, TypeOK
  <1>9. ASSUME NEW t \in Threads, ClosePort(t) PROVE TypeOK'
    <2>1. <<>> \in Seq(Tokens)
      OBVIOUS
    <2>2. line' = <<>> /\ partial' = FALSE /\ portOpen' = FALSE
      BY <1>9 DEF ClosePort
    <2>3. tpc' \in [Threads -> {"idle", "gets2", "puts", "gets1", "join", "shut"}]
      BY <1>9 DEF ClosePort, TypeOK
    <2> QED
      BY <1>9, <2>1, <2>2, <2>3 DEF ClosePort, TypeOK
  <1>10. ASSUME WorkerLoop PROVE TypeOK'
    BY <1>10 DEF WorkerLoop, TypeOK
  <1>11. ASSUME WorkerLock PROVE TypeOK'
    BY <1>11 DEF WorkerLock, TypeOK
  <1>12. ASSUME WorkerReceive PROVE TypeOK'
    <2>1. Head(line) \in Tokens /\ line' \in Seq(Tokens)
      BY <1>12 DEF WorkerReceive, TypeOK
    <2> QED
      BY <1>12, <2>1, ReceiveByteType DEF WorkerReceive, TypeOK
  <1>13. ASSUME WorkerReceiveNothing PROVE TypeOK'
    <2>1. CASE EmptyIsMinusOne
      BY <1>13, <2>1 DEF WorkerReceiveNothing, TypeOK
    <2>2. CASE ~EmptyIsMinusOne
      BY <1>13, <2>2, ReceiveByteType, TokensOnLine
         DEF WorkerReceiveNothing, TypeOK
    <2> QED
      BY <2>1, <2>2
  <1>14. ASSUME WorkerNoMessage PROVE TypeOK'
    BY <1>14 DEF WorkerNoMessage, TypeOK
  <1>15. ASSUME WorkerTransmit PROVE TypeOK'
    <2>1. /\ line' \in Seq(Tokens) /\ partial' \in BOOLEAN
          /\ busFrames' \in 0 .. MaxFrames
      BY <1>15, CommandType DEF WorkerTransmit, TypeOK
    <2>2. Head(sndList) \in Messages /\ Tail(sndList) \in Seq(Messages)
          /\ Len(Tail(sndList)) <= MaxSnd
      BY <1>15, QueueAssumption DEF QueueAssumption, WorkerTransmit, TypeOK
    <2> QED
      BY <1>15, <2>1, <2>2, SMTT(30) DEF WorkerTransmit, TypeOK
  <1>16. ASSUME WorkerAck PROVE TypeOK'
    BY <1>16, PollAssumption
       DEF PollAssumption, WorkerAck, Acknowledged, Waiting, TypeOK
  <1>17. ASSUME WorkerAckNothing PROVE TypeOK'
    <2>1. ackRetries' \in 0 .. MaxAckRetries /\ txFrames' \in Nat
      BY <1>17, PollAssumption, SMTT(30)
         DEF PollAssumption, WorkerAckNothing, Acknowledged, Waiting, TypeOK
    <2>2. wpc' \in {"ack", "poll"}
      BY <1>17 DEF WorkerAckNothing, Acknowledged, Waiting
    <2> QED
      BY <1>17, <2>1, <2>2, SMTT(30) DEF WorkerAckNothing, TypeOK
  <1>18. ASSUME WorkerPoll PROVE TypeOK'
    <2>1. /\ line' \in Seq(Tokens) /\ partial' \in BOOLEAN
          /\ busFrames' \in 0 .. MaxFrames
      BY <1>18, PollType DEF WorkerPoll, TypeOK
    <2>2. nPollCnt' \in 0 .. PollEvery
      BY <1>18, PollAssumption DEF PollAssumption, WorkerPoll, TypeOK
    <2> QED
      BY <1>18, <2>1, <2>2 DEF WorkerPoll, TypeOK
  <1>19. ASSUME BusFrame PROVE TypeOK'
    <2>1. Frame(busFrames + 1) \in Seq(Tokens)
      BY TokensOnLine DEF TypeOK
    <2> QED
      BY <1>19, <2>1, BoundAssumption DEF BoundAssumption, BusFrame, TypeOK
  <1>20. ASSUME UNCHANGED vars PROVE TypeOK'
    BY <1>20 DEF vars, TypeOK
  <1> QED
    BY <1>1, <1>2, <1>3, <1>4, <1>5, <1>6, <1>7, <1>8, <1>9, <1>10, <1>11,
       <1>12, <1>13, <1>14, <1>15, <1>16, <1>17, <1>18, <1>19, <1>20
       DEF Next, WorkerStep, BeginCall, FinishCall, AtRest

\* The state always has its shape, and the queues of received and accepted
\* messages never outgrow CAN232_MAX_RCVMSG and CAN232_MAX_SNDMSG.
THEOREM TypeCorrect == Spec => []TypeOK
  BY TypeOKInit, TypeOKStep, PTL DEF Spec

----------------------------------------------------------------------------
(* Mutual exclusion and closing *)

\* Who owns the mutex is inside a critical section, and nobody else is.
Exclusion ==
  /\ mutex = Worker <=> wpc \in {"receive", "ack", "poll"}
  /\ \A t \in Threads : mutex = t <=> tpc[t] \in {"gets2", "puts", "gets1"}

\* One thread at most is inside close() past the exchange; it finds the port
\* open, and the worker ended once it has been joined.
Closing ==
  /\ wpc = "done" => ~bRun
  /\ ~portOpen => wpc = "done"
  /\ \A t \in Threads : tpc[t] \in {"join", "shut"} => ~bRun /\ portOpen
  /\ \A t \in Threads : tpc[t] = "shut" => wpc = "done"
  /\ \A t, u \in Threads :
        tpc[t] \in {"join", "shut"} /\ tpc[u] \in {"join", "shut"} => t = u

Control == TypeOK /\ Exclusion /\ Closing

LEMMA ControlInit == Init => Control
  BY TypeOKInit, ThreadAssumption
     DEF ThreadAssumption, Init, Control, Exclusion, Closing, NoThread, Worker

LEMMA ControlStep == Control /\ [Next]_vars => Control'
  <1> SUFFICES ASSUME Control, [Next]_vars PROVE Exclusion' /\ Closing'
    BY TypeOKStep DEF Control
  <1> USE ThreadAssumption
      DEF ThreadAssumption, NoThread, Worker, TypeOK, Control, Exclusion,
          Closing, worker, rx, tx, adapter, history, Calling
  <1>1. ASSUME NEW t \in Threads, NEW m \in Messages, WriteMsg(t, m)
        PROVE  Exclusion' /\ Closing'
    BY <1>1 DEF WriteMsg
  <1>2. ASSUME NEW t \in Threads, ReadMsg(t) PROVE Exclusion' /\ Closing'
    BY <1>2 DEF ReadMsg
  <1>3. ASSUME NEW t \in Threads, NEW n \in {1, 2}, SetFilter(t, n)
        PROVE  Exclusion' /\ Closing'
    BY <1>3 DEF SetFilter
  <1>4. ASSUME NEW t \in Threads, CloseExchange(t)
        PROVE  Exclusion' /\ Closing'
    BY <1>4 DEF CloseExchange
  <1>5. ASSUME NEW t \in Threads, SetFilterGetsCode(t)
        PROVE  Exclusion' /\ Closing'
    BY <1>5 DEF SetFilterGetsCode
  <1>6. ASSUME NEW t \in Threads, SetFilterPutsMask(t)
        PROVE  Exclusion' /\ Closing'
    BY <1>6 DEF SetFilterPutsMask
  <1>7. ASSUME NEW t \in Threads, SetFilterDone(t)
        PROVE  Exclusion' /\ Closing'
    BY <1>7 DEF SetFilterDone
  <1>8. ASSUME NEW t \in Threads, CloseJoin(t) PROVE Exclusion' /\ Closing'
    BY <1>8 DEF CloseJoin
  <1>9. ASSUME NEW t \in Threads, ClosePort(t) PROVE Exclusion' /\ Closing'
    BY <1>9 DEF ClosePort
  <1>10. ASSUME WorkerLoop PROVE Exclusion' /\ Closing'
    BY <1>10 DEF WorkerLoop
  <1>11. ASSUME WorkerLock PROVE Exclusion' /\ Closing'
    BY <1>11 DEF WorkerLock
  <1>12. ASSUME WorkerReceive PROVE Exclusion' /\ Closing'
    BY <1>12 DEF WorkerReceive
  <1>13. ASSUME WorkerReceiveNothing PROVE Exclusion' /\ Closing'
    BY <1>13 DEF WorkerReceiveNothing
  <1>14. ASSUME WorkerNoMessage PROVE Exclusion' /\ Closing'
    BY <1>14 DEF WorkerNoMessage
  <1>15. ASSUME WorkerTransmit PROVE Exclusion' /\ Closing'
    BY <1>15 DEF WorkerTransmit
  <1>16. ASSUME WorkerAck PROVE Exclusion' /\ Closing'
    BY <1>16 DEF WorkerAck, Acknowledged, Waiting
  <1>17. ASSUME WorkerAckNothing PROVE Exclusion' /\ Closing'
    BY <1>17 DEF WorkerAckNothing, Acknowledged, Waiting
  <1>18. ASSUME WorkerPoll PROVE Exclusion' /\ Closing'
    BY <1>18 DEF WorkerPoll
  <1>19. ASSUME BusFrame PROVE Exclusion' /\ Closing'
    BY <1>19 DEF BusFrame
  <1>20. ASSUME UNCHANGED vars PROVE Exclusion' /\ Closing'
    BY <1>20 DEF vars
  <1> QED
    BY <1>1, <1>2, <1>3, <1>4, <1>5, <1>6, <1>7, <1>8, <1>9, <1>10, <1>11,
       <1>12, <1>13, <1>14, <1>15, <1>16, <1>17, <1>18, <1>19, <1>20
       DEF Next, WorkerStep, BeginCall, FinishCall, AtRest

\* The worker and the threads exclude each other wherever the code holds the
\* mutex, and close() runs its second half once, after the worker has ended.
THEOREM ControlCorrect == Spec => []Control
  BY ControlInit, ControlStep, PTL DEF Spec

LEMMA QuietStep ==
  Control /\ [Next]_vars
    => (~portOpen => UNCHANGED <<transmitted, txFrames, rxFrames, receiveBuf>>)
  <1> SUFFICES ASSUME Control, [Next]_vars, ~portOpen
               PROVE  UNCHANGED <<transmitted, txFrames, rxFrames, receiveBuf>>
    OBVIOUS
  <1> USE DEF rx, tx
  <1>1. wpc = "done"
    BY DEF Control, Closing
  <1>2. ~WorkerStep
    BY <1>1 DEF WorkerStep, WorkerLoop, WorkerLock, WorkerReceive,
       WorkerReceiveNothing, WorkerNoMessage, WorkerTransmit, WorkerAck,
       WorkerAckNothing, WorkerPoll
  <1>3. ASSUME NEW t \in Threads, BeginCall(t) \/ FinishCall(t)
        PROVE  UNCHANGED <<transmitted, txFrames, rxFrames, receiveBuf>>
    BY <1>3 DEF BeginCall, FinishCall, WriteMsg, ReadMsg, SetFilter,
       CloseExchange, SetFilterGetsCode, SetFilterPutsMask, SetFilterDone,
       CloseJoin, ClosePort
  <1>4. CASE BusFrame \/ AtRest \/ UNCHANGED vars
    BY <1>4 DEF BusFrame, AtRest, vars
  <1> QED
    BY <1>2, <1>3, <1>4 DEF Next

\* After close() has closed the port the driver writes no message, counts no
\* frame and touches no byte of the receive buffer, for any set of threads
\* that go on calling.
THEOREM PortStaysQuiet == Spec => PortQuiet
  BY ControlInit, ControlStep, QuietStep, PTL DEF Spec, PortQuiet

----------------------------------------------------------------------------
(* The queues and what was put through them *)

\* Moving the head of a queue to the end of the history in front of it.
LEMMA MoveHead ==
  ASSUME NEW S, NEW h \in Seq(S), NEW q \in Seq(S), q # <<>>
  PROVE  Append(h, Head(q)) \o Tail(q) = h \o q
  OBVIOUS

LEMMA AppendBehind ==
  ASSUME NEW S, NEW h \in Seq(S), NEW q \in Seq(S), NEW e \in S
  PROVE  h \o Append(q, e) = Append(h \o q, e)
  OBVIOUS

Counts == SendOrder /\ Statistics

LEMMA CountsInit == Init => Counts
  <1> SUFFICES ASSUME Init PROVE Counts
    OBVIOUS
  <1>1. <<>> \o <<>> = <<>> /\ Len(<<>>) = 0
    OBVIOUS
  <1> QED
    BY <1>1 DEF Init, Counts, SendOrder, Statistics, Obtained

\* What a character does to the queue of received messages.
LEMMA ReceiveByteQueue ==
  ASSUME TypeOK, NEW c \in Tokens, ReceiveByte(c)
  PROVE  \/ UNCHANGED <<rcvList, rxFrames>>
         \/ /\ rxState = "MSG" /\ c.k = "cr" /\ Len(rcvList) < MaxRcv
            /\ Translates(Append(receiveBuf, c))
            /\ rcvList' = Append(rcvList, Append(receiveBuf, c))
            /\ rxFrames' = rxFrames + 1
  BY DEF ReceiveByte, ReceiveInMsg, Complete, rx

LEMMA CountsStep == TypeOK /\ TypeOK' /\ Counts /\ [Next]_vars => Counts'
  <1> SUFFICES ASSUME TypeOK, TypeOK', Counts, [Next]_vars PROVE Counts'
    OBVIOUS
  <1> USE DEF worker, rx, tx, adapter, history
  <1> DEFINE Sent == <<accepted, transmitted, sndList, txFrames, wpc = "ack">>
             Got  == <<delivered, rcvList, rxFrames>>
  <1>1. UNCHANGED Sent => SendOrder'
        /\ Len(transmitted') = txFrames' + (IF wpc' = "ack" THEN 1 ELSE 0)
    BY DEF Counts, SendOrder, Statistics
  <1>2. UNCHANGED Got => rxFrames' = Len(Obtained')
    BY DEF Counts, Statistics, Obtained
  <1>3. ASSUME NEW t \in Threads, NEW m \in Messages, WriteMsg(t, m)
        PROVE  Counts'
    <2>1. /\ UNCHANGED Got /\ UNCHANGED <<transmitted, txFrames, wpc>>
          /\ accepted' = Append(accepted, m) /\ sndList' = Append(sndList, m)
      BY <1>3 DEF WriteMsg
    <2> transmitted \in Seq(Messages) /\ sndList \in Seq(Messages)
      BY DEF TypeOK
    <2>2. transmitted \o Append(sndList, m) = Append(transmitted \o sndList, m)
      BY AppendBehind
    <2>3. accepted' = transmitted' \o sndList'
      BY <2>1, <2>2 DEF Counts, SendOrder
    <2> QED
      BY <1>2, <2>1, <2>3 DEF Counts, SendOrder, Statistics
  <1>4. ASSUME NEW t \in Threads, ReadMsg(t) PROVE Counts'
    <2>1. UNCHANGED Sent /\ rxFrames' = rxFrames
      BY <1>4 DEF ReadMsg
    <2>2. Obtained' = Obtained
      BY <1>4, MoveHead DEF ReadMsg, Obtained, TypeOK
    <2> QED
      BY <1>1, <2>1, <2>2 DEF Counts, Statistics
  <1>5. ASSUME NEW t \in Threads,
               \/ \E n \in {1, 2} : SetFilter(t, n)
               \/ CloseExchange(t) \/ FinishCall(t)
        PROVE  UNCHANGED Sent /\ UNCHANGED Got
    BY <1>5 DEF SetFilter, CloseExchange, FinishCall, SetFilterGetsCode,
       SetFilterPutsMask, SetFilterDone, CloseJoin, ClosePort
  <1>6. ASSUME WorkerLoop \/ WorkerLock \/ WorkerNoMessage \/ WorkerPoll
               \/ BusFrame \/ UNCHANGED vars
        PROVE  UNCHANGED Sent /\ UNCHANGED Got
    BY <1>6 DEF WorkerLoop, WorkerLock, WorkerNoMessage, WorkerPoll, BusFrame,
       vars
  <1>7. ASSUME NEW c \in Tokens, ReceiveByte(c), UNCHANGED delivered
        PROVE  rxFrames' = Len(Obtained')
    <2>1. CASE UNCHANGED <<rcvList, rxFrames>>
      BY <1>2, <1>7, <2>1
    <2>2. CASE /\ rcvList' = Append(rcvList, Append(receiveBuf, c))
               /\ rxFrames' = rxFrames + 1
      <3>1. Append(receiveBuf, c) \in Seq(Tokens)
        BY DEF TypeOK
      <3>2. delivered \in Seq(Seq(Tokens)) /\ rcvList \in Seq(Seq(Tokens))
        BY DEF TypeOK
      <3>3. delivered \o Append(rcvList, Append(receiveBuf, c))
              = Append(delivered \o rcvList, Append(receiveBuf, c))
        BY <3>1, <3>2, AppendBehind
      <3>4. Len(Append(delivered \o rcvList, Append(receiveBuf, c)))
              = Len(delivered \o rcvList) + 1
        BY <3>2
      <3> QED
        BY <1>7, <2>2, <3>3, <3>4 DEF Counts, Statistics, Obtained
    <2> QED
      BY <1>7, <2>1, <2>2, ReceiveByteQueue
  <1>8. ASSUME WorkerReceive \/ WorkerReceiveNothing PROVE Counts'
    <2>1. UNCHANGED Sent
      BY <1>8 DEF WorkerReceive, WorkerReceiveNothing
    <2>2. CASE WorkerReceive
      <3>1. Head(line) \in Tokens
        BY <2>2 DEF WorkerReceive, TypeOK
      <3> QED
        BY <1>1, <1>7, <2>1, <2>2, <3>1 DEF WorkerReceive, Counts, Statistics
    <2>3. CASE WorkerReceiveNothing
      BY <1>1, <1>2, <1>7, <2>1, <2>3, TokensOnLine
         DEF WorkerReceiveNothing, Counts, Statistics
    <2> QED
      BY <1>8, <2>2, <2>3
  <1>9. ASSUME WorkerTransmit PROVE Counts'
    <2>1. /\ UNCHANGED Got /\ UNCHANGED <<accepted, txFrames>>
          /\ wpc = "transmit" /\ wpc' = "ack" /\ sndList # <<>>
          /\ transmitted' = Append(transmitted, Head(sndList))
          /\ sndList' = Tail(sndList)
      BY <1>9 DEF WorkerTransmit
    <2>2. accepted' = transmitted' \o sndList'
      BY <2>1, MoveHead DEF Counts, SendOrder, TypeOK
    <2>3. Len(transmitted') = Len(transmitted) + 1
      BY <2>1 DEF TypeOK
    <2> QED
      BY <1>2, <2>1, <2>2, <2>3 DEF Counts, SendOrder, Statistics, TypeOK
  <1>10. ASSUME WorkerAck \/ WorkerAckNothing PROVE Counts'
    <2>1. /\ UNCHANGED Got /\ UNCHANGED <<accepted, transmitted, sndList>>
          /\ wpc = "ack"
          /\ \/ wpc' = "poll" /\ txFrames' = txFrames + 1
             \/ UNCHANGED <<wpc, txFrames>>
      BY <1>10 DEF WorkerAck, WorkerAckNothing, Acknowledged, Waiting
    <2>2. SendOrder'
      BY <2>1 DEF Counts, SendOrder
    <2>3. transmitted' = transmitted /\ Len(transmitted) = txFrames + 1
      BY <2>1 DEF Counts, Statistics
    <2>4. CASE wpc' = "poll" /\ txFrames' = txFrames + 1
      BY <1>2, <2>1, <2>2, <2>3, <2>4 DEF Counts, Statistics, TypeOK
    <2>5. CASE UNCHANGED <<wpc, txFrames>>
      BY <1>2, <2>1, <2>2, <2>3, <2>5 DEF Counts, Statistics, TypeOK
    <2> QED
      BY <2>1, <2>4, <2>5 DEF Counts, Statistics
  <1>11. UNCHANGED Sent /\ UNCHANGED Got => Counts'
    BY <1>1, <1>2 DEF Counts, Statistics
  <1> QED
    BY <1>3, <1>4, <1>5, <1>6, <1>8, <1>9, <1>10, <1>11
       DEF Next, WorkerStep, BeginCall, AtRest

LEMMA CountsHold == Spec => []Counts
  BY TypeOKInit, TypeOKStep, CountsInit, CountsStep, PTL DEF Spec

\* No accepted message is lost, repeated or overtaken on its way to the
\* adapter (writeMsg, the transmit part of workThread).
THEOREM SendInOrder == Spec => []SendOrder
  <1>1. Counts => SendOrder
    BY DEF Counts
  <1> QED
    BY <1>1, CountsHold, PTL

\* m_stat counts each frame that was queued and each message that was written
\* once.
THEOREM StatisticsAgree == Spec => []Statistics
  <1>1. Counts => Statistics
    BY DEF Counts
  <1> QED
    BY <1>1, CountsHold, PTL

----------------------------------------------------------------------------
(* Frames stay in order.  ReceiveOrder alone is not inductive: the frame   *)
(* whose message is being put together must be later than the frames of    *)
(* the messages queued, and those on the line later still.                 *)

\* A message that starts with its own head is in the buffer.
Beginning == rxState = "MSG" /\ receiveBuf # <<>> /\ receiveBuf[1].k = "head"

ObtainedPassed ==
  \A i \in DOMAIN Obtained :
     Obtained[i] # <<>> /\ Started(Obtained[i]) \in 1 .. busFrames

BufferLater ==
  Beginning =>
    /\ receiveBuf[1].f \in 1 .. busFrames
    /\ \A i \in DOMAIN Obtained : Started(Obtained[i]) < receiveBuf[1].f

LineLater ==
  \A j \in DOMAIN line : line[j].k = "head" =>
    /\ line[j].f \in 1 .. busFrames
    /\ \A i \in DOMAIN Obtained : Started(Obtained[i]) < line[j].f
    /\ Beginning => receiveBuf[1].f < line[j].f

LineSorted ==
  \A j, k \in DOMAIN line :
    j < k /\ line[j].k = "head" /\ line[k].k = "head" => line[j].f < line[k].f

Order == ObtainedPassed /\ ReceiveOrder /\ BufferLater /\ LineLater /\ LineSorted

LEMMA OrderInit == Init => Order
  <1> SUFFICES ASSUME Init PROVE Order
    OBVIOUS
  <1>1. Obtained = <<>> /\ line = <<>> /\ rxState = "NONE"
    BY DEF Init, Obtained
  <1> QED
    BY <1>1 DEF Order, ObtainedPassed, ReceiveOrder, BufferLater, LineLater,
       LineSorted, Beginning

\* Taking characters off the line keeps the order.
LEMMA LineShrinks ==
  ASSUME TypeOK, Order, UNCHANGED <<Obtained, rxState, receiveBuf, busFrames>>,
         NEW n \in 0 .. Len(line), line' = SubSeq(line, n + 1, Len(line))
  PROVE  Order'
  <1> line \in Seq(Tokens)
    BY DEF TypeOK
  <1>1. /\ DOMAIN line' = 1 .. Len(line) - n
        /\ \A j \in 1 .. Len(line) - n :
              line'[j] = line[n + j] /\ n + j \in DOMAIN line
    OBVIOUS
  <1>2. Beginning' = Beginning
    BY DEF Beginning
  <1>3. ObtainedPassed' /\ ReceiveOrder' /\ BufferLater'
    BY <1>2 DEF Order, ObtainedPassed, ReceiveOrder, BufferLater
  <1>4. LineLater'
    BY <1>1, <1>2 DEF Order, LineLater
  <1>5. LineSorted'
    BY <1>1 DEF Order, LineSorted
  <1> QED
    BY <1>3, <1>4, <1>5 DEF Order

\* So does an answer without a head, or with the head of the next frame.
LEMMA LineGrows ==
  ASSUME TypeOK, Order, UNCHANGED <<Obtained, rxState, receiveBuf>>,
         NEW a \in Seq(Tokens), line' = line \o a,
         busFrames' \in {busFrames, busFrames + 1},
         \A j \in DOMAIN a : a[j].k = "head" =>
            a[j].f = busFrames' /\ busFrames' = busFrames + 1,
         \A j, k \in DOMAIN a : a[j].k = "head" /\ a[k].k = "head" => j = k
  PROVE  Order'
  <1> line \in Seq(Tokens) /\ busFrames \in Nat
    BY DEF TypeOK
  <1>1. /\ DOMAIN line' = 1 .. Len(line) + Len(a)
        /\ \A j \in 1 .. Len(line) : line'[j] = line[j] /\ j \in DOMAIN line
        /\ \A j \in Len(line) + 1 .. Len(line) + Len(a) :
              line'[j] = a[j - Len(line)] /\ j - Len(line) \in DOMAIN a
    OBVIOUS
  <1>2. Beginning' = Beginning
    BY DEF Beginning
  <1>3. ObtainedPassed' /\ ReceiveOrder' /\ BufferLater'
    BY <1>2 DEF Order, ObtainedPassed, ReceiveOrder, BufferLater
  <1>4. ASSUME NEW j \in 1 .. Len(line), line[j].k = "head"
        PROVE  line[j].f \in 1 .. busFrames
    BY <1>4 DEF Order, LineLater
  <1>5. ASSUME NEW j \in DOMAIN line', line'[j].k = "head"
        PROVE  /\ line'[j].f \in 1 .. busFrames'
               /\ \A i \in DOMAIN Obtained : Started(Obtained[i]) < line'[j].f
               /\ Beginning => receiveBuf[1].f < line'[j].f
    <2>1. CASE j \in 1 .. Len(line)
      BY <1>1, <1>4, <1>5, <2>1 DEF Order, LineLater
    <2>2. CASE j \in Len(line) + 1 .. Len(line) + Len(a)
      <3>1. line'[j].f = busFrames + 1 /\ busFrames' = busFrames + 1
        BY <1>1, <1>5, <2>2
      <3>2. \A i \in DOMAIN Obtained : Started(Obtained[i]) \in 1 .. busFrames
        BY DEF Order, ObtainedPassed
      <3>3. Beginning => receiveBuf[1].f \in 1 .. busFrames
        BY DEF Order, BufferLater
      <3> QED
        BY <3>1, <3>2, <3>3
    <2> QED
      BY <1>1, <1>5, <2>1, <2>2
  <1>6. LineLater'
    BY <1>2, <1>5 DEF LineLater
  <1>7. ASSUME NEW j \in DOMAIN line', NEW k \in DOMAIN line', j < k,
               line'[j].k = "head", line'[k].k = "head"
        PROVE  line'[j].f < line'[k].f
    <2>1. CASE k \in 1 .. Len(line)
      <3>1. j \in 1 .. Len(line)
        BY <1>1, <1>7, <2>1
      <3> QED
        BY <1>1, <1>7, <2>1, <3>1 DEF Order, LineSorted
    <2>2. CASE k \in Len(line) + 1 .. Len(line) + Len(a)
      <3>1. line'[k].f = busFrames + 1
        BY <1>1, <1>7, <2>2
      <3>2. j \in 1 .. Len(line)
        BY <1>1, <1>7, <2>2
      <3>3. line'[j].f \in 1 .. busFrames
        BY <1>1, <1>4, <1>7, <3>2
      <3> QED
        BY <3>1, <3>3
    <2> QED
      BY <1>1, <1>7, <2>1, <2>2
  <1>8. LineSorted'
    BY <1>7 DEF LineSorted
  <1> QED
    BY <1>3, <1>6, <1>8 DEF Order

LEMMA CommandOrder ==
  ASSUME TypeOK, Order, Command, UNCHANGED <<Obtained, rxState, receiveBuf>>
  PROVE  Order'
  <1>1. busFrames' = busFrames /\ busFrames \in Nat
    BY DEF Command, TypeOK
  <1>2. /\ <<>> \in Seq(Tokens) /\ line \o <<>> = line
        /\ <<Cr>> \in Seq(Tokens) /\ <<Other>> \in Seq(Tokens)
    BY DEF TypeOK, Tokens, Kinds, Cr, Other
  <1>3. PICK a \in {<<>>, <<Cr>>, <<Other>>} : line' = line \o a
    BY <1>2 DEF Command, Answered, Acks
  <1>4. \A j \in DOMAIN a : a[j].k # "head"
    BY <1>3 DEF Cr, Other
  <1> QED
    BY <1>1, <1>2, <1>3, <1>4, LineGrows

LEMMA ThreeAndTwo ==
  ASSUME NEW S, NEW x \in S, NEW y \in S, NEW z \in S, NEW u \in S, NEW v \in S
  PROVE  LET a == <<x, y, z>> \o <<u, v>> IN
           /\ a \in Seq(S) /\ DOMAIN a = 1 .. 5
           /\ a[1] = x /\ a[2] = y /\ a[3] = z /\ a[4] = u /\ a[5] = v
  OBVIOUS

LEMMA FirstOfAppend ==
  ASSUME NEW S, NEW q \in Seq(S), NEW e \in S
  PROVE  /\ Append(q, e) # <<>>
         /\ q = <<>> => Append(q, e)[1] = e
         /\ q # <<>> => Append(q, e)[1] = q[1]
  <1>1. Len(Append(q, e)) = Len(q) + 1 /\ Len(<<>>) = 0
    OBVIOUS
  <1>2. q = <<>> => Append(q, e)[1] = e
    OBVIOUS
  <1>3. q # <<>> => 1 \in 1 .. Len(q)
    OBVIOUS
  <1> QED
    BY <1>1, <1>2, <1>3

\* The next frame on the line, alone or followed by the answer to a poll.
LEMMA NextFrameOrder ==
  ASSUME TypeOK, Order, UNCHANGED <<Obtained, rxState, receiveBuf>>,
         busFrames' = busFrames + 1,
         \/ line' = line \o Frame(busFrames + 1)
         \/ line' = line \o Frame(busFrames + 1) \o <<Other, Cr>>
  PROVE  Order'
  <1> DEFINE n == busFrames + 1
             long == Frame(n) \o <<Other, Cr>>
  <1>1. n \in Nat /\ line \in Seq(Tokens)
    BY DEF TypeOK
  <1>2. Frame(n) \in Seq(Tokens) /\ <<Other, Cr>> \in Seq(Tokens)
    BY <1>1, TokensOnLine
  <1>3. line \o Frame(n) \o <<Other, Cr>> = line \o long
    BY <1>1, <1>2, SMTT(30)
  <1>4. PICK a \in {Frame(n), long} : line' = line \o a
    BY <1>3
  <1>5. a \in Seq(Tokens) /\ \A j \in DOMAIN a : a[j].k = "head" => j = 1 /\ a[j].f = n
    <2>1. CASE a = Frame(n)
      BY <1>2, <2>1 DEF Frame
    <2>2. CASE a = long
      <3>1. /\ [k |-> "head", f |-> n] \in Tokens /\ [k |-> "body", f |-> n] \in Tokens
            /\ [k |-> "cr", f |-> n] \in Tokens /\ Other \in Tokens /\ Cr \in Tokens
        BY <1>1 DEF Tokens, Kinds, Other, Cr
      <3>2. /\ a \in Seq(Tokens) /\ DOMAIN a = 1 .. 5
            /\ a[1] = [k |-> "head", f |-> n] /\ a[2] = [k |-> "body", f |-> n]
            /\ a[3] = [k |-> "cr", f |-> n] /\ a[4] = Other /\ a[5] = Cr
        BY <2>2, <3>1, ThreeAndTwo DEF Frame
      <3>3. \A j \in 1 .. 5 : j = 1 \/ j = 2 \/ j = 3 \/ j = 4 \/ j = 5
        OBVIOUS
      <3> QED
        BY <3>2, <3>3 DEF Other, Cr
    <2> QED
      BY <1>4, <2>1, <2>2
  <1>6. \A j, k \in DOMAIN a : a[j].k = "head" /\ a[k].k = "head" => j = k
    BY <1>5
  <1>7. \A j \in DOMAIN a : a[j].k = "head" =>
           a[j].f = busFrames' /\ busFrames' = busFrames + 1
    BY <1>5
  <1> QED
    BY <1>4, <1>5, <1>6, <1>7, LineGrows

LEMMA PollOrder ==
  ASSUME TypeOK, Order, Poll, UNCHANGED <<Obtained, rxState, receiveBuf>>
  PROVE  Order'
  <1>1. CASE Command
    BY <1>1, CommandOrder
  <1>2. CASE ~Command
    BY <1>2, NextFrameOrder DEF Poll
  <1> QED
    BY <1>1, <1>2

\* A character through the receive state machine: c was the first on the line,
\* or is one the line never carried and no head.
LEMMA ReceiveByteOrder ==
  ASSUME TypeOK, Order, NEW c \in Tokens, ReceiveByte(c),
         UNCHANGED <<delivered, busFrames>>, line' \in Seq(Tokens),
         c.k = "head" =>
            /\ c.f \in 1 .. busFrames
            /\ \A i \in DOMAIN Obtained : Started(Obtained[i]) < c.f,
         \A j \in DOMAIN line' : line'[j].k = "head" =>
            /\ line'[j].f \in 1 .. busFrames
            /\ \A i \in DOMAIN Obtained : Started(Obtained[i]) < line'[j].f
            /\ Beginning => receiveBuf[1].f < line'[j].f
            /\ c.k = "head" => c.f < line'[j].f,
         LineSorted'
  PROVE  Order'
  <1> /\ receiveBuf \in Seq(Tokens) /\ busFrames \in Nat
      /\ delivered \in Seq(Seq(Tokens)) /\ rcvList \in Seq(Seq(Tokens))
    BY DEF TypeOK
  <1> DEFINE buf == Append(receiveBuf, c)
  <1>1. /\ buf # <<>>
        /\ receiveBuf = <<>> => buf[1] = c
        /\ receiveBuf # <<>> => buf[1] = receiveBuf[1]
    BY FirstOfAppend
  <1>2. CASE UNCHANGED rcvList
    <2>1. Obtained' = Obtained
      BY <1>2 DEF Obtained
    <2>2. Beginning' =>
            \/ Beginning /\ receiveBuf'[1] = receiveBuf[1]
            \/ c.k = "head" /\ receiveBuf'[1] = c
      <3>1. CASE rxState # "MSG"
        BY <3>1 DEF ReceiveByte, Beginning, rx
      <3>2. CASE rxState = "MSG" /\ c.k = "cr"
        BY <3>2 DEF ReceiveByte, ReceiveInMsg, Complete, Beginning
      <3>3. CASE rxState = "MSG" /\ c.k # "cr" /\ receiveBuf' = buf
        BY <1>1, <3>3 DEF Beginning
      <3>4. CASE /\ rxState = "MSG"
                 /\ \E n \in 0 .. BufSize :
                       /\ Len(buf) > BufSize
                       /\ receiveBuf' = SubSeq(receiveBuf, 1, n)
        <4>1. PICK n \in 0 .. BufSize :
                 Len(buf) > BufSize /\ receiveBuf' = SubSeq(receiveBuf, 1, n)
          BY <3>4
        <4>2. n <= Len(receiveBuf)
          BY <4>1, BufferAssumption DEF BufferAssumption
        <4>3. receiveBuf' # <<>> =>
                receiveBuf # <<>> /\ receiveBuf'[1] = receiveBuf[1]
          BY <4>1, <4>2, BufferAssumption DEF BufferAssumption
        <4> QED
          BY <3>4, <4>3 DEF Beginning
      <3> QED
        BY <3>1, <3>2, <3>3, <3>4 DEF ReceiveByte, ReceiveInMsg
    <2>3. ObtainedPassed' /\ ReceiveOrder'
      BY <2>1 DEF Order, ObtainedPassed, ReceiveOrder
    <2>4. BufferLater'
      BY <2>1, <2>2 DEF Order, BufferLater
    <2>5. LineLater'
      BY <2>1, <2>2 DEF LineLater
    <2> QED
      BY <2>3, <2>4, <2>5 DEF Order
  <1>3. CASE /\ rxState = "MSG" /\ c.k = "cr" /\ Translates(buf)
             /\ rcvList' = Append(rcvList, buf)
    <2>1. Beginning /\ Started(buf) = receiveBuf[1].f
      BY <1>1, <1>3 DEF Translates, Beginning, Started
    <2>2. Obtained' = Append(Obtained, buf) /\ Obtained \in Seq(Seq(Tokens))
      <3>1. buf \in Seq(Tokens)
        OBVIOUS
      <3>2. delivered \o Append(rcvList, buf) = Append(delivered \o rcvList, buf)
        BY <3>1, AppendBehind
      <3> QED
        BY <1>3, <3>2 DEF Obtained
    <2>3. /\ DOMAIN Obtained' = 1 .. Len(Obtained) + 1
          /\ DOMAIN Obtained = 1 .. Len(Obtained) /\ Len(Obtained) \in Nat
          /\ \A i \in 1 .. Len(Obtained) : Obtained'[i] = Obtained[i]
          /\ Obtained'[Len(Obtained) + 1] = buf
      BY <2>2
    <2>4. /\ receiveBuf[1].f \in 1 .. busFrames
          /\ \A i \in 1 .. Len(Obtained) : Started(Obtained[i]) < receiveBuf[1].f
      BY <2>1, <2>3 DEF Order, BufferLater
    <2>5. \A i \in 1 .. Len(Obtained) + 1 :
             i = Len(Obtained) + 1 \/ i \in 1 .. Len(Obtained)
      BY <2>3
    <2>6. ObtainedPassed'
      BY <1>1, <2>1, <2>3, <2>4, <2>5 DEF Order, ObtainedPassed, Started
    <2>7. ReceiveOrder'
      <3> SUFFICES ASSUME NEW i \in 1 .. Len(Obtained) + 1,
                          NEW j \in 1 .. Len(Obtained) + 1, i < j
                   PROVE  Started(Obtained'[i]) < Started(Obtained'[j])
        BY <2>3 DEF ReceiveOrder, Started
      <3>1. i \in 1 .. Len(Obtained)
        BY <2>3
      <3>2. CASE j = Len(Obtained) + 1
        BY <2>1, <2>3, <2>4, <3>1, <3>2
      <3>3. CASE j \in 1 .. Len(Obtained)
        BY <2>3, <3>1, <3>3 DEF Order, ReceiveOrder
      <3> QED
        BY <2>5, <3>2, <3>3
    <2>8. ~Beginning'
      BY <1>3 DEF ReceiveByte, ReceiveInMsg, Complete, Beginning
    <2>9. LineLater'
      BY <2>1, <2>3, <2>5, <2>8 DEF LineLater, Started
    <2> QED
      BY <2>6, <2>7, <2>8, <2>9 DEF Order, BufferLater
  <1> QED
    BY <1>2, <1>3, ReceiveByteQueue

LEMMA OrderStep == TypeOK /\ TypeOK' /\ Order /\ [Next]_vars => Order'
  <1> SUFFICES ASSUME TypeOK, TypeOK', Order, [Next]_vars PROVE Order'
    OBVIOUS
  <1> USE DEF worker, rx, tx, adapter, history
  <1> DEFINE Frozen == UNCHANGED <<Obtained, rxState, receiveBuf, busFrames>>
  <1>1. Frozen /\ UNCHANGED line => Order'
    BY DEF Order, ObtainedPassed, ReceiveOrder, BufferLater, LineLater,
       LineSorted, Beginning
  <1>2. Frozen /\ Gets => Order'
    BY LineShrinks DEF Gets
  <1>3. /\ line # <<>> => Tail(line) = SubSeq(line, 2, Len(line)) /\ 1 \in 0 .. Len(line)
        /\ <<>> = SubSeq(line, Len(line) + 1, Len(line)) /\ Len(line) \in 0 .. Len(line)
    <2>1. line \in Seq(Tokens) /\ Len(line) \in Nat
      BY DEF TypeOK
    <2>2. line # <<>> => Tail(line) = SubSeq(line, 2, Len(line)) /\ Len(line) > 0
      BY <2>1
    <2>3. <<>> = SubSeq(line, Len(line) + 1, Len(line))
      BY <2>1, SubSeqEmpty
    <2> QED
      BY <2>1, <2>2, <2>3
  <1>4. ASSUME NEW t \in Threads, ReadMsg(t) PROVE Order'
    <2>1. Obtained' = Obtained
      BY <1>4, MoveHead DEF ReadMsg, Obtained, TypeOK
    <2> QED
      BY <1>1, <1>4, <2>1 DEF ReadMsg
  <1>5. ASSUME NEW t \in Threads,
               \/ \E m \in Messages : WriteMsg(t, m)
               \/ CloseExchange(t) \/ CloseJoin(t)
        PROVE  Order'
    BY <1>1, <1>5 DEF WriteMsg, CloseExchange, CloseJoin, Obtained
  <1>6. ASSUME NEW t \in Threads,
               SetFilterPutsMask(t) \/ \E n \in {1, 2} : SetFilter(t, n)
        PROVE  Order'
    <2>1. UNCHANGED <<Obtained, rxState, receiveBuf>> /\ PutsCommand
      BY <1>6 DEF SetFilterPutsMask, SetFilter, Obtained
    <2> QED
      BY <1>1, <2>1, CommandOrder DEF PutsCommand
  <1>7. ASSUME NEW t \in Threads, SetFilterGetsCode(t) \/ SetFilterDone(t)
        PROVE  Order'
    BY <1>2, <1>7 DEF SetFilterGetsCode, SetFilterDone, Obtained
  <1>8. ASSUME NEW t \in Threads, ClosePort(t) PROVE Order'
    <2>1. Frozen /\ line' = <<>>
      BY <1>8 DEF ClosePort, Obtained
    <2> QED
      BY <1>3, <2>1, LineShrinks
  <1>9. ASSUME WorkerLoop \/ WorkerLock \/ WorkerNoMessage \/ WorkerAckNothing
               \/ UNCHANGED vars
        PROVE  Order'
    BY <1>1, <1>9 DEF WorkerLoop, WorkerLock, WorkerNoMessage,
       WorkerAckNothing, Obtained, vars
  <1>10. ASSUME WorkerReceive PROVE Order'
    <2>1. /\ line \in Seq(Tokens) /\ line # <<>> /\ line' = Tail(line)
          /\ ReceiveByte(Head(line)) /\ UNCHANGED <<delivered, busFrames>>
      BY <1>10 DEF WorkerReceive, TypeOK
    <2>2. /\ Head(line) = line[1] /\ 1 \in DOMAIN line /\ line[1] \in Tokens
          /\ \A j \in DOMAIN line' :
                j \in Nat /\ j + 1 \in DOMAIN line /\ 1 < j + 1 /\ line'[j] = line[j + 1]
      BY <2>1
    <2>3. line[1].k = "head" =>
            /\ line[1].f \in 1 .. busFrames
            /\ \A i \in DOMAIN Obtained : Started(Obtained[i]) < line[1].f
      BY <2>2 DEF Order, LineLater
    <2>4. ASSUME NEW j \in DOMAIN line', line'[j].k = "head"
          PROVE  /\ line'[j].f \in 1 .. busFrames
                 /\ \A i \in DOMAIN Obtained : Started(Obtained[i]) < line'[j].f
                 /\ Beginning => receiveBuf[1].f < line'[j].f
                 /\ line[1].k = "head" => line[1].f < line'[j].f
      BY <2>2, <2>4 DEF Order, LineLater, LineSorted
    <2>5. LineSorted'
      BY <2>2 DEF Order, LineSorted
    <2>6. line' \in Seq(Tokens)
      BY DEF TypeOK
    <2> QED
      BY <2>1, <2>2, <2>3, <2>4, <2>5, <2>6, ReceiveByteOrder
  <1>11. ASSUME WorkerReceiveNothing PROVE Order'
    <2>1. CASE EmptyIsMinusOne
      BY <1>1, <1>11, <2>1 DEF WorkerReceiveNothing, Obtained
    <2>2. CASE ~EmptyIsMinusOne
      <3>1. /\ ReceiveByte(Other) /\ line' = line
            /\ UNCHANGED <<delivered, busFrames>>
        BY <1>11, <2>2 DEF WorkerReceiveNothing
      <3>2. Other \in Tokens /\ Other.k # "head"
        BY DEF Other, Tokens, Kinds
      <3>3. LineSorted' /\ line' \in Seq(Tokens)
        BY <3>1 DEF Order, LineSorted, TypeOK
      <3>4. \A j \in DOMAIN line' : line'[j].k = "head" =>
               /\ line'[j].f \in 1 .. busFrames
               /\ \A i \in DOMAIN Obtained : Started(Obtained[i]) < line'[j].f
               /\ Beginning => receiveBuf[1].f < line'[j].f
        BY <3>1 DEF Order, LineLater
      <3> QED
        BY <3>1, <3>2, <3>3, <3>4, ReceiveByteOrder
    <2> QED
      BY <2>1, <2>2
  <1>12. ASSUME WorkerTransmit PROVE Order'
    <2>1. UNCHANGED <<Obtained, rxState, receiveBuf>>
      BY <1>12 DEF WorkerTransmit, Obtained
    <2> QED
      BY <1>1, <1>12, <2>1, CommandOrder DEF WorkerTransmit
  <1>13. ASSUME WorkerAck PROVE Order'
    <2>1. Frozen /\ line # <<>> /\ line' = Tail(line)
      BY <1>13 DEF WorkerAck, Obtained
    <2> QED
      BY <1>3, <2>1, LineShrinks
  <1>14. ASSUME WorkerPoll PROVE Order'
    <2>1. UNCHANGED <<Obtained, rxState, receiveBuf>>
      BY <1>14 DEF WorkerPoll, Obtained
    <2> QED
      BY <1>1, <1>14, <2>1, PollOrder DEF WorkerPoll
  <1>15. ASSUME BusFrame PROVE Order'
    <2>1. UNCHANGED <<Obtained, rxState, receiveBuf>>
      BY <1>15 DEF BusFrame, Obtained
    <2> QED
      BY <1>15, <2>1, NextFrameOrder DEF BusFrame
  <1> QED
    BY <1>4, <1>5, <1>6, <1>7, <1>8, <1>9, <1>10, <1>11, <1>12, <1>13, <1>14,
       <1>15 DEF Next, WorkerStep, BeginCall, FinishCall, AtRest

\* The application never receives two messages that began with the same frame
\* nor an earlier frame after a later one, whatever the answer loop and the
\* filter commands took off the line in between.
THEOREM ReceiveInOrder == Spec => []ReceiveOrder
  <1>1. Spec => []Order
    BY TypeOKInit, TypeOKStep, OrderInit, OrderStep, PTL DEF Spec
  <1>2. Order => ReceiveOrder
    BY DEF Order
  <1> QED
    BY <1>1, <1>2, PTL

----------------------------------------------------------------------------
(* The object implements the abstract channel *)

LEMMA NumbersOfQueue ==
  ASSUME NEW q \in Seq(Seq(Tokens)), \A i \in DOMAIN q : Started(q[i]) \in Nat
  PROVE  /\ Numbers(q) \in Seq(Nat) /\ DOMAIN Numbers(q) = DOMAIN q
         /\ Len(Numbers(q)) = Len(q)
         /\ \A i \in DOMAIN q : Numbers(q)[i] = Started(q[i])
         /\ q # <<>> => Numbers(q) # <<>>
  <1>1. Len(q) \in Nat /\ DOMAIN q = 1 .. Len(q)
    BY LenProperties
  <1>2. Numbers(q) \in [1 .. Len(q) -> Nat]
    BY <1>1 DEF Numbers
  <1>3. Numbers(q) \in Seq(Nat)
    <2>1. Seq(Nat) = UNION {[1 .. n -> Nat] : n \in Nat}
      BY SeqDef
    <2> QED
      BY <1>1, <1>2, <2>1, Zenon
  <1>4. Len(Numbers(q)) = Len(q)
    BY <1>1, <1>2, <1>3, LenProperties
  <1>5. q # <<>> => Len(q) # 0
    BY EmptySeq
  <1>6. q # <<>> => Numbers(q) # <<>>
    BY <1>4, <1>5, EmptySeq
  <1> QED
    BY <1>1, <1>2, <1>3, <1>4, <1>6 DEF Numbers

LEMMA NumbersOfTail ==
  ASSUME NEW q \in Seq(Seq(Tokens)), q # <<>>,
         \A i \in DOMAIN q : Started(q[i]) \in Nat
  PROVE  Numbers(Tail(q)) = Tail(Numbers(q))
         /\ Head(Numbers(q)) = Started(Head(q))
  <1>1. /\ Numbers(q) \in Seq(Nat) /\ Numbers(q) # <<>> /\ Len(Numbers(q)) = Len(q)
        /\ \A i \in DOMAIN q : Numbers(q)[i] = Started(q[i])
    BY NumbersOfQueue
  <1>2. /\ Tail(q) \in Seq(Seq(Tokens)) /\ DOMAIN Tail(q) = 1 .. Len(q) - 1
        /\ \A i \in DOMAIN Tail(q) : Tail(q)[i] = q[i + 1] /\ i + 1 \in DOMAIN q
    OBVIOUS
  <1>3. \A i \in DOMAIN Tail(q) : Started(Tail(q)[i]) \in Nat
    BY <1>2
  <1>4. /\ Numbers(Tail(q)) \in Seq(Nat) /\ Len(Numbers(Tail(q))) = Len(q) - 1
        /\ \A i \in 1 .. Len(q) - 1 : Numbers(Tail(q))[i] = Started(q[i + 1])
    <2>1. Len(Tail(q)) = Len(q) - 1
      BY HeadTailProperties
    <2> QED
      BY <1>2, <1>3, <2>1, NumbersOfQueue
  <1>5. /\ Tail(Numbers(q)) \in Seq(Nat) /\ Len(Tail(Numbers(q))) = Len(q) - 1
        /\ \A i \in 1 .. Len(q) - 1 : Tail(Numbers(q))[i] = Started(q[i + 1])
    <2>1. /\ Tail(Numbers(q)) \in Seq(Nat)
          /\ Len(Tail(Numbers(q))) = Len(Numbers(q)) - 1
          /\ \A i \in 1 .. Len(Tail(Numbers(q))) :
                Tail(Numbers(q))[i] = Numbers(q)[i + 1]
      BY <1>1, HeadTailProperties
    <2> QED
      BY <1>1, <1>2, <2>1
  <1>6. Numbers(Tail(q)) = Tail(Numbers(q))
    <2>1. \A i \in 1 .. Len(Numbers(Tail(q))) :
             Numbers(Tail(q))[i] = Tail(Numbers(q))[i]
      BY <1>4, <1>5
    <2> QED
      BY <1>4, <1>5, <2>1, SeqEqual
  <1>7. Head(Numbers(q)) = Started(Head(q))
    <2>1. Head(q) = q[1] /\ Head(Numbers(q)) = Numbers(q)[1]
      BY <1>1
    <2>2. 1 \in DOMAIN q
      OBVIOUS
    <2> QED
      BY <1>1, <2>1, <2>2
  <1> QED
    BY <1>6, <1>7

LEMMA NumbersOfAppend ==
  ASSUME NEW q \in Seq(Seq(Tokens)), NEW b \in Seq(Tokens),
         \A i \in DOMAIN q : Started(q[i]) \in Nat, Started(b) \in Nat
  PROVE  Numbers(Append(q, b)) = Append(Numbers(q), Started(b))
  <1>1. /\ Numbers(q) \in Seq(Nat) /\ Len(Numbers(q)) = Len(q)
        /\ \A i \in DOMAIN q : Numbers(q)[i] = Started(q[i])
    BY NumbersOfQueue
  <1>2. /\ Append(q, b) \in Seq(Seq(Tokens)) /\ Len(Append(q, b)) = Len(q) + 1
        /\ DOMAIN Append(q, b) = 1 .. Len(q) + 1 /\ DOMAIN q = 1 .. Len(q)
        /\ \A i \in 1 .. Len(q) : Append(q, b)[i] = q[i]
        /\ Append(q, b)[Len(q) + 1] = b /\ Len(q) \in Nat
    OBVIOUS
  <1>3. \A i \in DOMAIN Append(q, b) : i \in 1 .. Len(q) \/ i = Len(q) + 1
    BY <1>2
  <1>4. \A i \in DOMAIN Append(q, b) : Started(Append(q, b)[i]) \in Nat
    BY <1>2, <1>3
  <1>5. /\ Numbers(Append(q, b)) \in Seq(Nat)
        /\ Len(Numbers(Append(q, b))) = Len(q) + 1
        /\ \A i \in 1 .. Len(q) + 1 :
              Numbers(Append(q, b))[i] = Started(Append(q, b)[i])
    BY <1>2, <1>4, NumbersOfQueue
  <1>6. /\ Append(Numbers(q), Started(b)) \in Seq(Nat)
        /\ Len(Append(Numbers(q), Started(b))) = Len(q) + 1
        /\ \A i \in 1 .. Len(q) : Append(Numbers(q), Started(b))[i] = Started(q[i])
        /\ Append(Numbers(q), Started(b))[Len(q) + 1] = Started(b)
    <2>1. ASSUME NEW s \in Seq(Nat), NEW e \in Nat
          PROVE  /\ Append(s, e) \in Seq(Nat) /\ Len(Append(s, e)) = Len(s) + 1
                 /\ \A i \in 1 .. Len(s) : Append(s, e)[i] = s[i]
                 /\ Append(s, e)[Len(s) + 1] = e
      OBVIOUS
    <2>2. /\ Append(Numbers(q), Started(b)) \in Seq(Nat)
          /\ Len(Append(Numbers(q), Started(b))) = Len(Numbers(q)) + 1
          /\ \A i \in 1 .. Len(Numbers(q)) :
                Append(Numbers(q), Started(b))[i] = Numbers(q)[i]
          /\ Append(Numbers(q), Started(b))[Len(Numbers(q)) + 1] = Started(b)
      BY <1>1, <2>1
    <2> QED
      BY <1>1, <1>2, <2>2
  <1>7. \A i \in 1 .. Len(q) + 1 :
           Numbers(Append(q, b))[i] = Append(Numbers(q), Started(b))[i]
    BY <1>2, <1>3, <1>5, <1>6
  <1> QED
    BY <1>5, <1>6, <1>7, SeqEqual

\* The numbers of the frames read and queued, one by one.
LEMMA ObtainedNumbers ==
  ASSUME TypeOK, Order
  PROVE  /\ \A i \in DOMAIN delivered : Started(delivered[i]) \in 1 .. busFrames
         /\ \A i \in DOMAIN rcvList : Started(rcvList[i]) \in 1 .. busFrames
         /\ Beginning =>
              /\ \A i \in DOMAIN delivered : Started(delivered[i]) < receiveBuf[1].f
              /\ \A i \in DOMAIN rcvList : Started(rcvList[i]) < receiveBuf[1].f
  <1>1. delivered \in Seq(Seq(Tokens)) /\ rcvList \in Seq(Seq(Tokens))
    BY DEF TypeOK
  <1>2. \A i \in DOMAIN delivered : i \in DOMAIN Obtained /\ Obtained[i] = delivered[i]
    BY <1>1 DEF Obtained
  <1>3. \A i \in DOMAIN rcvList :
           /\ Len(delivered) + i \in DOMAIN Obtained
           /\ Obtained[Len(delivered) + i] = rcvList[i]
    BY <1>1 DEF Obtained
  <1>4. \A i \in DOMAIN Obtained : Started(Obtained[i]) \in 1 .. busFrames
    BY DEF Order, ObtainedPassed
  <1>5. Beginning => \A i \in DOMAIN Obtained : Started(Obtained[i]) < receiveBuf[1].f
    BY DEF Order, BufferLater
  <1> QED
    BY <1>2, <1>3, <1>4, <1>5

LEMMA FifoInit == Init => Fifo!Init
  <1> SUFFICES ASSUME Init PROVE Fifo!Init
    OBVIOUS
  <1>1. Numbers(<<>>) = <<>>
    BY DEF Numbers
  <1> QED
    BY <1>1 DEF Init, Fifo!Init, Phase

LEMMA FifoStep ==
  TypeOK /\ TypeOK' /\ Closing /\ Order /\ [Next]_vars
    => [Fifo!Next]_(Fifo!vars)
  <1> SUFFICES ASSUME TypeOK, TypeOK', Closing, Order, [Next]_vars
               PROVE  [Fifo!Next]_(Fifo!vars)
    OBVIOUS
  <1> USE DEF worker, rx, tx, adapter, history
  <1> DEFINE Queues == <<sndList, transmitted, rcvList, delivered>>
  <1>1. ASSUME UNCHANGED Queues, UNCHANGED <<bRun, portOpen>>
        PROVE  UNCHANGED Fifo!vars
    BY <1>1 DEF Fifo!vars, Phase, Numbers
  <1>2. (wpc # "done" => portOpen) /\ (wpc = "done" => ~bRun)
    BY DEF Closing, TypeOK
  <1>3. portOpen => Phase # "closed"
    BY DEF Phase
  <1>4. UNCHANGED <<bRun, portOpen>> => Phase' = Phase
    BY DEF Phase
  <1>5. UNCHANGED <<rcvList, delivered>> =>
           UNCHANGED <<Numbers(rcvList), Numbers(delivered)>>
    BY DEF Numbers
  <1>6. /\ delivered \in Seq(Seq(Tokens)) /\ rcvList \in Seq(Seq(Tokens))
        /\ \A i \in DOMAIN delivered : Started(delivered[i]) \in Nat
        /\ \A i \in DOMAIN rcvList : Started(rcvList[i]) \in Nat
    <2>1. /\ \A i \in DOMAIN delivered : Started(delivered[i]) \in 1 .. busFrames
          /\ \A i \in DOMAIN rcvList : Started(rcvList[i]) \in 1 .. busFrames
      BY ObtainedNumbers
    <2>2. \A n \in 1 .. busFrames : n \in Nat
      BY DEF TypeOK
    <2>3. delivered \in Seq(Seq(Tokens)) /\ rcvList \in Seq(Seq(Tokens))
      BY DEF TypeOK
    <2> QED
      BY <2>1, <2>2, <2>3
  <1>7. ASSUME NEW t \in Threads, NEW m \in Messages, WriteMsg(t, m)
        PROVE  Fifo!Send(m)
    BY <1>4, <1>5, <1>7 DEF WriteMsg, Fifo!Send
  <1>8. ASSUME NEW t \in Threads, ReadMsg(t) PROVE Fifo!Receive
    <2>1. /\ rcvList # <<>> /\ rcvList' = Tail(rcvList)
          /\ delivered' = Append(delivered, Head(rcvList))
          /\ UNCHANGED <<sndList, transmitted, bRun, portOpen>>
      BY <1>8 DEF ReadMsg
    <2>2. Head(rcvList) \in Seq(Tokens) /\ Head(rcvList) = rcvList[1]
          /\ 1 \in DOMAIN rcvList
      BY <1>6, <2>1
    <2>3. Numbers(Append(delivered, Head(rcvList)))
            = Append(Numbers(delivered), Started(Head(rcvList)))
      BY <1>6, <2>2, NumbersOfAppend
    <2>4. /\ Numbers(rcvList) # <<>>
          /\ Numbers(Tail(rcvList)) = Tail(Numbers(rcvList))
          /\ Head(Numbers(rcvList)) = Started(Head(rcvList))
      BY <1>6, <2>1, NumbersOfTail, NumbersOfQueue
    <2>5. /\ Numbers(delivered)' = Append(Numbers(delivered), Head(Numbers(rcvList)))
          /\ Numbers(rcvList)' = Tail(Numbers(rcvList))
      BY <2>1, <2>3, <2>4 DEF Numbers
    <2> QED
      BY <1>4, <2>1, <2>4, <2>5 DEF Fifo!Receive
  <1>9. ASSUME NEW t \in Threads,
               \/ \E n \in {1, 2} : SetFilter(t, n)
               \/ SetFilterGetsCode(t) \/ SetFilterPutsMask(t)
               \/ SetFilterDone(t) \/ CloseJoin(t)
        PROVE  UNCHANGED Fifo!vars
    BY <1>1, <1>9 DEF SetFilter, SetFilterGetsCode, SetFilterPutsMask,
       SetFilterDone, CloseJoin
  <1>10. ASSUME NEW t \in Threads, CloseExchange(t) PROVE Fifo!Shutdown
    BY <1>2, <1>5, <1>10 DEF CloseExchange, Fifo!Shutdown, Phase
  <1>11. ASSUME NEW t \in Threads, ClosePort(t) PROVE Fifo!Closed
    <2>1. ~bRun /\ portOpen
      BY <1>11 DEF Closing, ClosePort
    <2> QED
      BY <1>5, <1>11, <2>1 DEF ClosePort, Fifo!Closed, Phase
  <1>12. ASSUME WorkerLoop \/ WorkerLock \/ WorkerNoMessage \/ WorkerAck
                \/ WorkerAckNothing \/ WorkerPoll \/ BusFrame \/ UNCHANGED vars
         PROVE  UNCHANGED Fifo!vars
    BY <1>1, <1>12 DEF WorkerLoop, WorkerLock, WorkerNoMessage, WorkerAck,
       WorkerAckNothing, WorkerPoll, BusFrame, vars
  <1>13. ASSUME NEW c \in Tokens, ReceiveByte(c), portOpen,
                UNCHANGED <<sndList, transmitted, delivered, bRun, portOpen>>
         PROVE  Fifo!Next \/ UNCHANGED Fifo!vars
    <2>1. CASE UNCHANGED <<rcvList, rxFrames>>
      BY <1>1, <1>13, <2>1
    <2>2. CASE /\ rxState = "MSG" /\ c.k = "cr" /\ Len(rcvList) < MaxRcv
               /\ Translates(Append(receiveBuf, c))
               /\ rcvList' = Append(rcvList, Append(receiveBuf, c))
      <3> DEFINE buf == Append(receiveBuf, c)
      <3>1. receiveBuf \in Seq(Tokens) /\ buf \in Seq(Tokens)
        BY DEF TypeOK
      <3>2. Beginning /\ Started(buf) = receiveBuf[1].f
        BY <2>2, <3>1, FirstOfAppend DEF Translates, Beginning, Started
      <3>3. Started(buf) \in 1 .. MaxFrames
        <4>1. receiveBuf[1].f \in 1 .. busFrames
          BY <3>2 DEF Order, BufferLater
        <4>2. \A n \in 1 .. busFrames : n \in 1 .. MaxFrames
          BY BoundAssumption DEF BoundAssumption, TypeOK
        <4> QED
          BY <3>2, <4>1, <4>2
      <3>4. Numbers(rcvList)' = Append(Numbers(rcvList), Started(buf))
        <4>1. Numbers(Append(rcvList, buf)) = Append(Numbers(rcvList), Started(buf))
          <5>1. Started(buf) \in Nat
            BY <3>3
          <5> QED
            BY <1>6, <3>1, <5>1, NumbersOfAppend
        <4> QED
          BY <2>2, <4>1 DEF Numbers
      <3>5. /\ \A i \in DOMAIN Numbers(delivered) : Numbers(delivered)[i] < Started(buf)
            /\ \A i \in DOMAIN Numbers(rcvList) : Numbers(rcvList)[i] < Started(buf)
            /\ Len(Numbers(rcvList)) < MaxRcv
        BY <1>6, <2>2, <3>2, ObtainedNumbers, NumbersOfQueue
      <3>6. Fifo!Deliver(Started(buf))
        BY <1>3, <1>4, <1>5, <1>13, <3>4, <3>5 DEF Fifo!Deliver, Fifo!Later, Numbers
      <3> QED
        BY <3>3, <3>6 DEF Fifo!Next
    <2> QED
      BY <1>13, <2>1, <2>2, ReceiveByteQueue
  <1>14. ASSUME WorkerReceive \/ WorkerReceiveNothing
         PROVE  Fifo!Next \/ UNCHANGED Fifo!vars
    <2>1. /\ portOpen /\ UNCHANGED <<sndList, transmitted, delivered, bRun, portOpen>>
      BY <1>2, <1>14 DEF WorkerReceive, WorkerReceiveNothing
    <2>2. CASE WorkerReceive
      <3>1. Head(line) \in Tokens
        BY <2>2 DEF WorkerReceive, TypeOK
      <3> QED
        BY <1>13, <2>1, <2>2, <3>1 DEF WorkerReceive
    <2>3. CASE WorkerReceiveNothing
      BY <1>1, <1>13, <2>1, <2>3, TokensOnLine DEF WorkerReceiveNothing
    <2> QED
      BY <1>14, <2>2, <2>3
  <1>15. ASSUME WorkerTransmit PROVE Fifo!Transmit
    BY <1>2, <1>3, <1>4, <1>5, <1>15 DEF WorkerTransmit, Fifo!Transmit
  <1>16. \/ UNCHANGED vars \/ AtRest \/ BusFrame \/ WorkerStep
         \/ \E t \in Threads : BeginCall(t) \/ FinishCall(t)
    BY DEF Next
  <1>17. ASSUME NEW t \in Threads, BeginCall(t) \/ FinishCall(t)
         PROVE  Fifo!Next \/ UNCHANGED Fifo!vars
    BY <1>7, <1>8, <1>9, <1>10, <1>11, <1>17 DEF BeginCall, FinishCall, Fifo!Next
  <1>18. ASSUME WorkerStep PROVE Fifo!Next \/ UNCHANGED Fifo!vars
    BY <1>12, <1>14, <1>15, <1>18 DEF WorkerStep, Fifo!Next
  <1> QED
    BY <1>12, <1>16, <1>17, <1>18 DEF AtRest

\* An open CCAN232Obj is the abstract channel: with its worker, mutex, lost
\* answers and filter commands it does nothing a pair of bounded queues would
\* not do.
THEOREM ObjectImplementsFifo == Spec => ImplementsFifo
  <1>1. Control => Closing /\ TypeOK
    BY DEF Control
  <1> QED
    BY <1>1, ControlInit, ControlStep, OrderInit, OrderStep, FifoInit, FifoStep,
       PTL DEF Spec, Fifo!Spec, ImplementsFifo

----------------------------------------------------------------------------
(* Reception alone loses nothing.  LosslessReception does not say what is  *)
(* in the buffer: a message begun has one or two characters of its frame,  *)
(* so that the next character is the frame's next and the third ends it.   *)

\* Frame n stands whole at place i of s.
Stands(s, i, n) ==
  /\ i \in DOMAIN s /\ i + 2 <= Len(s)
  /\ s[i] = Frame(n)[1] /\ s[i + 1] = Frame(n)[2] /\ s[i + 2] = Frame(n)[3]

\* Frames a to b stand in s one after another, at the places at gives them.
Placed(at, a, b, s) ==
  /\ at \in [a .. b -> DOMAIN s]
  /\ \A n \in a .. b : Stands(s, at[n], n)
  /\ \A m, n \in a .. b : m < n => at[m] + 2 < at[n]
  /\ \A k \in DOMAIN s : s[k].f # 0 => \E n \in a .. b : k \in at[n] .. at[n] + 2

LEMMA FrameTokens ==
  ASSUME NEW n \in Nat
  PROVE  /\ Frame(n) \in Seq(Tokens) /\ Len(Frame(n)) = 3
         /\ Frame(n)[1] = [k |-> "head", f |-> n]
         /\ Frame(n)[2] = [k |-> "body", f |-> n]
         /\ Frame(n)[3] = [k |-> "cr", f |-> n]
  BY DEF Frame, Tokens, Kinds

LEMMA FrameStands ==
  ASSUME NEW n \in Nat, NEW a, a = Frame(n)
  PROVE  a \in Seq(Tokens) /\ Stands(a, 1, n) /\ \A k \in DOMAIN a : ~(k > 3)
  <1>1. a \in Seq(Tokens) /\ Len(a) = 3
    BY FrameTokens
  <1>2. DOMAIN a = 1 .. 3
    BY <1>1
  <1>3. Stands(a, 1, n)
    BY <1>1, <1>2 DEF Stands
  <1> QED
    BY <1>1, <1>2, <1>3

LEMMA WindowOfThree ==
  ASSUME NEW S, NEW s \in Seq(S), NEW i \in 1 .. Len(s), i + 2 <= Len(s)
  PROVE  LET w == SubSeq(s, i, i + 2) IN
           /\ w \in Seq(S) /\ Len(w) = 3
           /\ w[1] = s[i] /\ w[2] = s[i + 1] /\ w[3] = s[i + 2]
  OBVIOUS

LEMMA SameThree ==
  ASSUME NEW S, NEW u \in Seq(S), NEW v \in Seq(S), Len(u) = 3, Len(v) = 3,
         u[1] = v[1], u[2] = v[2], u[3] = v[3]
  PROVE  u = v
  OBVIOUS

LEMMA StandsWhole ==
  ASSUME NEW s \in Seq(Tokens), NEW i \in DOMAIN s, NEW n \in Nat
  PROVE  Stands(s, i, n) <=> i + 2 <= Len(s) /\ SubSeq(s, i, i + 2) = Frame(n)
  <1>1. /\ Frame(n) \in Seq(Tokens) /\ Len(Frame(n)) = 3
    BY FrameTokens
  <1>2. CASE i + 2 <= Len(s)
    <2> DEFINE w == SubSeq(s, i, i + 2)
    <2>1. /\ w \in Seq(Tokens) /\ Len(w) = 3
          /\ w[1] = s[i] /\ w[2] = s[i + 1] /\ w[3] = s[i + 2]
      BY <1>2, WindowOfThree
    <2>2. Stands(s, i, n) => w = Frame(n)
      BY <1>1, <2>1, SameThree DEF Stands
    <2>3. w = Frame(n) => Stands(s, i, n)
      BY <1>2, <2>1 DEF Stands
    <2> QED
      BY <1>2, <2>2, <2>3
  <1> QED
    BY <1>2 DEF Stands

LEMMA StandsInside ==
  ASSUME NEW s \in Seq(Tokens), NEW i, NEW n, Stands(s, i, n)
  PROVE  i \in DOMAIN s /\ i + 1 \in DOMAIN s /\ i + 2 \in DOMAIN s
  BY DEF Stands

LEMMA PlacedIsFramesAt ==
  ASSUME NEW s \in Seq(Tokens), NEW a \in Nat, NEW b \in Nat,
         NEW at \in [a .. b -> DOMAIN s]
  PROVE  Placed(at, a, b, s) <=> FramesAt(at, a .. b, s)
  <1>1. \A n \in a .. b : Stands(s, at[n], n) <=>
           at[n] + 2 <= Len(s) /\ SubSeq(s, at[n], at[n] + 2) = Frame(n)
    BY StandsWhole
  <1> QED
    BY <1>1, Zenon DEF Placed, FramesAt

\* Answers behind the frames change nothing.
LEMMA PlacedBeforeAnswer ==
  ASSUME NEW s \in Seq(Tokens), NEW t \in Seq(Tokens), NEW a \in Nat, NEW b \in Nat,
         NEW at, Placed(at, a, b, s), \A k \in DOMAIN t : t[k].f = 0
  PROVE  Placed(at, a, b, s \o t)
  <1> DEFINE u == s \o t
  <1>1. /\ u \in Seq(Tokens) /\ Len(u) = Len(s) + Len(t) /\ DOMAIN u = 1 .. Len(u)
        /\ DOMAIN s = 1 .. Len(s) /\ DOMAIN s \subseteq DOMAIN u
        /\ \A k \in DOMAIN s : u[k] = s[k]
        /\ \A k \in DOMAIN u : k \notin DOMAIN s =>
              k - Len(s) \in DOMAIN t /\ u[k] = t[k - Len(s)]
    OBVIOUS
  <1> HIDE DEF u
  <1>2. at \in [a .. b -> DOMAIN u]
    BY <1>1 DEF Placed
  <1>3. ASSUME NEW n \in a .. b PROVE Stands(u, at[n], n)
    <2>1. Stands(s, at[n], n)
      BY DEF Placed
    <2>2. at[n] \in DOMAIN s /\ at[n] + 1 \in DOMAIN s /\ at[n] + 2 \in DOMAIN s
      BY <2>1, StandsInside
    <2> QED
      BY <1>1, <2>1, <2>2 DEF Stands
  <1>4. ASSUME NEW k \in DOMAIN u, u[k].f # 0
        PROVE  \E n \in a .. b : k \in at[n] .. at[n] + 2
    <2>1. k \in DOMAIN s
      BY <1>1, <1>4
    <2> QED
      BY <1>1, <1>4, <2>1 DEF Placed
  <1> QED
    BY <1>2, <1>3, <1>4 DEF Placed, u

\* The next frame, alone or before an answer, takes the next place.
LEMMA PlacedBeforeFrame ==
  ASSUME NEW s \in Seq(Tokens), NEW t \in Seq(Tokens), NEW a \in Nat, NEW b \in Nat,
         a <= b + 1, NEW at, Placed(at, a, b, s), Stands(t, 1, b + 1),
         \A k \in DOMAIN t : k > 3 => t[k].f = 0
  PROVE  \E new : Placed(new, a, b + 1, s \o t)
  <1> DEFINE u == s \o t
             new == [n \in a .. b + 1 |-> IF n = b + 1 THEN Len(s) + 1 ELSE at[n]]
  <1>1. /\ u \in Seq(Tokens) /\ Len(u) = Len(s) + Len(t) /\ DOMAIN u = 1 .. Len(u)
        /\ DOMAIN s = 1 .. Len(s) /\ DOMAIN s \subseteq DOMAIN u /\ Len(s) \in Nat
        /\ \A k \in DOMAIN s : u[k] = s[k]
        /\ \A k \in DOMAIN t : k + Len(s) \in DOMAIN u /\ u[k + Len(s)] = t[k]
        /\ \A k \in DOMAIN u : k \notin DOMAIN s =>
              k - Len(s) \in DOMAIN t /\ u[k] = t[k - Len(s)]
    OBVIOUS
  <1>2. 3 <= Len(t) /\ 1 \in DOMAIN t /\ 2 \in DOMAIN t /\ 3 \in DOMAIN t
        /\ DOMAIN t = 1 .. Len(t)
    BY DEF Stands
  <1>3. /\ new[b + 1] = Len(s) + 1 /\ b + 1 \in a .. b + 1
        /\ \A n \in a .. b : new[n] = at[n] /\ n \in a .. b + 1
        /\ \A n \in a .. b + 1 : n = b + 1 \/ n \in a .. b
    OBVIOUS
  <1>4. \A n \in a .. b : at[n] \in DOMAIN s /\ at[n] + 2 <= Len(s)
    BY DEF Placed, Stands
  <1>5. new \in [a .. b + 1 -> DOMAIN u]
    <2>1. Len(s) + 1 \in DOMAIN u
      BY <1>1, <1>2
    <2> QED
      BY <1>1, <1>3, <1>4, <2>1
  <1> HIDE DEF u, new
  <1>6. ASSUME NEW n \in a .. b + 1 PROVE Stands(u, new[n], n)
    <2>1. CASE n = b + 1
      <3>1. 1 + Len(s) = Len(s) + 1 /\ 2 + Len(s) = Len(s) + 2 /\ 3 + Len(s) = Len(s) + 3
        BY <1>1
      <3>2. /\ u[Len(s) + 1] = t[1] /\ u[Len(s) + 2] = t[2] /\ u[Len(s) + 3] = t[3]
            /\ Len(s) + 1 \in DOMAIN u /\ Len(s) + 1 + 2 <= Len(u)
            /\ Len(s) + 1 + 1 = Len(s) + 2 /\ Len(s) + 1 + 2 = Len(s) + 3
        BY <1>1, <1>2, <3>1, SMTT(30)
      <3> QED
        BY <1>3, <2>1, <3>2 DEF Stands
    <2>2. CASE n \in a .. b
      <3>1. Stands(s, at[n], n)
        BY <2>2 DEF Placed
      <3>2. at[n] \in DOMAIN s /\ at[n] + 1 \in DOMAIN s /\ at[n] + 2 \in DOMAIN s
        BY <3>1, StandsInside
      <3>3. u[at[n]] = s[at[n]] /\ u[at[n] + 1] = s[at[n] + 1] /\ u[at[n] + 2] = s[at[n] + 2]
        BY <1>1, <3>2
      <3>4. new[n] = at[n] /\ at[n] \in DOMAIN u /\ at[n] + 2 <= Len(u)
        BY <1>1, <1>3, <2>2, <3>2
      <3> QED
        BY <3>1, <3>3, <3>4 DEF Stands
    <2> QED
      BY <1>3, <2>1, <2>2
  <1>7. ASSUME NEW m \in a .. b + 1, NEW n \in a .. b + 1, m < n
        PROVE  new[m] + 2 < new[n]
    <2>1. m \in a .. b
      BY <1>7
    <2>2. CASE n = b + 1
      BY <1>1, <1>3, <1>4, <2>1, <2>2
    <2>3. CASE n \in a .. b
      BY <1>3, <1>7, <2>1, <2>3 DEF Placed
    <2> QED
      BY <1>3, <2>2, <2>3
  <1>8. ASSUME NEW k \in DOMAIN u, u[k].f # 0
        PROVE  \E n \in a .. b + 1 : k \in new[n] .. new[n] + 2
    <2>1. CASE k \in DOMAIN s
      <3>1. \E n \in a .. b : k \in at[n] .. at[n] + 2
        BY <1>1, <1>8, <2>1 DEF Placed
      <3> QED
        BY <1>3, <3>1
    <2>2. CASE k \notin DOMAIN s
      <3>1. k - Len(s) \in 1 .. 3
        BY <1>1, <1>2, <1>8, <2>2
      <3>2. k \in Len(s) + 1 .. Len(s) + 1 + 2
        BY <1>1, <3>1
      <3> QED
        BY <1>3, <3>2
    <2> QED
      BY <2>1, <2>2
  <1> QED
    BY <1>5, <1>6, <1>7, <1>8 DEF Placed, u

\* A bus character at the front belongs to the first frame and begins it.
LEMMA FirstFrameFirst ==
  ASSUME NEW s \in Seq(Tokens), NEW a \in Nat, NEW b \in Nat, NEW at,
         Placed(at, a, b, s), s # <<>>, s[1].f # 0
  PROVE  a <= b /\ at[a] = 1 /\ Stands(s, 1, a)
  <1>1. 1 \in DOMAIN s
    OBVIOUS
  <1>2. PICK n \in a .. b : 1 \in at[n] .. at[n] + 2
    BY <1>1 DEF Placed
  <1>3. a \in a .. b /\ at[n] \in Nat \ {0} /\ at[a] \in Nat \ {0}
    <2>1. a \in a .. b /\ DOMAIN s = 1 .. Len(s)
      BY <1>2
    <2> QED
      BY <1>2, <2>1 DEF Placed
  <1>4. at[n] = 1
    BY <1>2, <1>3
  <1>5. n = a
    BY <1>3, <1>4 DEF Placed
  <1> QED
    BY <1>3, <1>4, <1>5 DEF Placed

LEMMA ShiftThree ==
  ASSUME NEW l \in Nat, NEW i \in 1 .. l, NEW d \in Nat, i + 2 <= l
  PROVE  /\ i + d \in Nat /\ i + d + 1 \in Nat /\ i + d + 2 \in Nat
         /\ i + d + 1 = i + 1 + d /\ i + d + 2 = i + 2 + d
         /\ i + 1 \in 1 .. l /\ i + 2 \in 1 .. l
  OBVIOUS

\* When d characters in front go, none of a frame behind, the places move down.
LEMMA PlacedMoves ==
  ASSUME NEW s \in Seq(Tokens), NEW t \in Seq(Tokens), NEW a \in Nat, NEW c \in Nat,
         NEW b \in Nat, a <= c, NEW at, Placed(at, a, b, s),
         NEW d \in Nat, Len(s) = Len(t) + d,
         \A k \in DOMAIN t : t[k] = s[k + d],
         \A n \in c .. b : at[n] > d,
         \A n \in a .. b : n < c => at[n] + 2 <= d
  PROVE  \E new : Placed(new, c, b, t)
  <1> DEFINE new == [n \in c .. b |-> at[n] - d]
  <1>1. /\ DOMAIN s = 1 .. Len(s) /\ DOMAIN t = 1 .. Len(t)
        /\ Len(s) \in Nat /\ Len(t) \in Nat
    OBVIOUS
  <1>2. \A n \in c .. b : new[n] = at[n] - d
    OBVIOUS
  <1>3. DOMAIN new = c .. b
    OBVIOUS
  <1> HIDE DEF new
  <1>4. ASSUME NEW n \in c .. b
        PROVE  /\ n \in a .. b /\ at[n] \in Nat /\ new[n] \in Nat
               /\ at[n] = new[n] + d /\ at[n] + 2 <= Len(s)
               /\ new[n] \in DOMAIN t /\ new[n] + 2 <= Len(t)
    <2>1. n \in a .. b /\ at[n] > d
      OBVIOUS
    <2>2. at[n] \in DOMAIN s /\ at[n] + 2 <= Len(s)
      BY <2>1 DEF Placed, Stands
    <2>3. at[n] \in Nat /\ new[n] = at[n] - d
      BY <1>1, <1>2, <2>2
    <2> QED
      BY <1>1, <2>1, <2>2, <2>3
  <1>5. new \in [c .. b -> DOMAIN t]
    <2> SUFFICES new = [n \in c .. b |-> new[n]]
      BY <1>4
    <2> QED
      BY <1>3 DEF new
  <1>6. \A k \in DOMAIN t, j \in Nat : j = k + d => t[k] = s[j]
    OBVIOUS
  <1>7. ASSUME NEW n \in c .. b PROVE Stands(t, new[n], n)
    <2>1. Stands(s, at[n], n)
      BY <1>4 DEF Placed
    <2>2. /\ new[n] \in DOMAIN t /\ new[n] + 1 \in DOMAIN t /\ new[n] + 2 \in DOMAIN t
          /\ at[n] = new[n] + d /\ at[n] + 1 = new[n] + 1 + d
          /\ at[n] + 2 = new[n] + 2 + d
          /\ at[n] \in Nat /\ at[n] + 1 \in Nat /\ at[n] + 2 \in Nat
      <3>1. /\ new[n] \in Nat /\ new[n] \in DOMAIN t /\ new[n] + 2 <= Len(t)
            /\ at[n] = new[n] + d
        BY <1>4
      <3>2. new[n] \in 1 .. Len(t) /\ Len(t) \in Nat /\ d \in Nat
        BY <1>1, <3>1
      <3>3. /\ new[n] + d \in Nat /\ new[n] + d + 1 \in Nat /\ new[n] + d + 2 \in Nat
            /\ new[n] + d + 1 = new[n] + 1 + d /\ new[n] + d + 2 = new[n] + 2 + d
            /\ new[n] + 1 \in 1 .. Len(t) /\ new[n] + 2 \in 1 .. Len(t)
        BY <3>1, <3>2, ShiftThree, Zenon
      <3> QED
        BY <1>1, <3>1, <3>3, Zenon
    <2>3. /\ t[new[n]] = s[at[n]] /\ t[new[n] + 1] = s[at[n] + 1]
          /\ t[new[n] + 2] = s[at[n] + 2]
      BY <1>6, <2>2, Zenon
    <2> QED
      BY <1>4, <2>1, <2>3 DEF Stands
  <1>8. ASSUME NEW m \in c .. b, NEW n \in c .. b, m < n
        PROVE  new[m] + 2 < new[n]
    <2>1. at[m] + 2 < at[n]
      BY <1>4, <1>8 DEF Placed
    <2> DEFINE i == new[m]
               j == new[n]
    <2>2. i \in Nat /\ j \in Nat /\ i + d + 2 < j + d
      BY <1>4, <2>1
    <2> HIDE DEF i, j
    <2>3. i + 2 < j
      BY <2>2
    <2> QED
      BY <2>3 DEF i, j
  <1>9. ASSUME NEW k \in DOMAIN t, t[k].f # 0
        PROVE  \E n \in c .. b : k \in new[n] .. new[n] + 2
    <2>1. k + d \in DOMAIN s /\ s[k + d].f # 0
      BY <1>1, <1>9
    <2>2. PICK n \in a .. b : k + d \in at[n] .. at[n] + 2
      BY <2>1 DEF Placed
    <2>3. n \in c .. b
      BY <1>1, <2>2 DEF Placed
    <2>4. at[n] = new[n] + d /\ new[n] \in Nat
      BY <1>4, <2>3
    <2>5. k \in new[n] .. new[n] + 2
      BY <1>1, <2>2, <2>4
    <2> QED
      BY <2>3, <2>5
  <1> QED
    BY <1>5, <1>7, <1>8, <1>9 DEF Placed

\* A character in front that is no frame's leaves the frames in place.
LEMMA PlacedBehindAnswer ==
  ASSUME NEW s \in Seq(Tokens), NEW a \in Nat \ {0}, NEW b \in Nat, NEW at,
         Placed(at, a, b, s), s # <<>>, s[1].f = 0
  PROVE  \E new : Placed(new, a, b, Tail(s))
  <1>1. /\ Tail(s) \in Seq(Tokens) /\ Len(s) = Len(Tail(s)) + 1
        /\ \A k \in DOMAIN Tail(s) : Tail(s)[k] = s[k + 1]
    OBVIOUS
  <1>2. ASSUME NEW n \in a .. b PROVE at[n] > 1
    <2>1. Stands(s, at[n], n) /\ at[n] \in DOMAIN s /\ n \in Nat \ {0}
      BY DEF Placed
    <2>2. Frame(n)[1] = [k |-> "head", f |-> n] /\ s[at[n]] = Frame(n)[1]
      BY <2>1, FrameTokens DEF Stands
    <2>3. at[n] # 1
      BY <2>1, <2>2
    <2> QED
      BY <2>1, <2>3
  <1>3. \A n \in a .. b : ~(n < a)
    OBVIOUS
  <1> QED
    <2>1. a \in Nat /\ a <= a /\ 1 \in Nat
      OBVIOUS
    <2> QED
      BY <1>1, <1>2, <1>3, <2>1, PlacedMoves

\* The first frame leaves; those behind it move to the front.
LEMMA PlacedBehindFrame ==
  ASSUME NEW s \in Seq(Tokens), NEW t \in Seq(Tokens), NEW a \in Nat \ {0},
         NEW b \in Nat, NEW at, Placed(at, a, b, s), a <= b, at[a] = 1,
         Len(s) = Len(t) + 3, \A k \in DOMAIN t : t[k] = s[k + 3]
  PROVE  \E new : Placed(new, a + 1, b, t)
  <1>1. ASSUME NEW n \in a + 1 .. b PROVE at[n] > 3
    <2>1. a \in a .. b /\ n \in a .. b /\ a < n
      OBVIOUS
    <2>2. at[a] + 2 < at[n] /\ at[n] \in DOMAIN s
      BY <2>1 DEF Placed
    <2> QED
      BY <2>2
  <1>2. \A n \in a .. b : n < a + 1 => at[n] + 2 <= 3
    <2> SUFFICES ASSUME NEW n \in a .. b, n < a + 1 PROVE at[n] + 2 <= 3
      OBVIOUS
    <2>1. n = a
      OBVIOUS
    <2> QED
      BY <2>1
  <1>3. a \in Nat /\ a + 1 \in Nat /\ a <= a + 1 /\ 3 \in Nat
    OBVIOUS
  <1> QED
    BY <1>1, <1>2, <1>3, PlacedMoves

Undisturbed ==
  portOpen /\ transmitted = <<>> /\ commands = 0 /\ MaxFrames <= MaxRcv

\* A message begun is its frame's first one or two characters.
Begun ==
  rxState = "MSG" =>
    \E x, y \in Tokens : x.f # 0 /\ receiveBuf \in {<<x>>, <<x, y>>}

FirstFrames == \A i \in DOMAIN Obtained : i <= busFrames /\ Obtained[i] = Frame(i)
Following == \E at : Placed(at, Len(Obtained) + 1, busFrames, Coming)

Lossless ==
  /\ \A t \in Threads : tpc[t] \in {"gets2", "puts", "gets1"} => commands > 0
  /\ Undisturbed => Begun /\ FirstFrames /\ Following

LEMMA SequencesTyped ==
  ASSUME TypeOK
  PROVE  /\ Obtained \in Seq(Seq(Tokens)) /\ Coming \in Seq(Tokens)
         /\ InMessage \in Seq(Tokens) /\ line \in Seq(Tokens)
         /\ Len(Obtained) \in Nat /\ busFrames \in Nat
         /\ Len(Obtained) = Len(delivered) + Len(rcvList)
         /\ DOMAIN Obtained = 1 .. Len(Obtained)
  BY DEF TypeOK, Obtained, Coming, InMessage

LEMMA LosslessImplies == TypeOK /\ Lossless => LosslessReception
  <1> SUFFICES ASSUME TypeOK, Lossless, Undisturbed
               PROVE  /\ FirstFrames
                      /\ \E at \in [Expected -> DOMAIN Coming] :
                            FramesAt(at, Expected, Coming)
    BY DEF LosslessReception, Undisturbed, FirstFrames
  <1>1. PICK at : Placed(at, Len(Obtained) + 1, busFrames, Coming)
    BY DEF Lossless, Following
  <1>2. at \in [Expected -> DOMAIN Coming]
    BY <1>1 DEF Placed, Expected
  <1>3. FramesAt(at, Expected, Coming)
    <2>1. /\ Len(Obtained) + 1 \in Nat /\ busFrames \in Nat /\ Coming \in Seq(Tokens)
          /\ at \in [Len(Obtained) + 1 .. busFrames -> DOMAIN Coming]
      BY <1>2, SequencesTyped DEF Expected
    <2> QED
      BY <1>1, <2>1, PlacedIsFramesAt DEF Expected
  <1> QED
    BY <1>2, <1>3 DEF Lossless

LEMMA LosslessInit == Init => Lossless
  <1> SUFFICES ASSUME Init PROVE Lossless
    OBVIOUS
  <1>1. /\ Obtained = <<>> /\ Coming = <<>> /\ busFrames = 0 /\ rxState = "NONE"
        /\ \A t \in Threads : tpc[t] = "idle"
    BY DEF Init, Obtained, Coming, InMessage
  <1>2. Placed([n \in {} |-> 0], 1, 0, <<>>)
    <2>1. 1 .. 0 = {} /\ DOMAIN <<>> = {}
      OBVIOUS
    <2> QED
      BY <2>1, Zenon DEF Placed
  <1>3. Len(<<>>) + 1 = 1 /\ DOMAIN <<>> = {}
    OBVIOUS
  <1> QED
    BY <1>1, <1>2, <1>3 DEF Lossless, Begun, FirstFrames, Following

\* What comes from the adapter goes behind what is coming.
LEMMA ComingGrows ==
  ASSUME TypeOK, NEW a \in Seq(Tokens), line' = line \o a,
         UNCHANGED <<rxState, receiveBuf>>
  PROVE  Coming' = Coming \o a
  <1>1. InMessage' = InMessage /\ InMessage \in Seq(Tokens) /\ line \in Seq(Tokens)
    BY SequencesTyped DEF InMessage
  <1>2. InMessage \o (line \o a) = (InMessage \o line) \o a
    BY <1>1
  <1> QED
    BY <1>1, <1>2 DEF Coming

LEMMA CommandKeepsFrames ==
  ASSUME TypeOK, Command, Begun, FirstFrames, Following,
         UNCHANGED <<Obtained, rxState, receiveBuf>>
  PROVE  Begun' /\ FirstFrames' /\ Following'
  <1>1. busFrames' = busFrames
    BY DEF Command
  <1>2. Begun' /\ FirstFrames'
    BY <1>1 DEF Begun, FirstFrames
  <1>3. /\ <<>> \in Seq(Tokens) /\ line \o <<>> = line
        /\ <<Cr>> \in Seq(Tokens) /\ <<Other>> \in Seq(Tokens)
    BY DEF TypeOK, Tokens, Kinds, Cr, Other
  <1>4. PICK a \in {<<>>, <<Cr>>, <<Other>>} : line' = line \o a
    BY <1>3 DEF Command, Answered, Acks
  <1>5. \A k \in DOMAIN a : a[k].f = 0
    BY <1>4 DEF Cr, Other
  <1>6. a \in Seq(Tokens) /\ Coming' = Coming \o a
    BY <1>3, <1>4, ComingGrows
  <1>7. PICK at : Placed(at, Len(Obtained) + 1, busFrames, Coming)
    BY DEF Following
  <1>8. Placed(at, Len(Obtained) + 1, busFrames, Coming \o a)
    BY <1>5, <1>6, <1>7, SequencesTyped, PlacedBeforeAnswer
  <1> QED
    BY <1>1, <1>2, <1>6, <1>8 DEF Following

LEMMA NextFrameFollows ==
  ASSUME TypeOK, Begun, FirstFrames, Following,
         UNCHANGED <<Obtained, rxState, receiveBuf>>,
         busFrames' = busFrames + 1,
         \/ line' = line \o Frame(busFrames + 1)
         \/ line' = line \o Frame(busFrames + 1) \o <<Other, Cr>>
  PROVE  Begun' /\ FirstFrames' /\ Following'
  <1> DEFINE n == busFrames + 1
             long == Frame(n) \o <<Other, Cr>>
  <1>1. n \in Nat /\ line \in Seq(Tokens) /\ busFrames \in Nat
    BY DEF TypeOK
  <1>2. Frame(n) \in Seq(Tokens) /\ <<Other, Cr>> \in Seq(Tokens)
    BY <1>1, TokensOnLine
  <1>3. line \o Frame(n) \o <<Other, Cr>> = line \o long
    BY <1>1, <1>2, SMTT(30)
  <1>4. PICK a \in {Frame(n), long} : line' = line \o a
    BY <1>3
  <1>5. a \in Seq(Tokens) /\ Stands(a, 1, n) /\ \A k \in DOMAIN a : k > 3 => a[k].f = 0
    <2>1. CASE a = Frame(n)
      BY <2>1, FrameStands, <1>1
    <2>2. CASE a = long
      <3>1. /\ [k |-> "head", f |-> n] \in Tokens /\ [k |-> "body", f |-> n] \in Tokens
            /\ [k |-> "cr", f |-> n] \in Tokens /\ Other \in Tokens /\ Cr \in Tokens
        BY <1>1 DEF Tokens, Kinds, Other, Cr
      <3>2. /\ a \in Seq(Tokens) /\ DOMAIN a = 1 .. 5
            /\ a[1] = [k |-> "head", f |-> n] /\ a[2] = [k |-> "body", f |-> n]
            /\ a[3] = [k |-> "cr", f |-> n] /\ a[4] = Other /\ a[5] = Cr
        BY <2>2, <3>1, ThreeAndTwo DEF Frame
      <3>3. Len(a) = 5
        BY <3>2
      <3>4. \A k \in 1 .. 5 : k > 3 => k = 4 \/ k = 5
        OBVIOUS
      <3>5. \A k \in DOMAIN a : k > 3 => a[k].f = 0
        BY <3>2, <3>4 DEF Other, Cr
      <3>6. Stands(a, 1, n)
        BY <1>1, <3>2, <3>3, FrameTokens DEF Stands
      <3> QED
        BY <3>2, <3>5, <3>6
    <2> QED
      BY <1>4, <2>1, <2>2
  <1>6. Coming' = Coming \o a
    BY <1>4, <1>5, ComingGrows
  <1>7. Len(Obtained) <= busFrames
    <2>1. CASE Len(Obtained) = 0
      BY <1>1, <2>1
    <2>2. CASE Len(Obtained) # 0
      <3>1. Len(Obtained) \in DOMAIN Obtained
        BY <2>2, SequencesTyped
      <3> QED
        BY <3>1 DEF FirstFrames
    <2> QED
      BY <2>1, <2>2
  <1>8. PICK at : Placed(at, Len(Obtained) + 1, busFrames, Coming)
    BY DEF Following
  <1>9. \E new : Placed(new, Len(Obtained) + 1, busFrames + 1, Coming \o a)
    <2>1. Len(Obtained) + 1 \in Nat /\ Len(Obtained) + 1 <= busFrames + 1
      BY <1>7, SequencesTyped
    <2> QED
      BY <1>5, <1>8, <2>1, SequencesTyped, PlacedBeforeFrame
  <1>10. Following'
    BY <1>6, <1>9 DEF Following
  <1>11. Begun' /\ FirstFrames'
    <2>1. ASSUME NEW i \in DOMAIN Obtained PROVE i <= busFrames + 1
      BY SequencesTyped DEF FirstFrames
    <2> QED
      BY <2>1 DEF Begun, FirstFrames
  <1> QED
    BY <1>10, <1>11

LEMMA MoveFirst ==
  ASSUME NEW u \in Seq(Tokens), NEW v \in Seq(Tokens), v # <<>>
  PROVE  /\ Append(u, v[1]) \o Tail(v) = u \o v
         /\ \A k \in DOMAIN Tail(v) : Tail(v)[k] = (u \o v)[k + Len(u) + 1]
  <1>1. Tail(v) \in Seq(Tokens) /\ v[1] \in Tokens /\ Len(Tail(v)) = Len(v) - 1
    OBVIOUS
  <1>2. Append(u, v[1]) \o Tail(v) = u \o v
    BY <1>1, SMTT(30)
  <1>3. \A k \in DOMAIN Tail(v) : Tail(v)[k] = (u \o v)[k + Len(u) + 1]
    OBVIOUS
  <1> QED
    BY <1>2, <1>3

LEMMA AppendToTuple ==
  ASSUME NEW S, NEW x \in S, NEW y \in S, NEW z \in S
  PROVE  Append(<<x>>, z) = <<x, z>> /\ Append(<<x, y>>, z) = <<x, y, z>>
  <1>1. Append(<<x>>, z) = <<x, z>>
    <2>1. /\ Append(<<x>>, z) \in Seq(S) /\ <<x, z>> \in Seq(S)
          /\ Len(Append(<<x>>, z)) = 2 /\ Len(<<x, z>>) = 2
      OBVIOUS
    <2>2. Append(<<x>>, z)[1] = x /\ Append(<<x>>, z)[2] = z
      OBVIOUS
    <2>3. \A i \in 1 .. 2 : Append(<<x>>, z)[i] = <<x, z>>[i]
      BY <2>2
    <2> QED
      BY <2>1, <2>3, SeqEqual, Zenon
  <1>2. Append(<<x, y>>, z) = <<x, y, z>>
    <2>1. /\ Append(<<x, y>>, z) \in Seq(S) /\ <<x, y, z>> \in Seq(S)
          /\ Len(Append(<<x, y>>, z)) = 3 /\ Len(<<x, y, z>>) = 3
      OBVIOUS
    <2>2. /\ Append(<<x, y>>, z)[1] = x /\ Append(<<x, y>>, z)[2] = y
          /\ Append(<<x, y>>, z)[3] = z
      OBVIOUS
    <2> QED
      BY <2>1, <2>2, SameThree
  <1> QED
    BY <1>1, <1>2

\* One more character after one or two of a message.
LEMMA OneAndMore ==
  ASSUME NEW x \in Tokens, NEW v \in Seq(Tokens), v # <<>>
  PROVE  /\ <<x>> \o v \in Seq(Tokens) /\ <<x>> \o v # <<>>
         /\ (<<x>> \o v)[1] = x /\ (<<x>> \o v)[2] = v[1]
         /\ Append(<<x>>, v[1]) = <<x, v[1]>> /\ v[1] \in Tokens
         /\ <<x, v[1]>> \o Tail(v) = <<x>> \o v
  <1>1. /\ <<x>> \in Seq(Tokens) /\ v[1] \in Tokens /\ <<x, v[1]>> \in Seq(Tokens)
        /\ Tail(v) \in Seq(Tokens) /\ Len(v) > 0 /\ v = <<v[1]>> \o Tail(v)
    OBVIOUS
  <1>2. /\ <<x>> \o v \in Seq(Tokens)
        /\ (<<x>> \o v)[1] = x /\ (<<x>> \o v)[2] = v[1]
    BY <1>1
  <1>3. <<x>> \o v # <<>>
    BY <1>1
  <1>4. Append(<<x>>, v[1]) = <<x, v[1]>>
    BY <1>1, AppendToTuple, Zenon
  <1>5. <<x, v[1]>> \o Tail(v) = <<x>> \o v
    BY <1>1, <1>4, MoveFirst, Zenon
  <1> QED
    BY <1>1, <1>2, <1>3, <1>4, <1>5

LEMMA TwoAndMore ==
  ASSUME NEW x \in Tokens, NEW y \in Tokens, NEW v \in Seq(Tokens), v # <<>>
  PROVE  /\ <<x, y>> \o v \in Seq(Tokens) /\ <<x, y>> \o v # <<>>
         /\ (<<x, y>> \o v)[1] = x /\ (<<x, y>> \o v)[2] = y
         /\ (<<x, y>> \o v)[3] = v[1]
         /\ Append(<<x, y>>, v[1]) = <<x, y, v[1]>> /\ v[1] \in Tokens
         /\ Tail(v) \in Seq(Tokens) /\ Len(<<x, y>> \o v) = Len(Tail(v)) + 3
         /\ \A k \in DOMAIN Tail(v) : Tail(v)[k] = (<<x, y>> \o v)[k + 3]
  <1>1. /\ <<x, y>> \in Seq(Tokens) /\ v[1] \in Tokens
        /\ Tail(v) \in Seq(Tokens) /\ Len(v) > 0 /\ Len(Tail(v)) = Len(v) - 1
    OBVIOUS
  <1>2. /\ <<x, y>> \o v \in Seq(Tokens)
        /\ (<<x, y>> \o v)[1] = x /\ (<<x, y>> \o v)[2] = y
        /\ (<<x, y>> \o v)[3] = v[1]
    BY <1>1
  <1>3. <<x, y>> \o v # <<>>
    BY <1>1
  <1>4. Append(<<x, y>>, v[1]) = <<x, y, v[1]>>
    BY <1>1, AppendToTuple, Zenon
  <1>5. Len(<<x, y>> \o v) = Len(Tail(v)) + 3
    BY <1>1
  <1>6. \A k \in DOMAIN Tail(v) : Tail(v)[k] = (<<x, y>> \o v)[k + 3]
    <2> DEFINE w == <<x, y>>
    <2>1. \A k \in DOMAIN Tail(v) : Tail(v)[k] = (w \o v)[k + Len(w) + 1]
      BY <1>1, MoveFirst, Zenon
    <2>2. \A k \in DOMAIN Tail(v) : k + Len(w) + 1 = k + 3
      BY <1>1
    <2> QED
      BY <2>1, <2>2, Zenon
  <1> QED
    BY <1>1, <1>2, <1>3, <1>4, <1>5, <1>6

\* A character read between messages begins one, or is no frame's.
LEMMA ReceiveBetween ==
  ASSUME TypeOK, Order, Undisturbed, Begun, FirstFrames, Following,
         rxState = "NONE", line # <<>>, line' = Tail(line),
         ReceiveByte(line[1]), UNCHANGED <<delivered, busFrames>>
  PROVE  Begun' /\ FirstFrames' /\ Following'
  <1> DEFINE c == line[1]
             a == Len(Obtained) + 1
  <1>1. /\ line \in Seq(Tokens) /\ c \in Tokens /\ c.f \in Nat
        /\ busFrames \in Nat /\ a \in Nat \ {0}
    <2>1. line \in Seq(Tokens) /\ c \in Tokens
      BY DEF TypeOK
    <2> QED
      BY <2>1, SequencesTyped DEF Tokens
  <1>2. Coming = line
    BY <1>1 DEF Coming, InMessage
  <1>3. PICK at : Placed(at, a, busFrames, line)
    BY <1>2 DEF Following
  <1>4. UNCHANGED rcvList /\ Obtained' = Obtained
    BY DEF ReceiveByte, rx, Obtained
  <1>5. FirstFrames'
    BY <1>4 DEF FirstFrames
  <1>6. CASE c.k = "head"
    <2>1. rxState' = "MSG" /\ receiveBuf' = <<c>>
      BY <1>6 DEF ReceiveByte
    <2>2. c.f # 0
      <3>1. 1 \in DOMAIN line
        BY <1>1
      <3> QED
        BY <1>6, <3>1 DEF Order, LineLater
    <2>3. Begun'
      <3>1. receiveBuf' \in {<<c>>, <<c, c>>}
        BY <2>1
      <3> QED
        BY <1>1, <2>2, <3>1 DEF Begun
    <2>4. Coming' = line
      BY <1>1, <2>1 DEF Coming, InMessage
    <2>5. Following'
      BY <1>3, <1>4, <2>4 DEF Following
    <2> QED
      BY <1>5, <2>3, <2>5
  <1>7. CASE c.k # "head"
    <2>1. UNCHANGED <<rxState, receiveBuf>>
      BY <1>7 DEF ReceiveByte, rx
    <2>2. c.f = 0
      <3> SUFFICES ASSUME c.f # 0 PROVE FALSE
        OBVIOUS
      <3>1. Stands(line, 1, a)
        BY <1>1, <1>3, FirstFrameFirst
      <3>2. Frame(a)[1] = [k |-> "head", f |-> a]
        BY <1>1, FrameTokens
      <3> QED
        BY <1>7, <3>1, <3>2 DEF Stands
    <2>3. \E new : Placed(new, a, busFrames, Tail(line))
      BY <1>1, <1>3, <2>2, PlacedBehindAnswer
    <2>4. Coming' = Tail(line)
      BY <1>1, <2>1 DEF Coming, InMessage
    <2>5. Following'
      BY <1>4, <2>3, <2>4 DEF Following
    <2> QED
      BY <1>5, <2>1, <2>5 DEF Begun
  <1> QED
    BY <1>6, <1>7

\* The buffer holds a frame but for its CR, which is not stored.
HoldsFrame == BufSize >= 2

\* The worker takes the next character off the line.
ReadsNext ==
  /\ line # <<>> /\ line' = Tail(line) /\ ReceiveByte(line[1])
  /\ UNCHANGED <<delivered, busFrames>>

\* A character read inside a message is the next one of its frame; the last
\* one finds room in the queue.
LEMMA ReceiveInside ==
  ASSUME TypeOK, Undisturbed, Begun, FirstFrames, Following, HoldsFrame,
         rxState = "MSG", ReadsNext
  PROVE  Begun' /\ FirstFrames' /\ Following'
  <1> DEFINE c == line[1]
             a == Len(Obtained) + 1
  <1>1. /\ line \in Seq(Tokens) /\ line # <<>> /\ Tail(line) \in Seq(Tokens)
        /\ a \in Nat \ {0} /\ busFrames \in Nat
        /\ Obtained \in Seq(Seq(Tokens)) /\ DOMAIN Obtained = 1 .. Len(Obtained)
    <2>1. line \in Seq(Tokens) /\ line # <<>>
      BY DEF TypeOK, ReadsNext
    <2> QED
      BY <2>1, SequencesTyped
  <1>2. PICK x \in Tokens, y \in Tokens :
           x.f # 0 /\ receiveBuf \in {<<x>>, <<x, y>>}
    BY DEF Begun
  <1>3. Coming = receiveBuf \o line
    BY DEF Coming, InMessage
  <1>4. PICK at : Placed(at, a, busFrames, Coming)
    BY DEF Following
  <1>5. ASSUME Coming \in Seq(Tokens), Coming # <<>>, Coming[1] = x
        PROVE  /\ a <= busFrames /\ at[a] = 1
               /\ Coming[1] = Frame(a)[1] /\ Coming[2] = Frame(a)[2]
               /\ Coming[3] = Frame(a)[3]
    <2>1. a <= busFrames /\ at[a] = 1 /\ Stands(Coming, 1, a)
      BY <1>1, <1>2, <1>4, <1>5, FirstFrameFirst
    <2> QED
      BY <2>1 DEF Stands
  <1>6. /\ Frame(a) = <<[k |-> "head", f |-> a], [k |-> "body", f |-> a],
                        [k |-> "cr", f |-> a]>>
        /\ Frame(a) \in Seq(Tokens)
    BY <1>1, FrameTokens DEF Frame
  <1>7. CASE receiveBuf = <<x>>
    <2>1. /\ Coming \in Seq(Tokens) /\ Coming # <<>> /\ Coming[1] = x /\ Coming[2] = c
          /\ Append(receiveBuf, c) = <<x, c>> /\ c \in Tokens
          /\ <<x, c>> \o Tail(line) = Coming
      BY <1>1, <1>3, <1>7, OneAndMore
    <2>2. c.k # "cr"
      BY <1>5, <1>6, <2>1
    <2>3. ~(Len(<<x, c>>) > BufSize)
      BY BufferAssumption DEF HoldsFrame, BufferAssumption
    <2>4. receiveBuf' = <<x, c>> /\ rxState' = "MSG" /\ UNCHANGED rcvList
      BY <2>1, <2>2, <2>3 DEF ReadsNext, ReceiveByte, ReceiveInMsg
    <2>5. Obtained' = Obtained /\ busFrames' = busFrames
      BY <2>4 DEF ReadsNext, Obtained
    <2>6. Coming' = Coming
      BY <2>1, <2>4 DEF ReadsNext, Coming, InMessage
    <2>7. Begun'
      BY <1>2, <2>1, <2>4 DEF Begun
    <2> QED
      BY <2>5, <2>6, <2>7 DEF FirstFrames, Following
  <1>8. CASE receiveBuf = <<x, y>>
    <2>1. /\ Coming \in Seq(Tokens) /\ Coming # <<>> /\ Coming[1] = x
          /\ Coming[2] = y /\ Coming[3] = c
          /\ Append(receiveBuf, c) = <<x, y, c>> /\ c \in Tokens
          /\ Len(Coming) = Len(Tail(line)) + 3
          /\ \A k \in DOMAIN Tail(line) : Tail(line)[k] = Coming[k + 3]
      BY <1>1, <1>3, <1>8, TwoAndMore
    <2>2. c.k = "cr" /\ Append(receiveBuf, c) = Frame(a)
      BY <1>5, <1>6, <2>1
    <2>3. Len(rcvList) < MaxRcv
      <3>1. a <= busFrames
        BY <1>5, <2>1
      <3>2. /\ Len(delivered) \in Nat /\ Len(rcvList) \in Nat
            /\ Len(Obtained) = Len(delivered) + Len(rcvList)
        BY SequencesTyped DEF TypeOK
      <3>3. /\ busFrames <= MaxFrames /\ MaxFrames <= MaxRcv
            /\ MaxFrames \in Nat /\ MaxRcv \in Nat
        BY QueueAssumption, BoundAssumption
           DEF TypeOK, Undisturbed, QueueAssumption, BoundAssumption
      <3> QED
        BY <1>1, <3>1, <3>2, <3>3
    <2>4. Translates(Frame(a))
      BY <1>6 DEF Translates
    <2>5. rxState' = "NONE" /\ rcvList' = Append(rcvList, Frame(a))
      BY <2>2, <2>3, <2>4 DEF ReadsNext, ReceiveByte, ReceiveInMsg, Complete
    <2>6. Obtained' = Append(Obtained, Frame(a)) /\ busFrames' = busFrames
      <3>1. delivered \in Seq(Seq(Tokens)) /\ rcvList \in Seq(Seq(Tokens))
        BY DEF TypeOK
      <3>2. delivered \o Append(rcvList, Frame(a))
              = Append(delivered \o rcvList, Frame(a))
        BY <1>6, <3>1, AppendBehind
      <3> QED
        BY <2>5, <3>2 DEF ReadsNext, Obtained
    <2>7. /\ DOMAIN Obtained' = 1 .. a /\ Len(Obtained') = a
          /\ \A i \in DOMAIN Obtained : Obtained'[i] = Obtained[i]
          /\ Obtained'[a] = Frame(a)
      BY <1>1, <1>6, <2>6
    <2>8. FirstFrames'
      <3> SUFFICES ASSUME NEW i \in 1 .. a
                   PROVE  i <= busFrames /\ Obtained'[i] = Frame(i)
        BY <2>6, <2>7 DEF FirstFrames
      <3>1. CASE i = a
        BY <1>5, <2>1, <2>7, <3>1
      <3>2. CASE i # a
        <4>1. i \in DOMAIN Obtained
          BY <1>1, <3>2
        <4> QED
          BY <2>7, <4>1 DEF FirstFrames
      <3> QED
        BY <3>1, <3>2
    <2>9. Coming' = Tail(line)
      BY <1>1, <2>5 DEF ReadsNext, Coming, InMessage
    <2>10. \E new : Placed(new, a + 1, busFrames, Tail(line))
      BY <1>1, <1>4, <1>5, <2>1, PlacedBehindFrame
    <2>11. Following'
      BY <2>6, <2>7, <2>9, <2>10 DEF Following
    <2>12. Begun'
      BY <2>5 DEF Begun
    <2> QED
      BY <2>8, <2>11, <2>12
  <1> QED
    BY <1>2, <1>7, <1>8

LEMMA LosslessStep ==
  ASSUME EmptyIsMinusOne, HoldsFrame
  PROVE  TypeOK /\ TypeOK' /\ Order /\ Statistics /\ Lossless /\ [Next]_vars
           => Lossless'
  <1> SUFFICES ASSUME TypeOK, TypeOK', Order, Statistics, Lossless, [Next]_vars
               PROVE  Lossless'
    OBVIOUS
  <1> USE DEF worker, rx, tx, adapter, history
  <1> DEFINE Setting == \A t \in Threads :
                           tpc[t] \in {"gets2", "puts", "gets1"} => commands > 0
             Still == UNCHANGED <<portOpen, transmitted, commands, tpc>>
             Received == Begun /\ FirstFrames /\ Following
  <1>0. /\ Setting /\ (Undisturbed => Received)
        /\ tpc \in [Threads -> {"idle", "gets2", "puts", "gets1", "join", "shut"}]
        /\ commands \in Nat
        /\ Still => Setting' /\ (Undisturbed' <=> Undisturbed)
    <2>1. commands \in Nat
      BY BoundAssumption DEF TypeOK, BoundAssumption
    <2>2. Setting /\ (Undisturbed => Received)
      BY DEF Lossless
    <2>3. Still => Setting'
      BY <2>2
    <2>4. Still => (Undisturbed' <=> Undisturbed)
      BY DEF Undisturbed
    <2> QED
      BY <2>1, <2>2, <2>3, <2>4 DEF TypeOK
  <1>1. UNCHANGED <<Obtained, rxState, receiveBuf, line, busFrames>>
          => (Received => Received')
    BY DEF Begun, FirstFrames, Following, Coming, InMessage
  <1>2. ASSUME NEW t \in Threads, ReadMsg(t) PROVE Lossless'
    <2>1. Obtained' = Obtained
      BY <1>2, MoveHead DEF ReadMsg, Obtained, TypeOK
    <2> QED
      BY <1>0, <1>1, <1>2, <2>1 DEF ReadMsg, Lossless
  <1>3. ASSUME NEW t \in Threads, NEW m \in Messages, WriteMsg(t, m)
        PROVE  Lossless'
    BY <1>0, <1>1, <1>3 DEF WriteMsg, Obtained, Lossless
  <1>4. ASSUME NEW t \in Threads, CloseExchange(t) \/ CloseJoin(t)
        PROVE  Lossless'
    <2>1. Setting'
      BY <1>0, <1>4 DEF CloseExchange, CloseJoin
    <2>2. UNCHANGED <<portOpen, transmitted, commands, Obtained, rxState,
                      receiveBuf, line, busFrames>>
      BY <1>4 DEF CloseExchange, CloseJoin, Obtained
    <2> QED
      BY <1>0, <1>1, <2>1, <2>2 DEF Lossless, Undisturbed
  <1>5. ASSUME NEW t \in Threads, NEW n \in {1, 2}, SetFilter(t, n)
        PROVE  Lossless'
    <2>1. commands' > 0
      BY <1>0, <1>5 DEF SetFilter
    <2> QED
      BY <2>1 DEF Lossless, Undisturbed
  <1>6. ASSUME NEW t \in Threads,
               SetFilterGetsCode(t) \/ SetFilterPutsMask(t) \/ SetFilterDone(t)
        PROVE  Lossless'
    <2>1. tpc[t] \in {"gets2", "puts", "gets1"} /\ UNCHANGED commands
      BY <1>6 DEF SetFilterGetsCode, SetFilterPutsMask, SetFilterDone
    <2>2. commands' > 0
      BY <1>0, <2>1
    <2> QED
      BY <2>2 DEF Lossless, Undisturbed
  <1>7. ASSUME NEW t \in Threads, ClosePort(t) PROVE Lossless'
    <2>1. ~portOpen' /\ Setting'
      BY <1>0, <1>7 DEF ClosePort
    <2> QED
      BY <2>1 DEF Lossless, Undisturbed
  <1>8. ASSUME WorkerLoop \/ WorkerLock \/ WorkerNoMessage
               \/ WorkerReceiveNothing \/ UNCHANGED vars
        PROVE  Lossless'
    BY <1>0, <1>1, <1>8 DEF WorkerLoop, WorkerLock, WorkerNoMessage,
       WorkerReceiveNothing, Obtained, vars, Lossless
  <1>9. ASSUME WorkerReceive PROVE Lossless'
    <2>1. /\ line # <<>> /\ line' = Tail(line) /\ ReceiveByte(line[1])
          /\ UNCHANGED <<delivered, busFrames>> /\ Still
      BY <1>9 DEF WorkerReceive
    <2>2. rxState = "MSG" \/ rxState = "NONE"
      BY DEF TypeOK
    <2>3. Undisturbed => Received'
      BY <1>0, <2>1, <2>2, ReceiveBetween, ReceiveInside DEF ReadsNext
    <2> QED
      BY <1>0, <2>1, <2>3 DEF Lossless
  <1>10. ASSUME WorkerTransmit PROVE Lossless'
    <2>1. Len(transmitted') = Len(transmitted) + 1 /\ Len(transmitted) \in Nat
      <3>1. transmitted \in Seq(Messages) /\ Head(sndList) \in Messages
        BY <1>10 DEF WorkerTransmit, TypeOK
      <3> QED
        BY <1>10, <3>1 DEF WorkerTransmit
    <2>2. transmitted' # <<>>
      BY <2>1
    <2>3. Setting'
      BY <1>0, <1>10 DEF WorkerTransmit
    <2> QED
      BY <2>2, <2>3 DEF Lossless, Undisturbed
  <1>11. ASSUME WorkerAck \/ WorkerAckNothing PROVE Lossless'
    <2>1. wpc = "ack" /\ UNCHANGED <<transmitted, tpc, commands>>
      BY <1>11 DEF WorkerAck, WorkerAckNothing
    <2>2. transmitted # <<>>
      <3>1. Len(transmitted) = txFrames + 1 /\ txFrames \in Nat
        BY <2>1 DEF Statistics, TypeOK
      <3> QED
        BY <3>1
    <2> QED
      BY <1>0, <2>1, <2>2 DEF Lossless, Undisturbed
  <1>12. ASSUME WorkerPoll PROVE Lossless'
    <2>1. UNCHANGED <<Obtained, rxState, receiveBuf>> /\ Still
      BY <1>12 DEF WorkerPoll, Obtained
    <2>2. Poll \/ UNCHANGED <<line, busFrames>>
      BY <1>12 DEF WorkerPoll
    <2>3. Undisturbed => Received'
      BY <1>0, <1>1, <2>1, <2>2, CommandKeepsFrames, NextFrameFollows DEF Poll
    <2> QED
      BY <1>0, <2>1, <2>3 DEF Lossless
  <1>13. ASSUME BusFrame PROVE Lossless'
    <2>1. UNCHANGED <<Obtained, rxState, receiveBuf>> /\ Still
      BY <1>13 DEF BusFrame, Obtained
    <2>2. Undisturbed => Received'
      BY <1>0, <1>13, <2>1, NextFrameFollows DEF BusFrame
    <2> QED
      BY <1>0, <2>1, <2>2 DEF Lossless
  <1> QED
    BY <1>2, <1>3, <1>4, <1>5, <1>6, <1>7, <1>8, <1>9, <1>10, <1>11, <1>12,
       <1>13 DEF Next, WorkerStep, BeginCall, FinishCall, AtRest

\* Where an empty readChar ends the loop (Linux) and the buffer holds a frame,
\* workThread turns every frame of the bus into one whole message, in order,
\* as long as no answer is waited for and no filter is set.
THEOREM ReceptionLosesNothing ==
  ASSUME EmptyIsMinusOne, HoldsFrame
  PROVE  Spec => []LosslessReception
  <1>1. Spec => [](TypeOK /\ Order /\ Statistics)
    <2>1. Spec => []Order
      BY TypeOKInit, TypeOKStep, OrderInit, OrderStep, PTL DEF Spec
    <2> QED
      BY <2>1, TypeCorrect, StatisticsAgree, PTL
  <1>2. Lossless /\ (TypeOK /\ Order /\ Statistics)
          /\ (TypeOK /\ Order /\ Statistics)' /\ [Next]_vars => Lossless'
    BY LosslessStep
  <1> QED
    BY <1>1, <1>2, LosslessInit, LosslessImplies, PTL DEF Spec
=============================================================================
