----------------------------- MODULE Can232Obj -----------------------------
(***************************************************************************)
(* One open CCAN232Obj (linux/can232obj.cpp, which also drives the adapter *)
(* on macOS): the worker thread, the application's threads, the two        *)
(* message queues, the mutex, and the serial line to the CAN232 adapter.   *)
(*                                                                         *)
(* The line from the adapter is a sequence of tokens in place of           *)
(* characters.  Bus frame number n is the tokens head, body, cr; every     *)
(* other answer is made of "other" and "cr" tokens.  The line holds what   *)
(* the adapter sent and the driver has not read, on the wire or in the     *)
(* kernel, so a read may find nothing although the line is not empty.      *)
(***************************************************************************)
EXTENDS Integers, Sequences, FiniteSets

CONSTANTS
  Threads,        \* application threads that use the object
  Messages,       \* messages the application sends
  NoData,         \* those with sizeData = 0
  Calls,          \* the calls the application makes
  MaxSnd,         \* CAN232_MAX_SNDMSG
  MaxRcv,         \* CAN232_MAX_RCVMSG
  BufSize,        \* CAN232_BUF_SIZE
  PollEvery,      \* loops between two polls (5)
  MaxAckRetries,  \* empty reads before an answer is given up (100)
  EmptyIsMinusOne,\* an empty readChar reports -1 (Linux), else 0 (macOS)
  MaxAccepted,    \* bound: messages the application gets accepted
  MaxCommands,    \* bound: filter and mask calls
  MaxFrames,      \* bound: frames seen on the bus
  LineCap         \* bound: tokens the line can hold

ASSUME QueueAssumption == MaxSnd \in Nat \ {0} /\ MaxRcv \in Nat \ {0}
ASSUME BufferAssumption == BufSize \in Nat \ {0}
ASSUME PollAssumption == PollEvery \in Nat /\ MaxAckRetries \in Nat
ASSUME ReadCharAssumption == EmptyIsMinusOne \in BOOLEAN
ASSUME BoundAssumption ==
         MaxAccepted \in Nat /\ MaxCommands \in Nat
         /\ MaxFrames \in Nat /\ LineCap \in Nat
ASSUME MessageAssumption == NoData \subseteq Messages

NoThread == "none"
Worker == "worker"

ASSUME ThreadAssumption == NoThread \notin Threads /\ Worker \notin Threads

VARIABLES
  bRun,         \* m_bRun
  mutex,        \* owner of m_can232ObjMutex
  wpc,          \* where workThread is
  tpc,          \* where each application thread is
  sndList,      \* m_sndList
  rcvList,      \* m_rcvList: each message as the buffer it was decoded from
  rxState,      \* m_state
  receiveBuf,   \* m_receiveBuf[0 .. m_cntRcv - 1] in state MSG; what a
                \* queued message leaves there is never read again
  nPollCnt,     \* local of workThread
  ackRetries,   \* local of workThread
  bAuto,        \* m_bAuto
  txFrames,     \* m_stat.cntTransmitFrames
  rxFrames,     \* m_stat.cntReceiveFrames
  portOpen,     \* m_comm is open
  line,         \* tokens from the adapter, not read
  partial,      \* the adapter holds a command without its CR
  busFrames,    \* frames the adapter has passed on so far
  commands,     \* filter and mask calls so far
  accepted,     \* history: messages writeMsg returned true for
  transmitted,  \* history: messages written to the port
  delivered     \* history: messages readMsg returned

worker   == <<wpc, nPollCnt, ackRetries>>
rx       == <<rxState, receiveBuf, rcvList, rxFrames>>
tx       == <<sndList, transmitted, txFrames>>
adapter  == <<line, partial, busFrames>>
history  == <<accepted, delivered, commands>>
vars == <<bRun, mutex, worker, tpc, rx, tx, bAuto, portOpen, adapter, history>>

----------------------------------------------------------------------------
(* Tokens and answers *)

Kinds == {"head", "body", "cr", "other"}
Tokens == [k : Kinds, f : Nat]
Cr == [k |-> "cr", f |-> 0]
Other == [k |-> "other", f |-> 0]
Frame(n) ==
  <<[k |-> "head", f |-> n], [k |-> "body", f |-> n], [k |-> "cr", f |-> n]>>

\* What the line may hold after the adapter answered with one of Answers.  An
\* answer the line has no room for is lost, as is one the adapter never sends.
Answered(Answers) ==
  {line} \cup {line \o a : a \in {b \in Answers : Len(line \o b) <= LineCap}}

\* CR, or BELL when it refuses; a "z" before the CR makes no difference that
\* BELL does not.  The adapter answers no half a command.
Acks == {<<Cr>>, <<Other>>}

\* The adapter takes a command; one that follows a command left without its
\* CR is garbled with it and refused.
Command ==
  /\ partial' = FALSE
  /\ line' \in Answered(IF partial THEN {<<Other>>} ELSE Acks)
  /\ UNCHANGED busFrames

\* "A\r": a polled adapter answers with a waiting frame, then "A\r".
Poll ==
  \/ Command
  \/ /\ ~partial
     /\ busFrames < MaxFrames
     /\ Len(line) + 5 <= LineCap
     /\ line' = line \o Frame(busFrames + 1) \o <<Other, Cr>>
     /\ busFrames' = busFrames + 1
     /\ UNCHANGED partial

\* In autopoll mode frames come by themselves.
BusFrame ==
  /\ portOpen /\ bAuto
  /\ busFrames < MaxFrames
  /\ Len(line) + 3 <= LineCap
  /\ line' = line \o Frame(busFrames + 1)
  /\ busFrames' = busFrames + 1
  /\ UNCHANGED <<bRun, mutex, worker, tpc, rx, tx, bAuto, portOpen, partial,
                 history>>

----------------------------------------------------------------------------
(* State after a successful open() *)

Init ==
  /\ bRun = TRUE /\ mutex = NoThread
  /\ wpc = "loop" /\ nPollCnt = 0 /\ ackRetries = 0
  /\ tpc = [t \in Threads |-> "idle"]
  /\ sndList = <<>> /\ rcvList = <<>>
  /\ rxState = "NONE" /\ receiveBuf = <<>>
  /\ bAuto \in BOOLEAN
  /\ txFrames = 0 /\ rxFrames = 0
  /\ portOpen = TRUE /\ line = <<>> /\ partial = FALSE /\ busFrames = 0
  /\ commands = 0
  /\ accepted = <<>> /\ transmitted = <<>> /\ delivered = <<>>

----------------------------------------------------------------------------
(* Calls of the application.  A critical section without a wait in it is   *)
(* one step.  dataAvailable, getStatus and getStatistics, a writeMsg that  *)
(* finds the queue full, a readMsg that finds it empty and a close that    *)
(* finds bRun FALSE change nothing: they are stuttering steps.             *)

\* Thread t makes call c now.
Calling(t, c) == c \in Calls /\ tpc[t] = "idle"

\* Mutant: the message goes to the front of the queue.
WriteMsgFront(t, m) ==
  /\ Calling(t, "write") /\ mutex = NoThread
  /\ Len(accepted) < MaxAccepted
  /\ Len(sndList) < MaxSnd
  /\ sndList' = <<m>> \o sndList
  /\ accepted' = Append(accepted, m)
  /\ UNCHANGED <<bRun, mutex, worker, tpc, rx, transmitted, txFrames, bAuto,
                 portOpen, adapter, delivered, commands>>

\* Mutant: the room is not checked.
WriteMsgUnchecked(t, m) ==
  /\ Calling(t, "write") /\ mutex = NoThread
  /\ Len(accepted) < MaxAccepted
  /\ sndList' = Append(sndList, m)
  /\ accepted' = Append(accepted, m)
  /\ UNCHANGED <<bRun, mutex, worker, tpc, rx, transmitted, txFrames, bAuto,
                 portOpen, adapter, delivered, commands>>

\* Mutant: a message that finds no room is dropped, yet TRUE is returned.
WriteMsgDrops(t, m) ==
  /\ Calling(t, "write") /\ mutex = NoThread
  /\ Len(accepted) < MaxAccepted
  /\ sndList' = IF Len(sndList) < MaxSnd THEN Append(sndList, m) ELSE sndList
  /\ accepted' = Append(accepted, m)
  /\ UNCHANGED <<bRun, mutex, worker, tpc, rx, transmitted, txFrames, bAuto,
                 portOpen, adapter, delivered, commands>>

WriteMsg(t, m) ==
  /\ Calling(t, "write") /\ mutex = NoThread
  /\ Len(accepted) < MaxAccepted
  /\ Len(sndList) < MaxSnd
  /\ sndList' = Append(sndList, m)
  /\ accepted' = Append(accepted, m)
  /\ UNCHANGED <<bRun, mutex, worker, tpc, rx, transmitted, txFrames, bAuto,
                 portOpen, adapter, delivered, commands>>

\* Mutant: the message is copied and not removed.
ReadMsgKeeps(t) ==
  /\ Calling(t, "read") /\ mutex = NoThread
  /\ rcvList # <<>>
  /\ delivered' = Append(delivered, Head(rcvList))
  /\ UNCHANGED <<bRun, mutex, worker, tpc, rx, tx, bAuto, portOpen, adapter,
                 accepted, commands>>

ReadMsg(t) ==
  /\ Calling(t, "read") /\ mutex = NoThread
  /\ rcvList # <<>>
  /\ delivered' = Append(delivered, Head(rcvList))
  /\ rcvList' = Tail(rcvList)
  /\ UNCHANGED <<bRun, mutex, worker, tpc, rxState, receiveBuf, rxFrames, tx,
                 bAuto, portOpen, adapter, accepted, commands>>

\* comm_puts by an application thread; on a closed port it does nothing.
PutsCommand == IF portOpen THEN Command ELSE UNCHANGED adapter

\* Take the mutex and write the first of n commands.
SetFilter(t, n) ==
  /\ Calling(t, "filter") /\ mutex = NoThread
  /\ commands < MaxCommands
  /\ commands' = commands + 1
  /\ mutex' = t
  /\ tpc' = [tpc EXCEPT ![t] = IF n = 2 THEN "gets2" ELSE "gets1"]
  /\ PutsCommand
  /\ UNCHANGED <<bRun, worker, rx, tx, bAuto, portOpen, accepted, delivered>>

\* comm_gets takes whatever has arrived, be it the answer or frames.
Gets == \E n \in 0 .. Len(line) : line' = SubSeq(line, n + 1, Len(line))

\* The answer to the code, then the mask command.
SetFilterGetsCode(t) ==
  /\ tpc[t] = "gets2"
  /\ Gets
  /\ tpc' = [tpc EXCEPT ![t] = "puts"]
  /\ UNCHANGED <<bRun, mutex, worker, rx, tx, bAuto, portOpen, partial,
                 busFrames, history>>

SetFilterPutsMask(t) ==
  /\ tpc[t] = "puts"
  /\ PutsCommand
  /\ tpc' = [tpc EXCEPT ![t] = "gets1"]
  /\ UNCHANGED <<bRun, mutex, worker, rx, tx, bAuto, portOpen, history>>

\* The last answer; the mutex is released.
SetFilterDone(t) ==
  /\ tpc[t] = "gets1"
  /\ Gets
  /\ tpc' = [tpc EXCEPT ![t] = "idle"]
  /\ mutex' = NoThread
  /\ UNCHANGED <<bRun, worker, rx, tx, bAuto, portOpen, partial, busFrames,
                 history>>

\* Mutant: close() takes the mutex and keeps it while it waits.
CloseExchangeLocked(t) ==
  /\ Calling(t, "close") /\ bRun /\ mutex = NoThread
  /\ bRun' = FALSE /\ mutex' = t
  /\ tpc' = [tpc EXCEPT ![t] = "join"]
  /\ UNCHANGED <<worker, rx, tx, bAuto, portOpen, adapter, history>>

\* close(): m_bRun.exchange(false).  Only the call that finds TRUE goes on.
CloseExchange(t) ==
  /\ Calling(t, "close") /\ bRun
  /\ bRun' = FALSE
  /\ tpc' = [tpc EXCEPT ![t] = "join"]
  /\ UNCHANGED <<mutex, worker, rx, tx, bAuto, portOpen, adapter, history>>

\* Mutant: close() does not wait for the worker.
CloseJoinNoWait(t) ==
  /\ tpc[t] = "join"
  /\ tpc' = [tpc EXCEPT ![t] = "shut"]
  /\ UNCHANGED <<bRun, mutex, worker, rx, tx, bAuto, portOpen, adapter, history>>

\* pthread_join
CloseJoin(t) ==
  /\ tpc[t] = "join" /\ wpc = "done"
  /\ tpc' = [tpc EXCEPT ![t] = "shut"]
  /\ UNCHANGED <<bRun, mutex, worker, rx, tx, bAuto, portOpen, adapter, history>>

\* "C\r" and comm.close; what the adapter still sends is lost.
ClosePort(t) ==
  /\ tpc[t] = "shut"
  /\ portOpen' = FALSE
  /\ line' = <<>> /\ partial' = FALSE
  /\ tpc' = [tpc EXCEPT ![t] = "idle"]
  /\ UNCHANGED <<bRun, mutex, worker, rx, tx, bAuto, busFrames, history>>

----------------------------------------------------------------------------
(* workThread *)

WorkerLoop ==
  /\ wpc = "loop"
  /\ wpc' = IF bRun THEN "lock" ELSE "done"
  /\ UNCHANGED <<bRun, mutex, nPollCnt, ackRetries, tpc, rx, tx, bAuto,
                 portOpen, adapter, history>>

\* LOCK_MUTEX, then bRun is checked again.
WorkerLock ==
  /\ wpc = "lock" /\ mutex = NoThread
  /\ IF bRun THEN wpc' = "receive" /\ mutex' = Worker
             ELSE wpc' = "done" /\ UNCHANGED mutex
  /\ UNCHANGED <<bRun, nPollCnt, ackRetries, tpc, rx, tx, bAuto, portOpen,
                 adapter, history>>

\* can232ToCanal translates what starts with t, T, r or R.
Translates(buf) == buf # <<>> /\ buf[1].k = "head"

\* Mutant: a dropped message is counted too.
CompleteCountsDropped(buf) ==
  /\ rxState' = "NONE" /\ receiveBuf' = <<>>
  /\ rxFrames' = rxFrames + 1
  /\ rcvList' = IF Len(rcvList) < MaxRcv /\ Translates(buf)
                  THEN Append(rcvList, buf) ELSE rcvList

\* Mutant: a message is queued at the front.
CompleteAtFront(buf) ==
  /\ rxState' = "NONE" /\ receiveBuf' = <<>>
  /\ IF Len(rcvList) < MaxRcv /\ Translates(buf)
       THEN /\ rcvList' = <<buf>> \o rcvList
            /\ rxFrames' = rxFrames + 1
       ELSE UNCHANGED <<rcvList, rxFrames>>

\* A message ended by its CR is queued if there is room, dropped otherwise.
Complete(buf) ==
  /\ rxState' = "NONE" /\ receiveBuf' = <<>>
  /\ IF Len(rcvList) < MaxRcv /\ Translates(buf)
       THEN /\ rcvList' = Append(rcvList, buf)
            /\ rxFrames' = rxFrames + 1
       ELSE UNCHANGED <<rcvList, rxFrames>>

\* In state MSG the character is stored before its index is checked.  Stored
\* at index BufSize it lies behind the array, where m_cntRcv lives: either
\* m_cntRcv survives and exceeds the size, which drops the message, or its low
\* byte is overwritten and the message goes on from another index.
ReceiveInMsg(c) ==
  LET buf == Append(receiveBuf, c) IN
    IF c.k = "cr"
      THEN Complete(buf)
      ELSE \/ /\ receiveBuf' = buf
              /\ rxState' = IF Len(buf) > BufSize THEN "NONE" ELSE "MSG"
              /\ UNCHANGED <<rcvList, rxFrames>>
           \/ /\ Len(buf) > BufSize
              /\ \E n \in 0 .. BufSize : receiveBuf' = SubSeq(receiveBuf, 1, n)
              /\ UNCHANGED <<rxState, rcvList, rxFrames>>

\* One character through the receive state machine.
ReceiveByte(c) ==
  IF rxState = "MSG"
    THEN ReceiveInMsg(c)
    ELSE IF c.k = "head"
           THEN /\ rxState' = "MSG" /\ receiveBuf' = <<c>>
                /\ UNCHANGED <<rcvList, rxFrames>>
           ELSE UNCHANGED rx

\* while (-1 != cnt): readChar found a character.
WorkerReceive ==
  /\ wpc = "receive"
  /\ line # <<>>
  /\ line' = Tail(line)
  /\ ReceiveByte(Head(line))
  /\ UNCHANGED <<bRun, mutex, worker, tpc, tx, bAuto, portOpen, partial,
                 busFrames, history>>

\* Mutant: an empty read abandons the message begun.
WorkerReceiveNothingResets ==
  /\ wpc = "receive"
  /\ wpc' = "transmit" /\ mutex' = NoThread
  /\ rxState' = "NONE"
  /\ UNCHANGED <<bRun, nPollCnt, ackRetries, tpc, receiveBuf, rcvList, rxFrames,
                 tx, bAuto, portOpen, adapter, history>>

\* readChar found none.  A count other than -1 keeps the loop running, with
\* the NUL character it returned.
WorkerReceiveNothing ==
  /\ wpc = "receive"
  /\ IF EmptyIsMinusOne
       THEN wpc' = "transmit" /\ mutex' = NoThread /\ UNCHANGED rx
       ELSE ReceiveByte(Other) /\ UNCHANGED <<wpc, mutex>>
  /\ UNCHANGED <<bRun, nPollCnt, ackRetries, tpc, tx, bAuto, portOpen, adapter,
                 history>>

\* LOCK_MUTEX with an empty queue: straight to the poll.
WorkerNoMessage ==
  /\ wpc = "transmit" /\ mutex = NoThread
  /\ sndList = <<>>
  /\ mutex' = Worker /\ wpc' = "poll"
  /\ UNCHANGED <<bRun, nPollCnt, ackRetries, tpc, rx, tx, bAuto, portOpen,
                 adapter, history>>

\* Mutant: the message written stays in the queue.
WorkerTransmitKeeps ==
  /\ wpc = "transmit" /\ mutex = NoThread
  /\ sndList # <<>>
  /\ mutex' = Worker /\ wpc' = "ack"
  /\ transmitted' = Append(transmitted, Head(sndList))
  /\ Command
  /\ UNCHANGED <<bRun, nPollCnt, ackRetries, tpc, rx, sndList, txFrames, bAuto,
                 portOpen, history>>

\* LOCK_MUTEX, take the first message off the queue and write it.  The CR is
\* appended only where there is data.
WorkerTransmit ==
  /\ wpc = "transmit" /\ mutex = NoThread
  /\ sndList # <<>>
  /\ mutex' = Worker /\ wpc' = "ack"
  /\ sndList' = Tail(sndList)
  /\ transmitted' = Append(transmitted, Head(sndList))
  /\ IF Head(sndList) \in NoData
       THEN partial' = TRUE /\ UNCHANGED <<line, busFrames>>
       ELSE Command
  /\ UNCHANGED <<bRun, nPollCnt, ackRetries, tpc, rx, txFrames, bAuto, portOpen,
                 history>>

\* The answer is over: statistics, then on to the poll.
Acknowledged ==
  wpc' = "poll" /\ ackRetries' = 0 /\ txFrames' = txFrames + 1
Waiting(retries) ==
  ackRetries' = retries /\ UNCHANGED <<wpc, txFrames>>

\* A character while waiting for the answer is thrown away; a CR ends the
\* wait, whatever it belongs to.
WorkerAck ==
  /\ wpc = "ack"
  /\ line # <<>>
  /\ line' = Tail(line)
  /\ IF Head(line).k = "cr" \/ ~bRun THEN Acknowledged ELSE Waiting(0)
  /\ UNCHANGED <<bRun, mutex, nPollCnt, tpc, rx, sndList, transmitted, bAuto,
                 portOpen, partial, busFrames, history>>

\* Mutant: the wait for an answer has no end.
WorkerAckNothingForever ==
  /\ wpc = "ack" /\ bRun
  /\ UNCHANGED vars

\* An empty read while waiting; a count other than -1 is not a retry.
WorkerAckNothing ==
  /\ wpc = "ack"
  /\ IF EmptyIsMinusOne
       THEN IF ackRetries + 1 > MaxAckRetries \/ ~bRun
              THEN Acknowledged ELSE Waiting(ackRetries + 1)
       ELSE IF ~bRun THEN Acknowledged ELSE Waiting(0)
  /\ UNCHANGED <<bRun, mutex, nPollCnt, tpc, rx, sndList, transmitted, bAuto,
                 portOpen, adapter, history>>

\* Without autopoll every PollEvery + 1 loops ask for frames; UNLOCK_MUTEX.
\* With autopoll the counter is never read, and not kept here.
WorkerPoll ==
  /\ wpc = "poll"
  /\ IF bAuto
       THEN UNCHANGED <<nPollCnt, adapter>>
       ELSE IF nPollCnt + 1 > PollEvery
              THEN nPollCnt' = 0 /\ Poll
              ELSE nPollCnt' = nPollCnt + 1 /\ UNCHANGED adapter
  /\ wpc' = "loop" /\ mutex' = NoThread
  /\ UNCHANGED <<bRun, ackRetries, tpc, rx, tx, bAuto, portOpen, history>>

----------------------------------------------------------------------------

WorkerStep ==
  \/ WorkerLoop \/ WorkerLock
  \/ WorkerReceive \/ WorkerReceiveNothing
  \/ WorkerNoMessage \/ WorkerTransmit
  \/ WorkerAck \/ WorkerAckNothing
  \/ WorkerPoll

\* Steps that finish a call once it has begun.
FinishCall(t) ==
  \/ SetFilterGetsCode(t) \/ SetFilterPutsMask(t) \/ SetFilterDone(t)
  \/ CloseJoin(t) \/ ClosePort(t)

BeginCall(t) ==
  \/ \E m \in Messages : WriteMsg(t, m)
  \/ ReadMsg(t)
  \/ \E n \in {1, 2} : SetFilter(t, n)
  \/ CloseExchange(t)

\* A closed object rests until its next call.
AtRest ==
  /\ ~portOpen /\ \A t \in Threads : tpc[t] = "idle"
  /\ UNCHANGED vars

Next ==
  \/ WorkerStep
  \/ \E t \in Threads : BeginCall(t) \/ FinishCall(t)
  \/ BusFrame
  \/ AtRest

Spec == Init /\ [][Next]_vars

\* The scheduler runs the worker and the threads inside a call.  The worker
\* competes with application threads for the mutex; they make finitely many
\* calls, so weak fairness is enough for it.
Fairness ==
  /\ WF_vars(WorkerStep)
  /\ \A t \in Threads : WF_vars(FinishCall(t))

FairSpec == Spec /\ Fairness
----------------------------------------------------------------------------
(* Properties *)

\* The shape of the state: queues never exceed the sizes of can232obj.h.
TypeOK ==
  /\ bRun \in BOOLEAN
  /\ mutex \in Threads \cup {NoThread, Worker}
  /\ wpc \in {"loop", "lock", "receive", "transmit", "ack", "poll", "done"}
  /\ tpc \in [Threads -> {"idle", "gets2", "puts", "gets1", "join", "shut"}]
  /\ sndList \in Seq(Messages) /\ Len(sndList) <= MaxSnd
  /\ rcvList \in Seq(Seq(Tokens)) /\ Len(rcvList) <= MaxRcv
  /\ rxState \in {"NONE", "MSG"} /\ receiveBuf \in Seq(Tokens)
  /\ nPollCnt \in 0 .. PollEvery /\ ackRetries \in 0 .. MaxAckRetries
  /\ bAuto \in BOOLEAN
  /\ txFrames \in Nat /\ rxFrames \in Nat
  /\ portOpen \in BOOLEAN
  /\ line \in Seq(Tokens) /\ partial \in BOOLEAN
  /\ busFrames \in 0 .. MaxFrames /\ commands \in 0 .. MaxCommands
  /\ accepted \in Seq(Messages) /\ transmitted \in Seq(Messages)
  /\ delivered \in Seq(Seq(Tokens))

\* Whatever writeMsg accepted was written to the adapter or still waits, each
\* message once and in the order of acceptance, whichever threads called.
SendOrder == accepted = transmitted \o sndList

\* Frames reach the application in bus order and at most once: what was read,
\* what is queued, what is being put together and what is on the line began
\* with ever later frames.
Started(buf) == buf[1].f
Obtained == delivered \o rcvList
ReceiveOrder ==
  \A i, j \in DOMAIN Obtained :
     i < j => Started(Obtained[i]) < Started(Obtained[j])

\* As long as nothing is transmitted, no filter is set and the queue has room,
\* reception is perfect: the messages queued so far are the first frames of the
\* bus, whole and in order, and the frames after them follow one another in the
\* buffer and on the line, whole, with nothing but answers between them.
InMessage == IF rxState = "MSG" THEN receiveBuf ELSE <<>>
Coming == InMessage \o line
Expected == Len(Obtained) + 1 .. busFrames
FramesAt(at, frames, s) ==
  /\ \A n \in frames : at[n] + 2 <= Len(s) /\ SubSeq(s, at[n], at[n] + 2) = Frame(n)
  /\ \A m, n \in frames : m < n => at[m] + 2 < at[n]
  /\ \A k \in DOMAIN s : s[k].f # 0 => \E n \in frames : k \in at[n] .. at[n] + 2
LosslessReception ==
  portOpen /\ transmitted = <<>> /\ commands = 0 /\ MaxFrames <= MaxRcv =>
    /\ \A i \in DOMAIN Obtained : i <= busFrames /\ Obtained[i] = Frame(i)
    /\ \E at \in [Expected -> DOMAIN Coming] : FramesAt(at, Expected, Coming)

\* Once close() has closed the port the worker is gone: it writes no message,
\* counts none and queues none, whatever threads still call.
PortQuiet ==
  [][~portOpen => UNCHANGED <<transmitted, txFrames, rxFrames, receiveBuf>>]_vars

\* The statistics agree with the queues: every frame received was queued once,
\* every message written is counted once its answer has come or been given up.
Statistics ==
  /\ rxFrames = Len(Obtained)
  /\ Len(transmitted) = txFrames + (IF wpc = "ack" THEN 1 ELSE 0)

\* The object implements the abstract channel.
Phase == IF bRun THEN "open" ELSE IF portOpen THEN "closing" ELSE "closed"
Numbers(q) == [i \in DOMAIN q |-> Started(q[i])]
Fifo == INSTANCE CanalFifo WITH
          Frames <- 1 .. MaxFrames,
          phase <- Phase, sndQ <- sndList, written <- transmitted,
          rcvQ <- Numbers(rcvList), fetched <- Numbers(delivered)
ImplementsFifo == Fifo!Spec

\* Nobody keeps the mutex for ever, answer or no answer from the adapter.
MutexReleased == (mutex # NoThread) ~> (mutex = NoThread)

\* A close() that stops the worker returns, although the worker may be waiting
\* for an answer that never comes.
CloseReturns == \A t \in Threads : (tpc[t] = "join") ~> (tpc[t] = "idle")

\* Every accepted message is written to the adapter unless the channel closes.
AcceptedIsWritten ==
  \A n \in 1 .. MaxAccepted :
     (Len(accepted) >= n) ~> (Len(transmitted) >= n \/ ~bRun)
=============================================================================
