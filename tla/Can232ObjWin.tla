---------------------------- MODULE Can232ObjWin ----------------------------
(***************************************************************************)
(* The open driver object on Windows (common/can232obj.cpp).  Its named    *)
(* mutex is opened and never created: OpenMutex gives NULL, every wait for *)
(* it fails at once, and nothing keeps threads apart.  A call's looks at a *)
(* list and its work in the list are therefore steps of their own.  The    *)
(* worker is not joined by close, and uses the object until it has seen    *)
(* m_bRun.                                                                 *)
(*                                                                         *)
(* Two threads inside one list, a head that is NULL, and an object that is *)
(* deleted while its worker runs have no defined outcome: "defined" is     *)
(* FALSE then and nothing moves any more.                                  *)
(*                                                                         *)
(* The line holds what the adapter sent and nobody read: the number of a   *)
(* bus frame for the letter it begins with, Cr, and Other for the rest.    *)
(* The port is the one of the Visual Studio project; readBuf and the echo  *)
(* of write take whatever has come.                                        *)
(***************************************************************************)
EXTENDS Integers, Sequences, FiniteSets

CONSTANTS
  Threads,      \* application threads that use the object
  Messages,     \* messages the application sends
  Calls,        \* the calls the application makes
  MaxSnd,       \* CAN232_MAX_SNDMSG
  MaxRcv,       \* CAN232_MAX_RCVMSG
  BufSize,      \* CAN232_BUF_SIZE
  PollEvery,    \* loops between two polls (5)
  MaxMessages,  \* bound: messages the application gets accepted
  MaxCommands,  \* bound: filter, mask and status calls
  MaxFrames,    \* bound: frames seen on the bus
  LineCap       \* bound: tokens the line can hold

ASSUME QueueAssumption == MaxSnd \in Nat \ {0} /\ MaxRcv \in Nat \ {0}
ASSUME BufferAssumption == BufSize \in Nat \ {0} /\ PollEvery \in Nat
ASSUME BoundAssumption ==
         MaxMessages \in Nat /\ MaxCommands \in Nat
         /\ MaxFrames \in Nat /\ LineCap \in Nat
ASSUME ThreadAssumption == IsFiniteSet(Threads)

Cr == 0
Other == -1
Frames == 1 .. MaxFrames
Tokens == Frames \cup {Cr, Other}
Frame(n) == <<n, Other, Cr>>

NoFrame == 0

VARIABLES
  bRun,         \* m_bRun
  wpc,          \* where workThread is
  tpc,          \* where each application thread is
  sndList,      \* m_sndList
  rcvList,      \* m_rcvList: the number of the frame each message began with
  begun,        \* the frame whose letter m_receiveBuf begins with, NoFrame in
                \* state NONE
  cntRcv,       \* m_cntRcv, 0 in state NONE
  nPollCnt,     \* local of workThread
  bAuto,        \* m_bAuto
  portOpen,     \* m_comm is open
  line,         \* tokens from the adapter, not read
  busFrames,    \* frames the adapter has passed on so far
  commands,     \* filter, mask and status calls so far
  transmitted,  \* history: messages taken off m_sndList for the port
  delivered,    \* history: messages readMsg returned
  sentAtClose,  \* history: how many of transmitted when m_bRun was cleared
  deleted,      \* the object's destructor has run
  defined       \* nothing undefined has happened

rx == <<rcvList, begun, cntRcv>>
tx == <<sndList, transmitted>>
adapter == <<line, busFrames>>
rest == <<bAuto, commands, deleted, sentAtClose>>
vars == <<bRun, wpc, tpc, rx, tx, nPollCnt, portOpen, adapter, delivered, rest,
          defined>>

\* After a successful open.
Init ==
  /\ bRun = TRUE /\ portOpen = TRUE /\ bAuto \in BOOLEAN
  /\ wpc = "loop" /\ nPollCnt = 0
  /\ tpc = [t \in Threads |-> "idle"]
  /\ sndList = <<>> /\ rcvList = <<>>
  /\ begun = NoFrame /\ cntRcv = 0
  /\ line = <<>> /\ busFrames = 0 /\ commands = 0
  /\ transmitted = <<>> /\ delivered = <<>>
  /\ sentAtClose = 0
  /\ deleted = FALSE /\ defined = TRUE

Goto(t, place) == tpc' = [tpc EXCEPT ![t] = place]
Calling(t, c) == defined /\ ~deleted /\ c \in Calls /\ tpc[t] = "idle"
At(t, place) == defined /\ tpc[t] = place
WorkerAt(place) == defined /\ ~deleted /\ wpc = place

Adding == {t \in Threads : tpc[t] \in {"add", "adding"}}
InSndList == {t \in Threads : tpc[t] = "adding"}
InRcvList == {t \in Threads : tpc[t] = "taking"}

----------------------------------------------------------------------------
(* The port.  On a closed one nothing is written or read.                  *)

\* What is left of l when a read has taken what had come, all of it or less.
Left(l) == {SubSeq(l, n + 1, Len(l)) : n \in 0 .. Len(l)}

\* A command is written and its echo waited for, which never comes: the answer
\* may be taken for it.  The answer may also be lost.
Answered(Answers) ==
  UNION {Left(l) : l \in {line} \cup
          {line \o a : a \in {b \in Answers : Len(line \o b) <= LineCap}}}
Command ==
  /\ line' \in IF portOpen THEN Answered({<<Cr>>, <<Other>>}) ELSE {line}
  /\ UNCHANGED busFrames

\* A polled adapter answers with a waiting frame.
Poll ==
  \/ Command
  \/ /\ portOpen /\ busFrames < MaxFrames
     /\ line' \in Answered({Frame(busFrames + 1)})
     /\ busFrames' = busFrames + 1

ReadBuf == line' \in Left(line)

\* In autopoll mode frames come by themselves.
BusFrame ==
  /\ defined /\ portOpen /\ bAuto
  /\ busFrames < MaxFrames
  /\ Len(line) + 3 <= LineCap
  /\ line' = line \o Frame(busFrames + 1)
  /\ busFrames' = busFrames + 1
  /\ UNCHANGED <<bRun, wpc, tpc, rx, tx, nPollCnt, portOpen, delivered, rest,
                 defined>>

----------------------------------------------------------------------------
(* Calls of the application.  dataAvailable and getStatistics, a writeMsg  *)
(* that finds no room and a readMsg that finds no message change nothing.  *)

Bounded == Len(transmitted) + Len(sndList) + Cardinality(Adding) < MaxMessages

\* Mutant: the room is not checked.
WriteMsgUnchecked(t) ==
  /\ Calling(t, "write") /\ Bounded
  /\ Goto(t, "add")
  /\ UNCHANGED <<bRun, wpc, rx, tx, nPollCnt, portOpen, adapter, delivered, rest,
                 defined>>

\* writeMsg finds room, and waits for the mutex in vain.  Which message it adds
\* makes no difference until it has added it.
WriteMsg(t) ==
  /\ Calling(t, "write") /\ Bounded
  /\ Len(sndList) < MaxSnd
  /\ Goto(t, "add")
  /\ UNCHANGED <<bRun, wpc, rx, tx, nPollCnt, portOpen, adapter, delivered, rest,
                 defined>>

\* dll_addNode begins, and ends.
AddBegins(t) ==
  /\ At(t, "add")
  /\ Goto(t, "adding")
  /\ defined' = (InSndList = {} /\ wpc # "removing")
  /\ UNCHANGED <<bRun, wpc, rx, tx, nPollCnt, portOpen, adapter, delivered,
                 rest>>

AddEnds(t, m) ==
  /\ At(t, "adding")
  /\ sndList' = Append(sndList, m)
  /\ Goto(t, "idle")
  /\ UNCHANGED <<bRun, wpc, rx, transmitted, nPollCnt, portOpen, adapter,
                 delivered, rest, defined>>

\* readMsg finds a head and looks at its object, which a thread that takes the
\* message may have freed by then.
ReadMsg(t) ==
  /\ Calling(t, "read")
  /\ rcvList # <<>>
  /\ Goto(t, "take")
  /\ defined' = (InRcvList = {})
  /\ UNCHANGED <<bRun, wpc, rx, tx, nPollCnt, portOpen, adapter, delivered,
                 rest>>

\* memcpy and dll_removeNode begin; the head is NULL if another thread has
\* taken the last message.
TakeBegins(t) ==
  /\ At(t, "take")
  /\ Goto(t, "taking")
  /\ defined' = (InRcvList = {} /\ wpc # "queueing" /\ rcvList # <<>>)
  /\ UNCHANGED <<bRun, wpc, rx, tx, nPollCnt, portOpen, adapter, delivered,
                 rest>>

\* Mutant: the message is copied and not removed.
TakeEndsKeeps(t) ==
  /\ At(t, "taking")
  /\ delivered' = Append(delivered, Head(rcvList))
  /\ Goto(t, "idle")
  /\ UNCHANGED <<bRun, wpc, rx, tx, nPollCnt, portOpen, adapter, rest,
                 defined>>

TakeEnds(t) ==
  /\ At(t, "taking")
  /\ delivered' = Append(delivered, Head(rcvList))
  /\ rcvList' = Tail(rcvList)
  /\ Goto(t, "idle")
  /\ UNCHANGED <<bRun, wpc, begun, cntRcv, tx, nPollCnt, portOpen, adapter,
                 rest, defined>>

\* setFilter, setMask and getStatus: one command, or two, each followed by a
\* readBuf without a timeout.
SetFilter(t, n) ==
  /\ Calling(t, "filter")
  /\ commands < MaxCommands
  /\ commands' = commands + 1
  /\ Command
  /\ Goto(t, IF n = 2 THEN "answer2" ELSE "answer1")
  /\ UNCHANGED <<bRun, wpc, rx, tx, nPollCnt, portOpen, delivered, bAuto,
                 deleted, sentAtClose, defined>>

SetFilterMask(t) ==
  /\ At(t, "answer2")
  /\ Command
  /\ Goto(t, "answer1")
  /\ UNCHANGED <<bRun, wpc, rx, tx, nPollCnt, portOpen, delivered, rest,
                 defined>>

SetFilterDone(t) ==
  /\ At(t, "answer1")
  /\ ReadBuf
  /\ Goto(t, "idle")
  /\ UNCHANGED <<bRun, wpc, rx, tx, nPollCnt, portOpen, busFrames,
                 delivered, rest, defined>>

Close(t) ==
  /\ Calling(t, "close")
  /\ bRun' = FALSE
  /\ sentAtClose' = IF bRun THEN Len(transmitted) ELSE sentAtClose
  /\ Goto(t, IF portOpen THEN "shut" ELSE "idle")
  /\ UNCHANGED <<wpc, rx, tx, nPollCnt, portOpen, adapter, delivered, bAuto,
                 commands, deleted, defined>>

\* "C\r" and comm.close
ClosePort(t) ==
  /\ At(t, "shut")
  /\ portOpen' = FALSE
  /\ line' = <<>>
  /\ Goto(t, "idle")
  /\ UNCHANGED <<bRun, wpc, rx, tx, nPollCnt, busFrames, delivered, rest,
                 defined>>

\* CanalClose deletes the object, once closed, with no other call under way: the
\* destructor empties both lists and the memory is freed.
Delete ==
  /\ defined /\ ~deleted /\ ~portOpen /\ ~bRun
  /\ \A t \in Threads : tpc[t] = "idle"
  /\ deleted' = TRUE
  /\ UNCHANGED <<bRun, wpc, tpc, rx, tx, nPollCnt, portOpen, adapter, delivered,
                 bAuto, commands, sentAtClose, defined>>

----------------------------------------------------------------------------
(* workThread *)

\* Mutant: m_bRun is looked at only when there is nothing to send.
WorkerLoopWhileBusy ==
  /\ WorkerAt("loop")
  /\ wpc' = IF bRun \/ sndList # <<>> THEN "receive" ELSE "done"
  /\ UNCHANGED <<bRun, tpc, rx, tx, nPollCnt, portOpen, adapter, delivered, rest,
                 defined>>

WorkerLoop ==
  /\ WorkerAt("loop")
  /\ wpc' = IF bRun THEN "receive" ELSE "done"
  /\ UNCHANGED <<bRun, tpc, rx, tx, nPollCnt, portOpen, adapter, delivered, rest,
                 defined>>

Abandon == begun' = NoFrame /\ cntRcv' = 0 /\ UNCHANGED wpc

\* A message ended by its CR is queued if there is room, dropped otherwise.
Complete ==
  \/ Len(rcvList) < MaxRcv /\ wpc' = "queue" /\ UNCHANGED <<begun, cntRcv>>
  \/ Len(rcvList) >= MaxRcv /\ Abandon

\* Mutant: the index is not checked.
StoreByteUnchecked == cntRcv' = cntRcv + 1 /\ UNCHANGED <<begun, wpc>>

\* A character is stored before its index is checked; at index BufSize it is
\* stored in the low byte of m_cntRcv, and the compiler may order that store and
\* the increment either way.
StoreByte ==
  \/ cntRcv < BufSize /\ cntRcv' = cntRcv + 1 /\ UNCHANGED <<begun, wpc>>
  \/ cntRcv >= BufSize /\ Abandon
  \/ cntRcv >= BufSize /\ cntRcv' \in 1 .. BufSize /\ UNCHANGED <<begun, wpc>>

\* while (0 != cnt): one character through the receive state machine.
WorkerReceive ==
  /\ WorkerAt("receive")
  /\ line # <<>>
  /\ line' = Tail(line)
  /\ LET c == Head(line) IN
       IF begun # NoFrame
         THEN IF c = Cr THEN Complete ELSE StoreByte
         ELSE /\ begun' = (IF c \in Frames THEN c ELSE NoFrame)
              /\ cntRcv' = (IF c \in Frames THEN 1 ELSE 0)
              /\ UNCHANGED wpc
  /\ UNCHANGED <<bRun, tpc, rcvList, tx, nPollCnt, portOpen, busFrames, delivered,
                 rest, defined>>

\* readChar found none, on the wire or on a closed port.
WorkerReceiveNothing ==
  /\ WorkerAt("receive")
  /\ wpc' = "transmit"
  /\ UNCHANGED <<bRun, tpc, rx, tx, nPollCnt, portOpen, adapter, delivered, rest,
                 defined>>

\* dll_addNode, and back to the loop.
QueueBegins ==
  /\ WorkerAt("queue")
  /\ wpc' = "queueing"
  /\ defined' = (InRcvList = {})
  /\ UNCHANGED <<bRun, tpc, rx, tx, nPollCnt, portOpen, adapter, delivered, rest>>

QueueEnds ==
  /\ WorkerAt("queueing")
  /\ rcvList' = Append(rcvList, begun)
  /\ begun' = NoFrame /\ cntRcv' = 0
  /\ wpc' = "receive"
  /\ UNCHANGED <<bRun, tpc, tx, nPollCnt, portOpen, adapter, delivered, rest,
                 defined>>

WorkerNoMessage ==
  /\ WorkerAt("transmit")
  /\ sndList = <<>>
  /\ wpc' = "poll"
  /\ UNCHANGED <<bRun, tpc, rx, tx, nPollCnt, portOpen, adapter, delivered, rest,
                 defined>>

\* The first message is copied and removed, and written.
RemoveBegins ==
  /\ WorkerAt("transmit")
  /\ sndList # <<>>
  /\ wpc' = "removing"
  /\ defined' = (InSndList = {})
  /\ UNCHANGED <<bRun, tpc, rx, tx, nPollCnt, portOpen, adapter, delivered, rest>>

RemoveEnds ==
  /\ WorkerAt("removing")
  /\ sndList' = Tail(sndList)
  /\ transmitted' = Append(transmitted, Head(sndList))
  /\ Command
  /\ wpc' = "answer"
  /\ UNCHANGED <<bRun, tpc, rx, nPollCnt, portOpen, delivered, rest, defined>>

\* readBuf; whatever it got makes no difference.
WorkerAnswer ==
  /\ WorkerAt("answer")
  /\ ReadBuf
  /\ wpc' = "poll"
  /\ UNCHANGED <<bRun, tpc, rx, tx, nPollCnt, portOpen, busFrames, delivered,
                 rest, defined>>

\* Without autopoll every PollEvery + 1 loops ask for frames.
WorkerPoll ==
  /\ WorkerAt("poll")
  /\ IF bAuto
       THEN UNCHANGED <<nPollCnt, adapter>>
       ELSE IF nPollCnt + 1 > PollEvery
              THEN nPollCnt' = 0 /\ Poll
              ELSE nPollCnt' = nPollCnt + 1 /\ UNCHANGED adapter
  /\ wpc' = "loop"
  /\ UNCHANGED <<bRun, tpc, rx, tx, portOpen, delivered, rest, defined>>

\* The worker goes on in a deleted object.
UseDeleted ==
  /\ defined /\ deleted /\ wpc # "done"
  /\ defined' = FALSE
  /\ UNCHANGED <<bRun, wpc, tpc, rx, tx, nPollCnt, portOpen, adapter, delivered,
                 rest>>

----------------------------------------------------------------------------
WorkerStep ==
  \/ WorkerLoop \/ WorkerReceive \/ WorkerReceiveNothing
  \/ QueueBegins \/ QueueEnds
  \/ WorkerNoMessage \/ RemoveBegins \/ RemoveEnds
  \/ WorkerAnswer \/ WorkerPoll \/ UseDeleted

CallStep(t) ==
  \/ WriteMsg(t) \/ AddBegins(t) \/ \E m \in Messages : AddEnds(t, m)
  \/ ReadMsg(t) \/ TakeBegins(t) \/ TakeEnds(t)
  \/ \E n \in {1, 2} : SetFilter(t, n)
  \/ SetFilterMask(t) \/ SetFilterDone(t)
  \/ Close(t) \/ ClosePort(t)

AtRest == (~defined \/ (deleted /\ wpc = "done")) /\ UNCHANGED vars

Next ==
  \/ WorkerStep
  \/ \E t \in Threads : CallStep(t)
  \/ Delete
  \/ BusFrame
  \/ AtRest

Spec == Init /\ [][Next]_vars

----------------------------------------------------------------------------
(* Properties *)

\* Every variable has its type.
TypeOK ==
  /\ bRun \in BOOLEAN /\ bAuto \in BOOLEAN /\ portOpen \in BOOLEAN
  /\ deleted \in BOOLEAN /\ defined \in BOOLEAN
  /\ wpc \in {"loop", "receive", "queue", "queueing", "transmit", "removing",
              "answer", "poll", "done"}
  /\ tpc \in [Threads -> {"idle", "add", "adding", "take", "taking", "answer2",
                          "answer1", "shut"}]
  /\ sndList \in Seq(Messages) /\ rcvList \in Seq(Frames)
  /\ begun \in {NoFrame} \cup Frames /\ cntRcv \in 0 .. BufSize
  /\ nPollCnt \in 0 .. PollEvery
  /\ line \in Seq(Tokens) /\ busFrames \in 0 .. MaxFrames
  /\ commands \in 0 .. MaxCommands
  /\ transmitted \in Seq(Messages) /\ delivered \in Seq(Frames)
  /\ sentAtClose \in Nat

\* The room for a message is looked for before the list is entered, by any
\* number of threads at once: the send queue outgrows CAN232_MAX_SNDMSG by one
\* message less than there are threads, and never by more.
RoomKept == Len(sndList) + Cardinality(Adding) <= MaxSnd + Cardinality(Threads) - 1

\* "Terminate the thread" (common/can232obj.cpp:273): close does not wait for it,
\* nor does anybody, but it ends with the loop it is in, whoever still writes: it
\* takes one message off the queue at most, to write it to a port that may be
\* closed.
OneMessageLate == ~bRun => Len(transmitted) <= sentAtClose + 1

\* "Release the mutex for other threads to use" (common/can232obj.cpp:257): the
\* mutex lets one thread at a time into a list.
ListsExclusive ==
  /\ Cardinality(InSndList) + (IF wpc = "removing" THEN 1 ELSE 0) <= 1
  /\ Cardinality(InRcvList) + (IF wpc = "queueing" THEN 1 ELSE 0) <= 1

\* As long as nothing undefined has happened, the object is the abstract
\* channel with a send queue longer by RoomKept; it is closed not when close
\* returns but when the worker has ended.
Phase == IF bRun THEN "open" ELSE IF wpc = "done" THEN "closed" ELSE "closing"
Fifo == INSTANCE CanalFifo WITH
          MaxSnd <- MaxSnd + Cardinality(Threads) - 1,
          phase <- Phase, sndQ <- sndList, written <- transmitted,
          rcvQ <- rcvList, fetched <- delivered
ImplementsFifo == Fifo!Spec
=============================================================================
