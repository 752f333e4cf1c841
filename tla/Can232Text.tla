----------------------------- MODULE Can232Text -----------------------------
(***************************************************************************)
(* CANAL messages and the text of the CAN232 protocol (linux/can232obj.cpp *)
(* 721-749 and can232ToCanal): what the worker of one node writes, what    *)
(* its adapter makes of it on the bus, and what the driver of another node *)
(* makes of the text its adapter sends for a frame on the bus.             *)
(* The answer to a message, and the commands of setFilter, setMask and     *)
(* close, are left to Can232Obj.                                           *)
(*                                                                         *)
(* A number is the sequence of its hex digits, an id of eight, a byte of   *)
(* two, a timestamp of four; a text is a sequence of characters, and a     *)
(* character is a hex digit (0 .. 15) or one of the five below.            *)
(***************************************************************************)
EXTENDS Integers, Sequences

CONSTANTS
  Messages,   \* messages the application sends
  Others,     \* frames that other nodes put on the bus
  Stamps,     \* timestamps the receiving adapter appends
  MaxSent,    \* bound: messages sent
  MaxOthers   \* bound: frames of other nodes

Digits == 0 .. 15
t == 16
T == 17
r == 18
R == 19
CR == 20
Chars == 0 .. 20

Bytes == Digits \X Digits
IdWidth(ext) == IF ext THEN 8 ELSE 3

IsId(id, width) == id \in Seq(Digits) /\ Len(id) = width
IsData(data) == data \in Seq(Bytes) /\ Len(data) <= 8
IsStamp(stamp) == stamp \in Seq(Digits) /\ Len(stamp) = 4

\* A canalMsg: its id may be any number of 32 bits.
IsMessage(m) ==
  /\ m.ext \in BOOLEAN /\ m.rtr \in BOOLEAN
  /\ IsId(m.id, 8) /\ IsData(m.data)

\* A frame on the bus: 11 or 29 bits of id; a remote frame has a size, no data.
IsFrameId(ext, id) == IsId(id, IdWidth(ext)) /\ id[1] < IF ext THEN 2 ELSE 8
IsFrame(f) ==
  /\ f.ext \in BOOLEAN /\ f.rtr \in BOOLEAN /\ f.own \in BOOLEAN
  /\ IsFrameId(f.ext, f.id)
  /\ f.size \in 0 .. 8
  /\ IsData(f.data) /\ Len(f.data) = IF f.rtr THEN 0 ELSE f.size

Frames ==
  {f \in [ext : BOOLEAN, rtr : BOOLEAN, id : Seq(Digits), size : 0 .. 8,
          data : Seq(Bytes), own : BOOLEAN] : IsFrame(f)}

ASSUME MessagesAssumption == \A m \in Messages : IsMessage(m)
ASSUME OthersAssumption == Others \subseteq {f \in Frames : ~f.own}
ASSUME StampsAssumption == \A stamp \in Stamps : IsStamp(stamp)
ASSUME BoundsAssumption == MaxSent \in Nat /\ MaxOthers \in Nat

VARIABLES
  auto,      \* m_bAuto of the sending node
  stamping,  \* the receiving adapter appends timestamps
  sent,      \* history: messages the worker has written
  polled,    \* history: numbers of messages after which it has polled
  held,      \* the sending adapter's characters of a command without its CR
  bus,       \* the frames on the bus
  heard      \* the receiving driver's message for each, with the timestamp
             \* its adapter gave the frame

vars == <<auto, stamping, sent, polled, held, bus, heard>>

Init ==
  /\ auto \in BOOLEAN /\ stamping \in BOOLEAN
  /\ sent = <<>> /\ polled = {} /\ held = <<>> /\ bus = <<>> /\ heard = <<>>

----------------------------------------------------------------------------
(* From a message to text *)

\* Mutant: the id is printed as the application passed it.
ClippedNot(ext, id) == IF ext THEN id ELSE SubSeq(id, 6, 8)

\* The id is cut to 29 or 11 bits.
Clipped(ext, id) ==
  IF ext THEN [id EXCEPT ![1] = @ % 2]
         ELSE [SubSeq(id, 6, 8) EXCEPT ![1] = @ % 8]

DataDigits(data) ==
  [i \in 1 .. 2 * Len(data) |-> data[(i + 1) \div 2][2 - (i % 2)]]

\* The worker's text; the RTR flag is not looked at, and the CR is appended
\* only where there is data.
Text(m) ==
  <<IF m.ext THEN T ELSE t>> \o Clipped(m.ext, m.id) \o <<Len(m.data)>>
    \o DataDigits(m.data) \o (IF m.data = <<>> THEN <<>> ELSE <<CR>>)

\* "A\r"
PollText == <<10, CR>>

----------------------------------------------------------------------------
(* The sending adapter *)

Pairs(s, from, n) ==
  [i \in 1 .. n |-> <<s[from + 2 * i - 2], s[from + 2 * i - 1]>>]

\* A command begins with a whole frame, of this length.
FrameLength(cmd) == IdWidth(cmd[1] = T) + 2 + 2 * cmd[IdWidth(cmd[1] = T) + 2]
BeginsWithFrame(cmd) ==
  /\ cmd[1] \in {t, T}
  /\ IdWidth(cmd[1] = T) + 2 < Len(cmd)
  /\ cmd[IdWidth(cmd[1] = T) + 2] \in 0 .. 8
  /\ FrameLength(cmd) < Len(cmd)
  /\ \A i \in 2 .. FrameLength(cmd) : cmd[i] \in Digits
  /\ IsFrameId(cmd[1] = T, SubSeq(cmd, 2, 1 + IdWidth(cmd[1] = T)))

FrameIn(cmd) ==
  LET ext == cmd[1] = T
      n == cmd[IdWidth(ext) + 2]
  IN [ext |-> ext, rtr |-> FALSE, id |-> SubSeq(cmd, 2, 1 + IdWidth(ext)),
      size |-> n, data |-> Pairs(cmd, IdWidth(ext) + 3, n), own |-> TRUE]

\* A command is complete with its CR.  The adapter sends a frame for one that
\* is a frame; from one that goes on after a frame it may send it or refuse it.
Takes(text) ==
  LET cmd == held \o text
  IN IF cmd[Len(cmd)] # CR
       THEN held' = cmd /\ UNCHANGED bus
       ELSE /\ held' = <<>>
            /\ \/ BeginsWithFrame(cmd) /\ bus' = Append(bus, FrameIn(cmd))
               \/ ~(BeginsWithFrame(cmd) /\ FrameLength(cmd) = Len(cmd) - 1)
                  /\ UNCHANGED bus

----------------------------------------------------------------------------
(* From text to a message *)

\* The receiving adapter's text for frame f, with timestamp stamp if it is on.
Letter(f) == IF f.rtr THEN IF f.ext THEN R ELSE r ELSE IF f.ext THEN T ELSE t
AdapterText(f, stamp) ==
  <<Letter(f)>> \o f.id \o <<f.size>> \o DataDigits(f.data)
    \o (IF stamping THEN stamp ELSE <<>>) \o <<CR>>

Ends(p, at) == {n \in 0 .. Len(p) : at + n > Len(p) \/ p[at + n] \notin Digits}
Shortest(ends) == CHOOSE k \in ends : \A j \in ends : k <= j

\* Mutant: the text is not cut behind four characters.
ScanUnlimited(p, at) ==
  LET n == Shortest(Ends(p, at))
  IN IF n <= 4 THEN [i \in 1 .. 4 |-> IF i + n <= 4 THEN 0 ELSE p[at + i + n - 5]]
               ELSE SubSeq(p, at, at + n - 1)

\* sscanf "%x" of at most the four characters from p[at] on.
Scan(p, at) ==
  LET n == Shortest(Ends(p, at) \cup {4})
  IN [i \in 1 .. 4 |-> IF i + n <= 4 THEN 0 ELSE p[at + i + n - 5]]

\* Mutant: the data of a frame with a long id begins at its size.
DataOffsetShort(rtr, ext) == IF rtr \/ ext THEN IdWidth(ext) + 2 ELSE IdWidth(ext) + 3

\* data_offset: of a remote frame, which has no data, it is that of its size.
DataOffset(rtr, ext) == IF rtr THEN IdWidth(ext) + 2 ELSE IdWidth(ext) + 3

\* can232ToCanal
Can232ToCanal(p) ==
  LET ext == p[1] \in {T, R}
      rtr == p[1] \in {r, R}
      size == IF rtr THEN 0 ELSE p[IdWidth(ext) + 2]
      offset == DataOffset(rtr, ext)
      end == offset + 2 * size
  IN [ext |-> ext, rtr |-> rtr, id |-> SubSeq(p, 2, 1 + IdWidth(ext)),
      data |-> Pairs(p, offset, size),
      stamp |-> IF p[end] # CR THEN Scan(p, end) ELSE <<0, 0, 0, 0>>]

----------------------------------------------------------------------------

\* The worker writes the next message.
Transmit(m) ==
  /\ Len(sent) < MaxSent
  /\ sent' = Append(sent, m)
  /\ Takes(Text(m))
  /\ UNCHANGED <<auto, stamping, polled, heard>>

\* The worker polls, which without a half command changes nothing here.
Poll ==
  /\ ~auto
  /\ held # <<>>
  /\ Takes(PollText)
  /\ polled' = polled \cup {Len(sent)}
  /\ UNCHANGED <<auto, stamping, sent, heard>>

OtherFrame(f) ==
  /\ Len(SelectSeq(bus, LAMBDA g : ~g.own)) < MaxOthers
  /\ bus' = Append(bus, f)
  /\ UNCHANGED <<auto, stamping, sent, polled, held, heard>>

\* What the adapter of the other node makes of frame f, and its driver of that.
Received(f, stamp) ==
  [stamp |-> IF stamping THEN stamp ELSE <<0, 0, 0, 0>>,
   msg |-> Can232ToCanal(AdapterText(f, stamp))]

\* The next frame on the bus is received by the other node.
Hear(stamp) ==
  /\ Len(heard) < Len(bus)
  /\ heard' = Append(heard, Received(bus[Len(heard) + 1], stamp))
  /\ UNCHANGED <<auto, stamping, sent, polled, held, bus>>

Next ==
  \/ \E m \in Messages : Transmit(m)
  \/ Poll
  \/ \E f \in Others : OtherFrame(f)
  \/ \E stamp \in Stamps : Hear(stamp)

Spec == Init /\ [][Next]_vars

----------------------------------------------------------------------------
(* Properties *)

IsHeard(h) ==
  /\ IsStamp(h.stamp) /\ IsStamp(h.msg.stamp)
  /\ IsFrameId(h.msg.ext, h.msg.id) /\ IsData(h.msg.data)
Heard ==
  {h \in [stamp : Seq(Digits),
          msg : [ext : BOOLEAN, rtr : BOOLEAN, id : Seq(Digits),
                 data : Seq(Bytes), stamp : Seq(Digits)]] : IsHeard(h)}

\* Every variable has its type: what is on the bus are frames a CAN bus can
\* carry, whatever ids the application passes, and what the driver makes of
\* them are messages with ids of 11 or 29 bits and timestamps of 16.
TypeOK ==
  /\ auto \in BOOLEAN /\ stamping \in BOOLEAN
  /\ sent \in Seq(Messages) /\ polled \subseteq 1 .. MaxSent
  /\ held \in Seq(Chars)
  /\ bus \in Seq(Frames)
  /\ heard \in Seq(Heard) /\ Len(heard) <= Len(bus)

\* The frame message m should be; the RTR flag is ignored by the code.
FrameOf(m) ==
  [ext |-> m.ext, rtr |-> FALSE,
   id |-> IF m.ext THEN <<m.id[1] % 2>> \o SubSeq(m.id, 2, 8)
                   ELSE <<m.id[6] % 8>> \o SubSeq(m.id, 7, 8),
   size |-> Len(m.data), data |-> m.data, own |-> TRUE]

\* Message i comes with its data, and behind no half command.
Spoiled(i) == i > 1 /\ sent[i - 1].data = <<>> /\ i - 1 \notin polled
Whole(i) == sent[i].data # <<>> /\ ~Spoiled(i)
Expected == {i \in 1 .. Len(sent) : Whole(i)}

\* Where the bus carries data of this node.
Carried == {k \in DOMAIN bus : bus[k].own /\ bus[k].data # <<>>}

\* Messages with data reach the bus once each, in order and as they were
\* written, clipped, save the one behind a message without data when no poll
\* came between: the missing CR costs no more than that.
DataReachesBus ==
  \E at \in [Expected -> DOMAIN bus] :
    /\ \A i \in Expected : bus[at[i]] = FrameOf(sent[i])
    /\ \A i, j \in Expected : i < j => at[i] < at[j]
    /\ Carried = {at[i] : i \in Expected}

\* Each frame on the bus becomes the message it is, with the timestamp its
\* adapter gave it; of a remote frame the timestamp is left out.
Understood ==
  \A i \in DOMAIN heard :
    LET m == heard[i].msg
    IN /\ m.ext = bus[i].ext /\ m.rtr = bus[i].rtr
       /\ m.id = bus[i].id /\ m.data = bus[i].data
       /\ ~m.rtr => m.stamp = heard[i].stamp

\* "Send frame" (can232obj.h:139, writeMsg): once a message is followed by
\* another, written later, it has been put on the bus.
MessageReachesBus ==
  \A i \in 1 .. Len(sent) - 1 :
    \E j \in DOMAIN bus : bus[j] = FrameOf(sent[i])
=============================================================================
