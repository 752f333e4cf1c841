-------------------------- MODULE Can232OpenProofs --------------------------
(***************************************************************************)
(* Theorems about Can232Open, for any number of tries and any room in the  *)
(* response and on the line.                                               *)
(***************************************************************************)
EXTENDS Can232Open, SequenceTheorems, FiniteSetTheorems, TLAPS

----------------------------------------------------------------------------
(* What the steps do to the line and to pc *)

\* A read or a drain leaves the rest of the line.
LEMMA TakesRest ==
  ASSUME line \in Seq(Tokens), NEW n \in Nat, NEW cap \in Nat, Takes(n, cap)
  PROVE  /\ line' \in Seq(Tokens) /\ Len(line') = Len(line) - n
         /\ adapter.reliable /\ Len(line) <= cap => line' = <<>>
  <1>1. n \in 0 .. Len(line)
    BY DEF Takes
  <1>2. \A i \in n + 1 .. Len(line) : line[i] \in Tokens
    BY <1>1
  <1>3. line' \in Seq(Tokens) /\ Len(line') = Len(line) - n
    BY <1>1, <1>2, SubSeqProperties DEF Takes
  <1>4. ASSUME adapter.reliable, Len(line) <= cap PROVE line' = <<>>
    BY <1>3, <1>4, EmptySeq DEF Takes
  <1> QED
    BY <1>3, <1>4

Answers ==
  {<<>>, <<"cr">>, <<"bell">>, <<"ver1", "ver2">>}

LEMMA AnswersTyped == Answers \subseteq Seq(Tokens)
  <1>1. <<>> \in Seq(Tokens)
    OBVIOUS
  <1> QED
    BY <1>1 DEF Answers, Tokens

\* A reply fits on the line.
LEMMA ReplyType ==
  ASSUME line \in Seq(Tokens), Len(line) <= LineCap,
         NEW S \in SUBSET Answers, Reply(S)
  PROVE  line' \in Seq(Tokens) /\ Len(line') <= LineCap
  <1>1. PICK a \in S : line' = IF Len(line \o a) <= LineCap THEN line \o a ELSE line
    BY DEF Reply
  <1>2. a \in Seq(Tokens)
    BY AnswersTyped
  <1>3. line \o a \in Seq(Tokens)
    BY <1>2
  <1> QED
    BY <1>1, <1>3

LEMMA PutsType ==
  ASSUME TypeOK, NEW c, Puts(c) \/ PutsNothing
  PROVE  /\ line' \in Seq(Tokens) /\ Len(line') <= LineCap
         /\ busOpen' \in BOOLEAN /\ halfCommand' \in BOOLEAN
         /\ speed' \in {Unset, Last, BitrateCommand(config)}
  <1>1. CASE PutsNothing
    BY <1>1 DEF PutsNothing, device, TypeOK
  <1>2. CASE Puts(c)
    <2>1. PICK S \in SUBSET Answers : Reply(S)
      <3>1. /\ {<<"bell">>} \subseteq Answers /\ {<<"cr">>} \subseteq Answers
            /\ {<<"cr">>, <<"bell">>} \subseteq Answers
            /\ {<<"ver1", "ver2">>} \subseteq Answers
            /\ {<<"cr">>, <<"bell">>, <<>>} \subseteq Answers
        BY DEF Answers
      <3> HIDE DEF Answers
      <3> QED
        BY <1>2, <3>1, Zenon DEF Puts, Obey
    <2>2. /\ busOpen' \in BOOLEAN /\ halfCommand' \in BOOLEAN
          /\ speed' \in {Unset, Last, BitrateCommand(config)}
      BY <1>2 DEF Puts, Obey, TypeOK
    <2> QED
      BY <2>1, <2>2, ReplyType DEF TypeOK
  <1> QED
    BY <1>1, <1>2

LEMMA CommandType ==
  ASSUME TypeOK, NEW here \in Labels, NEW c, NEW there \in Labels,
         Command(here, c, there)
  PROVE  TypeOK'
  BY PutsType DEF Command, TypeOK, object

LEMMA GetsType ==
  ASSUME TypeOK, NEW n \in Nat, Gets(n)
  PROVE  line' \in Seq(Tokens) /\ Len(line') <= LineCap
  BY TakesRest, CapAssumption DEF CapAssumption, Gets, TypeOK

----------------------------------------------------------------------------
(* Type correctness *)

\* A loop is left before try_count has passed its limit by more than one.
Counted ==
  /\ pc \in {"close", "closeAnswer"} => tries <= MaxTries + 1
  /\ pc \in {"version", "versionAnswer", "drain3", "cr2"} => tries <= MaxTries
Typed == TypeOK /\ Counted

LEMMA InitTyped == Init => Typed
  <1> SUFFICES ASSUME Init PROVE Typed
    OBVIOUS
  <1>1. /\ <<>> \in Seq(Tokens) /\ <<"frame">> \in Seq(Tokens)
        /\ Len(<<>>) = 0 /\ Len(<<"frame">>) = 1
    BY DEF Tokens
  <1>2. line \in Seq(Tokens) /\ Len(line) <= LineCap
    <2>1. line = <<>> \/ line = <<"frame">>
      BY DEF Init
    <2>2. CASE line = <<>>
      BY <1>1, <2>2, CapAssumption DEF CapAssumption
    <2>3. CASE line = <<"frame">>
      BY <1>1, <2>3, CapAssumption DEF CapAssumption
    <2> QED
      BY <2>1, <2>2, <2>3
  <1>3. pc = "open" /\ tries \in 0 .. MaxTries + 2
    BY TriesAssumption DEF Init, TriesAssumption
  <1> QED
    BY <1>2, <1>3 DEF Init, Typed, TypeOK, Counted, Labels, Adapters

LEMMA TypedStep == Typed /\ [Next]_vars => Typed'
  <1> SUFFICES ASSUME Typed, [Next]_vars PROVE Typed'
    OBVIOUS
  <1> USE TriesAssumption DEF TriesAssumption, Typed, Counted
  <1>1. CASE OpenPort \/ OpenPortFails
    <2>1. TypeOK'
      <3>1. tries' \in 0 .. MaxTries + 2
        BY <1>1 DEF OpenPort, OpenPortFails, TypeOK
      <3> QED
        BY <1>1, <3>1, ZenonT(60)
           DEF OpenPort, OpenPortFails, TypeOK, device, Labels
    <2>2. Counted'
      BY <1>1 DEF OpenPort, OpenPortFails, TypeOK
    <2> QED
      BY <2>1, <2>2
  <1>2. CASE CloseBus \/ EmptyCommand \/ GetVersion \/ SetBitrate \/ OpenBus
             \/ CheckAuto
    <2>1. PICK here \in Labels, c \in {"C", "\r", "V", "S", "O", "P"},
               there \in Labels : Command(here, c, there)
      BY <1>2 DEF CloseBus, EmptyCommand, GetVersion, SetBitrate, OpenBus,
                  CheckAuto, Labels
    <2>2. TypeOK'
      BY <2>1, CommandType
    <2>3. pc = here /\ pc' = there /\ tries' = tries
      BY <2>1 DEF Command
    <2> QED
      BY <1>2, <2>2, <2>3 DEF CloseBus, EmptyCommand, GetVersion, SetBitrate,
                              OpenBus, CheckAuto, Command
  <1>3. CASE CommandFails
    BY <1>3 DEF CommandFails, PutsNothing, GiveUp, TypeOK, device, Labels
  <1>4. ASSUME NEW n \in 0 .. ResponseCap, CloseBusAnswer(n) PROVE Typed'
    <2>1. line' \in Seq(Tokens) /\ Len(line') <= LineCap
      BY <1>4, GetsType DEF CloseBusAnswer
    <2>2. tries' \in 0 .. MaxTries + 2 /\ Counted'
      BY <1>4 DEF CloseBusAnswer, GiveUp, TypeOK
    <2>3. pc' \in Labels
      BY <1>4 DEF CloseBusAnswer, GiveUp, Labels
    <2>4. bRun' \in BOOLEAN /\ portOpen' \in BOOLEAN
      BY <1>4, Zenon DEF CloseBusAnswer, GiveUp, TypeOK
    <2> QED
      BY <1>4, <2>1, <2>2, <2>3, <2>4 DEF CloseBusAnswer, GiveUp, TypeOK
  <1>5. ASSUME NEW n \in 0 .. ResponseCap, GetVersionAnswer(n) PROVE Typed'
    <2>1. line' \in Seq(Tokens) /\ Len(line') <= LineCap
      BY <1>5, GetsType DEF GetVersionAnswer
    <2>2. version' \in {"none", "old", "new"}
      BY <1>5 DEF GetVersionAnswer, TypeOK
    <2>3. tries' \in 0 .. MaxTries + 2 /\ Counted'
      BY <1>5 DEF GetVersionAnswer, GiveUp, TypeOK
    <2>4. pc' \in Labels
      BY <1>5 DEF GetVersionAnswer, GiveUp, Labels
    <2>5. bRun' \in BOOLEAN /\ portOpen' \in BOOLEAN
      BY <1>5, Zenon DEF GetVersionAnswer, GiveUp, TypeOK
    <2> QED
      BY <1>5, <2>1, <2>2, <2>3, <2>4, <2>5
         DEF GetVersionAnswer, GiveUp, TypeOK
  <1>6. ASSUME NEW n \in 0 .. ResponseCap,
               SetBitrateAnswer(n) \/ OpenBusAnswer(n)
        PROVE  Typed'
    <2>1. line' \in Seq(Tokens) /\ Len(line') <= LineCap
      BY <1>6, GetsType DEF SetBitrateAnswer, OpenBusAnswer, Ignored
    <2> QED
      BY <1>6, <2>1 DEF SetBitrateAnswer, OpenBusAnswer, Ignored, TypeOK,
                        object, Labels
  <1>7. ASSUME NEW n \in 0 .. ResponseCap, CheckAutoAnswer(n) PROVE Typed'
    <2>1. line' \in Seq(Tokens) /\ Len(line') <= LineCap
      BY <1>7, GetsType DEF CheckAutoAnswer
    <2> QED
      BY <1>7, <2>1 DEF CheckAutoAnswer, TypeOK, Labels
  <1>8. ASSUME NEW n \in 0 .. LineCap, Drain(n) PROVE Typed'
    <2>1. line' \in Seq(Tokens) /\ Len(line') <= LineCap
      BY <1>8, TakesRest, CapAssumption DEF CapAssumption, Drain, TypeOK
    <2>2. pc' \in {"cr1", "cr2", "version"}
      BY <1>8 DEF Drain, Drained
    <2>3. pc' \in Labels /\ tries' = 0
      BY <1>8, <2>2 DEF Drain, Labels
    <2>4. TypeOK'
      BY <1>8, <2>1, <2>3 DEF Drain, TypeOK, object
    <2> QED
      BY <2>2, <2>3, <2>4
  <1>9. CASE StartWorker \/ StartWorkerFails \/ Delete
    <2>1. pc' \in Labels /\ Counted'
      BY <1>9 DEF StartWorker, StartWorkerFails, Delete, GiveUp, Labels
    <2>2. tries' \in 0 .. MaxTries + 2
      BY <1>9 DEF StartWorker, StartWorkerFails, Delete, TypeOK
    <2>3. CASE StartWorker
      BY <2>1, <2>2, <2>3, ZenonT(30) DEF StartWorker, TypeOK, device
    <2>4. CASE StartWorkerFails
      BY <2>1, <2>2, <2>4, ZenonT(30)
         DEF StartWorkerFails, GiveUp, TypeOK, device
    <2>5. CASE Delete
      BY <2>1, <2>2, <2>5, ZenonT(30) DEF Delete, TypeOK, device
    <2> QED
      BY <1>9, <2>3, <2>4, <2>5
  <1>10. CASE BusFrame
    <2>1. line' \in Seq(Tokens) /\ Len(line') <= LineCap
      BY <1>10, CapAssumption DEF CapAssumption, BusFrame, TypeOK, Tokens
    <2> QED
      BY <1>10, <2>1 DEF BusFrame, TypeOK, object
  <1>11. CASE UNCHANGED vars
    BY <1>11 DEF vars, TypeOK
  <1> QED
    BY <1>1, <1>2, <1>3, <1>4, <1>5, <1>6, <1>7, <1>8, <1>9, <1>10, <1>11
       DEF Next, Open, AtRest

\* Every state is well typed.
THEOREM TypeCorrect == Spec => []TypeOK
  <1> QED
    BY InitTyped, TypedStep, PTL DEF Spec, Typed

----------------------------------------------------------------------------
(* The port of an open that failed *)

Commands ==
  CloseBus \/ EmptyCommand \/ GetVersion \/ SetBitrate \/ OpenBus \/ CheckAuto
Ends == {"open", "failed", "deleted", "crashed"}

\* The commands are sent between the two ends of open, and leave the object as
\* it is.
LEMMA CommandsKeepObject ==
  ASSUME Commands
  PROVE  /\ pc \notin Ends \cup {"running"} /\ pc' \notin Ends \cup {"running"}
         /\ UNCHANGED <<bRun, version, bAuto, portOpen, worker, adapter>>
  BY DEF Commands, CloseBus, EmptyCommand, GetVersion, SetBitrate, OpenBus,
         CheckAuto, Command, object, Ends

Released ==
  /\ pc \in Ends => ~portOpen
  /\ worker => pc = "running"

LEMMA ReleasedStep == TypeOK /\ Released /\ [Next]_vars => Released'
  <1> SUFFICES ASSUME TypeOK, Released, [Next]_vars PROVE Released'
    OBVIOUS
  <1> USE DEF Released
  <1>1. CASE OpenPort \/ OpenPortFails
    BY <1>1 DEF OpenPort, OpenPortFails, Ends
  <1>2. CASE Commands
    BY <1>2, CommandsKeepObject
  <1>3. CASE CommandFails
    BY <1>3 DEF CommandFails, GiveUp
  <1>4. ASSUME NEW n \in 0 .. ResponseCap, CloseBusAnswer(n) PROVE Released'
    BY <1>4 DEF CloseBusAnswer, GiveUp, Ends
  <1>5. ASSUME NEW n \in 0 .. ResponseCap, GetVersionAnswer(n) PROVE Released'
    BY <1>5 DEF GetVersionAnswer, GiveUp, Ends
  <1>6. ASSUME NEW n \in 0 .. ResponseCap,
               SetBitrateAnswer(n) \/ OpenBusAnswer(n) \/ CheckAutoAnswer(n)
        PROVE  Released'
    BY <1>6 DEF SetBitrateAnswer, OpenBusAnswer, CheckAutoAnswer, Ignored,
                object, Ends
  <1>7. ASSUME NEW n \in 0 .. LineCap, Drain(n) PROVE Released'
    BY <1>7 DEF Drain, Drained, object, Ends
  <1>8. CASE StartWorker \/ StartWorkerFails \/ Delete
    BY <1>8 DEF StartWorker, StartWorkerFails, Delete, GiveUp, Ends
  <1>9. CASE BusFrame \/ UNCHANGED vars
    BY <1>9 DEF BusFrame, vars, object
  <1> QED
    BY <1>1, <1>2, <1>3, <1>4, <1>5, <1>6, <1>7, <1>8, <1>9
       DEF Next, Open, AtRest, Commands

\* An open that fails closes the port and starts no worker, on every path.
THEOREM PortReleased == Spec => []FailureReleasesPort
  <1>1. Init => Released
    BY DEF Init, Released
  <1>2. Released => FailureReleasesPort
    BY DEF Released, FailureReleasesPort, Ends
  <1> QED
    BY <1>1, <1>2, InitTyped, TypedStep, ReleasedStep, PTL DEF Spec, Typed

----------------------------------------------------------------------------
(* An adapter that answers in time and holds no half command at first, and *)
(* understands the bitrate command *)

Good ==
  adapter.reliable /\ adapter.clean /\ WellFormed(BitrateCommand(config))

BusClosed ==
  {"closeAnswer", "drain1", "cr1", "drain2", "cr2", "drain3", "version",
   "versionAnswer", "bitrate", "bitrateAnswer", "bus"}
BusOpened == {"busAnswer", "auto", "autoAnswer", "thread", "running"}

\* The bus is closed from the first "C" to the "O", and gets its bitrate in
\* between.
Dialogue ==
  Good =>
    /\ ~halfCommand
    /\ pc \in BusClosed => ~busOpen
    /\ pc \in {"bitrateAnswer", "bus"} \cup BusOpened => speed = BitrateCommand(config)
    /\ pc \in BusOpened => busOpen

\* What open sends sets a bitrate.
LEMMA CommandSets == \A c : BitrateCommand(c) # Unset
  BY DEF BitrateCommand, Command_S, Command_s, Unset

LEMMA DialogueStep == TypeOK /\ Dialogue /\ [Next]_vars => Dialogue'
  <1> SUFFICES ASSUME TypeOK, Dialogue, [Next]_vars, Good'
               PROVE  Dialogue'
    BY DEF Dialogue
  <1> USE DEF Dialogue, Good, BusClosed, BusOpened
  <1>0. adapter' = adapter /\ config' = config /\ Good
    BY DEF Next, Open, vars, AtRest, OpenPort, OpenPortFails, CloseBus,
           EmptyCommand, GetVersion, SetBitrate, OpenBus, CommandFails,
           CheckAuto, Command, CloseBusAnswer, GetVersionAnswer,
           SetBitrateAnswer, OpenBusAnswer, CheckAutoAnswer, Ignored, Drain,
           StartWorker, StartWorkerFails, Delete, BusFrame
  <1>1. CASE OpenPort \/ OpenPortFails
    BY <1>0, <1>1 DEF OpenPort, OpenPortFails, device
  <1>2. CASE CloseBus
    BY <1>0, <1>2 DEF CloseBus, Command, Puts, PutsNothing, Obey
  <1>3. CASE EmptyCommand
    BY <1>0, <1>3 DEF EmptyCommand, Command, Puts, PutsNothing, Obey
  <1>4. CASE GetVersion
    BY <1>0, <1>4 DEF GetVersion, Command, Puts, PutsNothing, Obey
  <1>5. CASE SetBitrate
    BY <1>0, <1>5 DEF SetBitrate, Command, Puts, PutsNothing, Obey
  <1>6. CASE OpenBus
    BY <1>0, <1>6, CommandSets DEF OpenBus, Command, Puts, PutsNothing, Obey
  <1>7. CASE CheckAuto
    BY <1>0, <1>7 DEF CheckAuto, Command, Puts, PutsNothing, Obey
  <1>8. CASE CommandFails
    BY <1>0, <1>8 DEF CommandFails, GiveUp, PutsNothing
  <1>9. ASSUME NEW n \in 0 .. ResponseCap, CloseBusAnswer(n) PROVE Dialogue'
    BY <1>0, <1>9 DEF CloseBusAnswer, GiveUp
  <1>10. ASSUME NEW n \in 0 .. ResponseCap, GetVersionAnswer(n)
         PROVE  Dialogue'
    BY <1>0, <1>10 DEF GetVersionAnswer, GiveUp
  <1>11. ASSUME NEW n \in 0 .. ResponseCap,
                SetBitrateAnswer(n) \/ OpenBusAnswer(n) \/ CheckAutoAnswer(n)
         PROVE  Dialogue'
    BY <1>0, <1>11 DEF SetBitrateAnswer, OpenBusAnswer, CheckAutoAnswer, Ignored
  <1>12. ASSUME NEW n \in 0 .. LineCap, Drain(n) PROVE Dialogue'
    BY <1>0, <1>12 DEF Drain, Drained
  <1>13. CASE StartWorker \/ StartWorkerFails \/ Delete
    BY <1>0, <1>13 DEF StartWorker, StartWorkerFails, Delete, GiveUp, device
  <1>14. CASE BusFrame \/ UNCHANGED vars
    BY <1>0, <1>14 DEF BusFrame, vars
  <1> QED
    BY <1>1, <1>2, <1>3, <1>4, <1>5, <1>6, <1>7, <1>8, <1>9, <1>10, <1>11,
       <1>12, <1>13, <1>14 DEF Next, Open, AtRest

\* open returns TRUE of such an adapter only with its bus open as asked.
THEOREM OpenedAsAsked == Spec => []OpensBusAsAsked
  <1>1. Init => Dialogue
    BY DEF Init, Dialogue, Good, BusClosed, BusOpened, Adapters
  <1>2. Dialogue => OpensBusAsAsked
    BY DEF Dialogue, OpensBusAsAsked, Good, BusOpened
  <1> QED
    BY <1>1, <1>2, InitTyped, TypedStep, DialogueStep, PTL DEF Spec, Typed

----------------------------------------------------------------------------
(* The configuration string *)

\* Without empty fields parameter i is field i.
LEMMA ParamIsField ==
  ASSUME NEW c \in Seq(Field), \A k \in DOMAIN c : c[k].form # "empty",
         NEW i \in Nat \ {0}, NEW default
  PROVE  Param(c, i, default) = IF i <= Len(c) THEN Atoi(c[i]) ELSE default
  <1>1. Filled(c) = 1 .. Len(c)
    BY DEF Filled
  <1>2. ASSUME NEW k \in DOMAIN c PROVE IsParam(c, i, k) <=> k = i
    <2>1. Filled(c) \cap 1 .. k = 1 .. k /\ k \in Filled(c)
      BY <1>1
    <2>2. Cardinality(1 .. k) = k
      BY FS_Interval
    <2> QED
      BY <2>1, <2>2 DEF IsParam
  <1>3. CASE i <= Len(c)
    <2>1. i \in DOMAIN c /\ IsParam(c, i, i)
      BY <1>2, <1>3
    <2>2. (CHOOSE k \in DOMAIN c : IsParam(c, i, k)) = i
      BY <1>2, <2>1
    <2> QED
      BY <1>3, <2>1, <2>2 DEF Param
  <1>4. CASE ~(i <= Len(c))
    BY <1>2, <1>4 DEF Param
  <1> QED
    BY <1>3, <1>4

\* The code of a speed the adapter knows is its place in the adapter's table.
LEMMA SpeedHasCode ==
  ASSUME NEW k \in 1 .. 9
  PROVE  Rates[NSpeed(Rates[k]) + 1] = Rates[k]
  <1>1. CASE k = 1
    BY <1>1 DEF Rates, NSpeed
  <1>2. CASE k = 2
    BY <1>2 DEF Rates, NSpeed
  <1>3. CASE k = 3
    BY <1>3 DEF Rates, NSpeed
  <1>4. CASE k = 4
    BY <1>4 DEF Rates, NSpeed
  <1>5. CASE k = 5
    BY <1>5 DEF Rates, NSpeed
  <1>6. CASE k = 6
    BY <1>6 DEF Rates, NSpeed
  <1>7. CASE k = 7
    BY <1>7 DEF Rates, NSpeed
  <1>8. CASE k = 8
    BY <1>8 DEF Rates, NSpeed
  <1>9. CASE k = 9
    BY <1>9 DEF Rates, NSpeed
  <1> QED
    BY <1>1, <1>2, <1>3, <1>4, <1>5, <1>6, <1>7, <1>8, <1>9

\* The command made of a plain string sets what the man page asks for.
LEMMA PlainIsAsked ==
  ASSUME NEW c \in Seq(Field), Plain(c)
  PROVE  Sets(BitrateCommand(c)) = Asked(c) /\ WellFormed(BitrateCommand(c))
  <1>1. \A i \in Nat \ {0}, d \in Nat :
          Param(c, i, d) = IF i <= Len(c) THEN Atoi(c[i]) ELSE d
    BY ParamIsField DEF Plain, Documented
  <1>2. CASE Len(c) = 7
    <2>1. Atoi(c[6]) = c[6].n /\ Atoi(c[7]) = c[7].n
      <3>1. 6 \in 5 .. Len(c) /\ 7 \in 5 .. Len(c)
        BY <1>2
      <3>2. c[6].form = "decimal" /\ c[7].form = "decimal"
        BY <3>1 DEF Plain
      <3> QED
        BY <3>2 DEF Atoi
    <2>2. c[6].n \in 16 .. 255 /\ c[7].n \in 16 .. 255
      <3>1. c[6].n \in 1 .. 255 /\ c[7].n \in 1 .. 255
        BY <1>2 DEF Plain, Documented
      <3>2. c[6].n > 15 /\ c[7].n > 15
        BY <1>2 DEF Plain
      <3>3. \A b \in 1 .. 255 : b > 15 => b \in 16 .. 255
        OBVIOUS
      <3> QED
        BY <3>1, <3>2, <3>3, Zenon
    <2>3. Btr(c, 6) = c[6].n /\ Btr(c, 7) = c[7].n
      <3>1. Param(c, 6, 0) = c[6].n /\ Param(c, 7, 0) = c[7].n
        BY <1>1, <1>2, <2>1
      <3>2. \A b \in 16 .. 255 : b % 256 = b
        OBVIOUS
      <3> QED
        BY <2>2, <3>1, <3>2, Zenon DEF Btr
    <2>4. BitrateCommand(c) = Command_s(c[6].n, c[7].n)
      <3>1. \A b \in 16 .. 255 : b # 0
        OBVIOUS
      <3> QED
        BY <2>2, <2>3, <3>1, Zenon DEF BitrateCommand
    <2>5. \A b0, b1 \in 16 .. 255 :
            WellFormed(Command_s(b0, b1)) /\ Sets(Command_s(b0, b1)) = <<b0, b1>>
      BY DEF WellFormed, Sets, Command_s
    <2>6. Asked(c) = <<c[6].n, c[7].n>>
      BY <1>2 DEF Asked
    <2> QED
      BY <2>2, <2>4, <2>5, <2>6, Zenon
  <1>3. CASE Len(c) \in {0, 5}
    <2>1. Btr(c, 6) = 0 /\ Btr(c, 7) = 0
      BY <1>1, <1>3 DEF Btr
    <2>2. PICK k \in 1 .. 9 :
            Param(c, 5, 125) = Rates[k] /\ Asked(c) = <<Rates[k]>>
      <3>1. CASE Len(c) = 0
        <4>1. Param(c, 5, 125) = 125 /\ Asked(c) = <<125>>
          BY <1>1, <3>1 DEF Asked
        <4> QED
          BY <4>1 DEF Rates
      <3>2. CASE Len(c) = 5
        <4>1. PICK k \in 1 .. 9 : c[5].n = Rates[k]
          BY <3>2 DEF Plain, Documented
        <4>2. Atoi(c[5]) = c[5].n
          BY <3>2 DEF Plain, Atoi
        <4>3. Param(c, 5, 125) = c[5].n /\ Asked(c) = <<c[5].n>>
          BY <1>1, <3>2, <4>2 DEF Asked
        <4> QED
          BY <4>1, <4>3
      <3> QED
        BY <1>3, <3>1, <3>2
    <2>3. BitrateCommand(c) = Command_S(NSpeed(Rates[k]))
      BY <2>1, <2>2, Zenon DEF BitrateCommand
    <2>4. \A n : WellFormed(Command_S(n)) /\ Sets(Command_S(n)) = <<Rates[n + 1]>>
      BY DEF WellFormed, Sets, Command_S
    <2> QED
      BY <2>2, <2>3, <2>4, SpeedHasCode, Zenon
  <1> QED
    BY <1>2, <1>3 DEF Plain, Documented

\* With a plain configuration string the bitrate is that of the man page.
THEOREM ConfiguredAsAsked == Spec => []AsConfigured
  <1>1. TypeOK /\ OpensBusAsAsked => AsConfigured
    <2> SUFFICES ASSUME TypeOK, OpensBusAsAsked, pc = "running",
                        adapter.reliable, adapter.clean, Plain(config)
                 PROVE  busOpen /\ Sets(speed) = Asked(config)
      BY DEF AsConfigured
    <2>1. config \in Seq(Field)
      BY ConfigAssumption DEF ConfigAssumption, TypeOK
    <2> QED
      BY <2>1, PlainIsAsked DEF OpensBusAsAsked
  <1> QED
    BY <1>1, TypeCorrect, OpenedAsAsked, PTL

----------------------------------------------------------------------------
(* Such an adapter that is not in autopoll mode *)

\* An answer given on an empty line is all there is on it.
LEMMA ReplyAlone ==
  ASSUME line = <<>>, NEW a \in {<<"cr">>, <<"ver1", "ver2">>}, Reply({a})
  PROVE  line' = a
  <1>1. a \in Seq(Tokens) /\ Len(a) <= 2
    <2>1. CASE a = <<"cr">>
      BY <2>1 DEF Tokens
    <2>2. CASE a = <<"ver1", "ver2">>
      BY <2>2 DEF Tokens
    <2> QED
      BY <2>1, <2>2
  <1>2. line \o a = a
    BY <1>1
  <1> QED
    BY <1>1, <1>2, CapAssumption DEF CapAssumption, Reply

\* A read empties a line that holds a single answer.
LEMMA GetsAnswer ==
  ASSUME TypeOK, adapter.reliable, NEW n \in 0 .. ResponseCap, Gets(n),
         line \in {<<"cr">>, <<"ver1", "ver2">>}
  PROVE  line' = <<>> /\ n = Len(line)
  <1>1. Len(line) <= 2
    <2>1. CASE line = <<"cr">>
      BY <2>1
    <2>2. CASE line = <<"ver1", "ver2">>
      BY <2>2
    <2> QED
      BY <2>1, <2>2
  <1>2. Len(line) <= ResponseCap /\ ResponseCap \in Nat
    BY <1>1, CapAssumption DEF CapAssumption, TypeOK
  <1>3. line' = <<>>
    BY <1>2, TakesRest DEF Gets, TypeOK
  <1> QED
    BY <1>2, <1>3 DEF Gets, Takes

\* From the last drain on the line is empty but for the answer to the command
\* just sent.
Quiet ==
  Good /\ ~adapter.auto =>
    /\ ~bAuto
    /\ version = "new" \/ pc \in {"auto", "autoAnswer"} => adapter.new
    /\ pc \in {"version", "bitrate", "bus", "auto"} => line = <<>>
    /\ pc = "versionAnswer" => line = <<"ver1", "ver2">>
    /\ pc \in {"bitrateAnswer", "busAnswer", "autoAnswer"} => line = <<"cr">>

LEMMA QuietStep == TypeOK /\ Dialogue /\ Quiet /\ [Next]_vars => Quiet'
  <1> SUFFICES ASSUME TypeOK, Dialogue, Quiet, [Next]_vars, Good',
                      ~adapter'.auto
               PROVE  Quiet'
    BY DEF Quiet
  <1> USE DEF Quiet, Good
  <1>0. adapter' = adapter /\ config' = config /\ Good /\ ~adapter.auto
        /\ ~halfCommand
    BY DEF Dialogue, Next, Open, vars, AtRest, OpenPort, OpenPortFails,
           CloseBus, EmptyCommand, GetVersion, SetBitrate, OpenBus,
           CommandFails, CheckAuto, Command, CloseBusAnswer, GetVersionAnswer,
           SetBitrateAnswer, OpenBusAnswer, CheckAutoAnswer, Ignored, Drain,
           StartWorker, StartWorkerFails, Delete, BusFrame
  <1>1. CASE OpenPort \/ OpenPortFails
    BY <1>0, <1>1 DEF OpenPort, OpenPortFails
  <1>2. CASE CloseBus \/ EmptyCommand
    BY <1>0, <1>2 DEF CloseBus, EmptyCommand, Command, object
  <1>3. CASE GetVersion
    <2>1. Reply({<<"ver1", "ver2">>})
      BY <1>0, <1>3 DEF GetVersion, Command, Puts, PutsNothing, Obey
    <2>2. line' = <<"ver1", "ver2">>
      BY <1>0, <1>3, <2>1, ReplyAlone DEF GetVersion, Command
    <2> QED
      BY <1>0, <1>3, <2>2 DEF GetVersion, Command, object
  <1>4. CASE SetBitrate
    <2>1. Reply({<<"cr">>})
      BY <1>0, <1>4 DEF SetBitrate, Command, Puts, PutsNothing, Obey, Dialogue,
                        BusClosed
    <2>2. line' = <<"cr">>
      BY <1>0, <1>4, <2>1, ReplyAlone DEF SetBitrate, Command
    <2> QED
      BY <1>0, <1>4, <2>2 DEF SetBitrate, Command, object
  <1>5. CASE OpenBus
    <2>1. Reply({<<"cr">>})
      BY <1>0, <1>5, CommandSets
         DEF OpenBus, Command, Puts, PutsNothing, Obey, Dialogue, BusClosed,
             BusOpened
    <2>2. line' = <<"cr">>
      BY <1>0, <1>5, <2>1, ReplyAlone DEF OpenBus, Command
    <2> QED
      BY <1>0, <1>5, <2>2 DEF OpenBus, Command, object
  <1>6. CASE CheckAuto
    <2>1. Reply({<<"cr">>})
      BY <1>0, <1>6 DEF CheckAuto, Command, Puts, PutsNothing, Obey, Dialogue,
                        BusOpened
    <2>2. line' = <<"cr">>
      BY <1>0, <1>6, <2>1, ReplyAlone DEF CheckAuto, Command
    <2> QED
      BY <1>0, <1>6, <2>2 DEF CheckAuto, Command, object
  <1>7. CASE CommandFails
    BY <1>0, <1>7 DEF CommandFails, GiveUp
  <1>8. ASSUME NEW n \in 0 .. ResponseCap, CloseBusAnswer(n) PROVE Quiet'
    BY <1>0, <1>8 DEF CloseBusAnswer, GiveUp
  <1>9. ASSUME NEW n \in 0 .. ResponseCap, GetVersionAnswer(n) PROVE Quiet'
    <2>1. line' = <<>>
      BY <1>0, <1>9, GetsAnswer DEF GetVersionAnswer
    <2> QED
      BY <1>0, <1>9, <2>1 DEF GetVersionAnswer, GiveUp
  <1>10. ASSUME NEW n \in 0 .. ResponseCap,
                SetBitrateAnswer(n) \/ OpenBusAnswer(n)
         PROVE  Quiet'
    <2>1. line' = <<>>
      BY <1>0, <1>10, GetsAnswer DEF SetBitrateAnswer, OpenBusAnswer, Ignored
    <2> QED
      BY <1>0, <1>10, <2>1 DEF SetBitrateAnswer, OpenBusAnswer, Ignored, object
  <1>11. ASSUME NEW n \in 0 .. ResponseCap, CheckAutoAnswer(n) PROVE Quiet'
    <2>1. n = Len(line) /\ line = <<"cr">>
      BY <1>0, <1>11, GetsAnswer DEF CheckAutoAnswer
    <2>2. First(n) = "cr"
      BY <2>1 DEF First
    <2> QED
      BY <1>0, <1>11, <2>2 DEF CheckAutoAnswer
  <1>12. ASSUME NEW n \in 0 .. LineCap, Drain(n) PROVE Quiet'
    <2>1. line' = <<>>
      BY <1>0, <1>12, TakesRest, CapAssumption DEF CapAssumption, Drain, TypeOK
    <2> QED
      BY <1>0, <1>12, <2>1 DEF Drain, Drained, object
  <1>13. CASE StartWorker \/ StartWorkerFails \/ Delete
    BY <1>0, <1>13 DEF StartWorker, StartWorkerFails, Delete, GiveUp
  <1>14. CASE BusFrame \/ UNCHANGED vars
    BY <1>0, <1>14 DEF BusFrame, vars
  <1> QED
    BY <1>1, <1>2, <1>3, <1>4, <1>5, <1>6, <1>7, <1>8, <1>9, <1>10, <1>11,
       <1>12, <1>13, <1>14 DEF Next, Open, AtRest

\* The worker of such an adapter leaves out polling in autopoll mode only.
THEOREM AutoIsAuto == Spec => []PollsUnlessAuto
  <1>1. Init => Dialogue /\ Quiet
    BY DEF Init, Dialogue, Good, BusClosed, BusOpened, Quiet
  <1>2. Quiet => PollsUnlessAuto
    BY DEF Quiet, PollsUnlessAuto, Good
  <1> QED
    BY <1>1, <1>2, InitTyped, TypedStep, DialogueStep, QuietStep, PTL
       DEF Spec, Typed

----------------------------------------------------------------------------
(* The tries.  FindsAdapter looks at the end only: it is kept by what each *)
(* try leaves of the old frames, and by the silence of a closed bus.       *)

InTime == adapter.reliable /\ adapter.clean

\* The first m tokens are old; what follows answers the tries to close.
Backlog(m) ==
  /\ m > 0 => m + tries * ResponseCap <= LineCap
  /\ \A i \in DOMAIN line : i > m => line[i] \in {"cr", "bell"}

Known == {"bitrate", "bitrateAnswer", "bus"} \cup BusOpened

Finding ==
  InTime /\ LineCap <= MaxTries * ResponseCap =>
    /\ ~halfCommand
    /\ pc \in BusClosed \/ (pc = "close" /\ tries > 0) => ~busOpen
    /\ pc \in {"close", "closeAnswer"} =>
         tries <= MaxTries /\ \E m \in 0 .. LineCap : Backlog(m)
    /\ pc = "closeAnswer" => line # <<>>
    /\ pc = "version" => line = <<>>
    /\ pc = "versionAnswer" => line = <<"ver1", "ver2">>
    /\ pc \in Known => version # "none"
    /\ pc = "failed" => bRun \/ version # "none"

\* An answer to "C" is one token behind the line, unless that is full.
LEMMA ReplyBehind ==
  ASSUME TypeOK, NEW m \in 0 .. LineCap, Backlog(m), tries' = tries,
         Reply({<<"cr">>, <<"bell">>})
  PROVE  (\E k \in 0 .. LineCap : Backlog(k))' /\ line' # <<>>
  <1>1. line \in Seq(Tokens) /\ Len(line) \in Nat /\ DOMAIN line = 1 .. Len(line)
    BY DEF TypeOK
  <1>2. PICK t \in {"cr", "bell"} :
          line' = IF Len(line \o <<t>>) <= LineCap THEN line \o <<t>> ELSE line
    BY DEF Reply
  <1>3. t \in Tokens /\ Len(line \o <<t>>) = Len(line) + 1
    <2>1. t \in Tokens
      BY <1>2 DEF Tokens
    <2> QED
      BY <1>1, <2>1
  <1>4. CASE line' = line \o <<t>>
    <2>1. Len(line') = Len(line) + 1 /\ DOMAIN line' = 1 .. Len(line) + 1
          /\ \A i \in 1 .. Len(line) : line'[i] = line[i]
          /\ line'[Len(line) + 1] = t
      BY <1>1, <1>3, <1>4
    <2>2. ASSUME NEW i \in 1 .. Len(line) + 1, i > m
          PROVE  line'[i] \in {"cr", "bell"}
      <3>1. CASE i = Len(line) + 1
        BY <1>2, <2>1, <3>1
      <3>2. CASE i # Len(line) + 1
        <4>1. i \in DOMAIN line
          BY <1>1, <3>2
        <4> QED
          BY <1>1, <2>1, <2>2, <4>1 DEF Backlog
      <3> QED
        BY <3>1, <3>2
    <2>3. Backlog(m)'
      BY <2>1, <2>2 DEF Backlog
    <2>4. line' # <<>>
      BY <2>1, <1>1
    <2> QED
      BY <2>3, <2>4
  <1>5. CASE ~(Len(line \o <<t>>) <= LineCap)
    <2>1. line' = line
      BY <1>2, <1>5
    <2>2. Len(line) + 1 > LineCap
      BY <1>1, <1>3, <1>5, CapAssumption DEF CapAssumption
    <2>3. line # <<>>
      BY <1>1, <2>2, CapAssumption DEF CapAssumption
    <2>4. Backlog(m)'
      BY <2>1 DEF Backlog
    <2> QED
      BY <2>1, <2>3, <2>4
  <1> QED
    BY <1>2, <1>4, <1>5

LEMMA OneTryMore ==
  ASSUME NEW t \in Nat, NEW c \in Nat
  PROVE  t * c \in Nat /\ (t + 1) * c = t * c + c
  OBVIOUS

\* A try that finds an old token first has read a response full of them, or
\* the line to its end; it was not the last.
LEMMA TryReads ==
  ASSUME TypeOK, NEW m \in 0 .. LineCap, Backlog(m), adapter.reliable,
         NEW n \in 0 .. ResponseCap, Gets(n), line # <<>>,
         tries <= MaxTries, tries' = tries + 1,
         LineCap <= MaxTries * ResponseCap,
         First(n) \notin {"cr", "bell"}
  PROVE  tries < MaxTries /\ (\E k \in 0 .. LineCap : Backlog(k))'
  <1>1. /\ line \in Seq(Tokens) /\ Len(line) \in Nat /\ Len(line) > 0
        /\ DOMAIN line = 1 .. Len(line) /\ Len(line) <= LineCap
        /\ tries \in Nat /\ MaxTries \in Nat /\ LineCap \in Nat
        /\ ResponseCap \in Nat /\ ResponseCap > 1 /\ n <= ResponseCap /\ n \in Nat
    <2>1. line \in Seq(Tokens) /\ Len(line) <= LineCap /\ tries \in Nat
      BY DEF TypeOK
    <2> QED
      BY <2>1, CapAssumption, TriesAssumption DEF CapAssumption, TriesAssumption
  <1>2. n = Len(line) \/ n = ResponseCap
    BY DEF Gets, Takes
  <1>3. n > 0 /\ n <= Len(line)
    <2> DEFINE l == Len(line)
    <2>1. /\ n <= l /\ l \in Nat /\ l > 0 /\ (n = l \/ n = ResponseCap)
          /\ n \in Nat /\ ResponseCap \in Nat /\ ResponseCap > 1
      BY <1>1, <1>2 DEF Gets, Takes
    <2> HIDE DEF l
    <2>2. n > 0 /\ n <= l
      BY <2>1
    <2> QED
      BY <2>2 DEF l
  <1>4. m > 0
    <2>1. line[1] \notin {"cr", "bell"} /\ 1 \in DOMAIN line
      BY <1>1, <1>3 DEF First
    <2> QED
      BY <2>1 DEF Backlog
  <1>5. m + tries * ResponseCap <= LineCap
    BY <1>4 DEF Backlog
  <1>6. tries < MaxTries
    <2> SUFFICES ASSUME tries = MaxTries PROVE FALSE
      BY <1>1
    <2> DEFINE all == MaxTries * ResponseCap
    <2>1. all \in Nat
      BY <1>1
    <2>2. m + all <= LineCap /\ LineCap <= all /\ m \in Nat
      BY <1>1, <1>5
    <2> HIDE DEF all
    <2> QED
      BY <1>1, <1>4, <2>1, <2>2
  <1>7. /\ Len(line') = Len(line) - n /\ DOMAIN line' = 1 .. Len(line) - n
        /\ \A i \in 1 .. Len(line) - n : line'[i] = line[i + n] /\ i + n \in DOMAIN line
    <2>1. line' = SubSeq(line, n + 1, Len(line))
      BY DEF Gets, Takes
    <2> QED
      <3>1. /\ n + 1 \in Int /\ Len(line) \in Int
            /\ \A i \in n + 1 .. Len(line) : line[i] \in Tokens
        BY <1>1
      <3>2. /\ Len(line') = Len(line) - n /\ line' \in Seq(Tokens)
            /\ \A i \in 1 .. Len(line) - n : line'[i] = line[n + 1 + i - 1]
        <4>1. line' \in Seq(Tokens) /\ Len(line') = Len(line) - n
          BY <1>1, TakesRest DEF Gets
        <4>2. \A i \in 1 .. Len(line) - (n + 1) + 1 : line'[i] = line[n + 1 + i - 1]
          <5>1. \A i \in 1 .. Len(line) - (n + 1) + 1 :
                   SubSeq(line, n + 1, Len(line))[i] = line[n + 1 + i - 1]
            BY <3>1, SubSeqProperties
          <5> QED
            BY <2>1, <5>1, Zenon
        <4>3. Len(line) - (n + 1) + 1 = Len(line) - n
          BY <1>1
        <4> QED
          BY <4>1, <4>2, <4>3
      <3>3. \A i \in 1 .. Len(line) - n :
               n + 1 + i - 1 = i + n /\ i + n \in 1 .. Len(line)
        BY <1>1
      <3>4. \A i \in 1 .. Len(line) - n : line'[i] = line[i + n]
        BY <3>2, <3>3, Zenon
      <3>5. DOMAIN line' = 1 .. Len(line) - n
        BY <3>2
      <3> QED
        BY <1>1, <3>2, <3>3, <3>4, <3>5, Zenon
  <1>8. CASE m <= n
    <2>1. ASSUME NEW i \in DOMAIN line' PROVE line'[i] \in {"cr", "bell"}
      <3>1. i + n > m /\ i + n \in DOMAIN line /\ line'[i] = line[i + n]
        BY <1>1, <1>7, <1>8
      <3> QED
        BY <3>1 DEF Backlog
    <2>2. Backlog(0)'
      BY <2>1 DEF Backlog
    <2> QED
      BY <1>1, <1>6, <2>2
  <1>9. CASE ~(m <= n)
    <2>1. n = ResponseCap \/ n = Len(line)
      BY <1>2
    <2>2. CASE n = ResponseCap
      <3>1. m - n \in 0 .. LineCap
        BY <1>1, <1>9
      <3>2. m - n + tries' * ResponseCap <= LineCap
        BY <1>1, <1>5, <2>2, OneTryMore
      <3>3. ASSUME NEW i \in DOMAIN line', i > m - n
            PROVE  line'[i] \in {"cr", "bell"}
        <4>1. i + n > m /\ i + n \in DOMAIN line /\ line'[i] = line[i + n]
          BY <1>1, <1>7, <3>3
        <4> QED
          BY <4>1 DEF Backlog
      <3>4. Backlog(m - n)'
        BY <3>2, <3>3 DEF Backlog
      <3> QED
        BY <1>6, <3>1, <3>4
    <2>3. CASE n = Len(line)
      <3>1. DOMAIN line' = {}
        BY <1>1, <1>7, <2>3
      <3>2. Backlog(0)'
        BY <3>1 DEF Backlog
      <3> QED
        BY <1>1, <1>6, <3>2
    <2> QED
      BY <2>1, <2>2, <2>3
  <1> QED
    BY <1>8, <1>9

LEMMA FindingStep == Typed /\ Finding /\ [Next]_vars => Finding'
  <1> SUFFICES ASSUME TypeOK, Counted, Finding, [Next]_vars, InTime',
                      LineCap <= MaxTries * ResponseCap
               PROVE  Finding'
    BY DEF Finding, Typed
  <1> USE DEF Finding, InTime, Known, BusClosed, BusOpened
  <1>0. adapter' = adapter /\ InTime /\ ~halfCommand
    BY DEF Next, Open, vars, AtRest, OpenPort, OpenPortFails, CloseBus,
           EmptyCommand, GetVersion, SetBitrate, OpenBus, CommandFails,
           CheckAuto, Command, CloseBusAnswer, GetVersionAnswer,
           SetBitrateAnswer, OpenBusAnswer, CheckAutoAnswer, Ignored, Drain,
           StartWorker, StartWorkerFails, Delete, BusFrame
  <1>1. CASE OpenPort
    <2>1. pc' = "close" /\ tries' = 0 /\ UNCHANGED <<line, halfCommand>>
      BY <1>1 DEF OpenPort, device
    <2>2. Backlog(Len(line))' /\ Len(line) \in 0 .. LineCap
      <3>1. /\ line \in Seq(Tokens) /\ Len(line) \in Nat /\ Len(line) <= LineCap
            /\ \A i \in DOMAIN line : ~(i > Len(line))
            /\ 0 * ResponseCap = 0 /\ LineCap \in Nat
        BY CapAssumption DEF CapAssumption, TypeOK
      <3> QED
        BY <2>1, <3>1 DEF Backlog
    <2>3. tries' <= MaxTries
      BY <2>1, TriesAssumption DEF TriesAssumption
    <2> QED
      BY <1>0, <2>1, <2>2, <2>3
  <1>2. CASE OpenPortFails
    BY <1>0, <1>2 DEF OpenPortFails, device
  <1>3. CASE CloseBus
    <2>1. /\ pc = "close" /\ pc' = "closeAnswer" /\ tries' = tries
          /\ ~busOpen' /\ ~halfCommand' /\ Reply({<<"cr">>, <<"bell">>})
      BY <1>0, <1>3 DEF CloseBus, Command, Puts, PutsNothing, Obey
    <2>2. (\E m \in 0 .. LineCap : Backlog(m))' /\ line' # <<>>
      <3>1. PICK m \in 0 .. LineCap : Backlog(m)
        BY <1>0, <2>1
      <3> QED
        BY <2>1, <3>1, ReplyBehind
    <2> QED
      BY <1>0, <2>1, <2>2
  <1>4. CASE EmptyCommand
    BY <1>0, <1>4 DEF EmptyCommand, Command, Puts, PutsNothing, Obey
  <1>5. CASE GetVersion
    <2>1. Reply({<<"ver1", "ver2">>})
      BY <1>0, <1>5 DEF GetVersion, Command, Puts, PutsNothing, Obey
    <2>2. line' = <<"ver1", "ver2">>
      BY <1>0, <1>5, <2>1, ReplyAlone DEF GetVersion, Command
    <2> QED
      BY <1>0, <1>5, <2>2 DEF GetVersion, Command, Puts, PutsNothing, Obey
  <1>6. CASE SetBitrate \/ OpenBus \/ CheckAuto
    BY <1>0, <1>6 DEF SetBitrate, OpenBus, CheckAuto, Command, Puts,
       PutsNothing, Obey, object
  <1>7. CASE CommandFails
    BY <1>0, <1>7 DEF CommandFails, PutsNothing
  <1>8. ASSUME NEW n \in 0 .. ResponseCap, CloseBusAnswer(n) PROVE Finding'
    <2>1. /\ pc = "closeAnswer" /\ Gets(n) /\ tries' = tries + 1
          /\ line # <<>> /\ UNCHANGED <<busOpen, halfCommand, version>> /\ ~busOpen
      BY <1>0, <1>8 DEF CloseBusAnswer
    <2>2. PICK m \in 0 .. LineCap : Backlog(m)
      BY <1>0, <2>1
    <2>3. tries <= MaxTries /\ ~(tries > MaxTries)
      BY <1>0, <2>1, TriesAssumption DEF TriesAssumption, TypeOK
    <2>4. CASE First(n) \in {"cr", "bell"}
      BY <1>0, <1>8, <2>1, <2>3, <2>4 DEF CloseBusAnswer
    <2>5. CASE First(n) \notin {"cr", "bell"}
      <3>1. pc' = "close"
        BY <1>8, <2>3, <2>5 DEF CloseBusAnswer
      <3>2. tries < MaxTries /\ (\E k \in 0 .. LineCap : Backlog(k))'
        BY <1>0, <2>1, <2>2, <2>3, <2>5, TryReads
      <3>3. tries' <= MaxTries
        BY <2>1, <3>2, TriesAssumption DEF TriesAssumption, TypeOK
      <3> QED
        BY <1>0, <2>1, <3>1, <3>2, <3>3
    <2> QED
      BY <2>4, <2>5
  <1>9. ASSUME NEW n \in 0 .. ResponseCap, GetVersionAnswer(n) PROVE Finding'
    <2>1. n = Len(line) /\ line = <<"ver1", "ver2">> /\ line' = <<>>
      BY <1>0, <1>9, GetsAnswer DEF GetVersionAnswer
    <2>2. n > 1 /\ SubSeq(line, 1, 2) = <<"ver1", "ver2">>
      <3>1. Len(<<"ver1", "ver2">>) = 2
        OBVIOUS
      <3>2. SubSeq(<<"ver1", "ver2">>, 1, 2) = <<"ver1", "ver2">>
        <4>1. <<"ver1", "ver2">> \in Seq(Tokens)
          BY DEF Tokens
        <4> QED
          BY <3>1, <4>1, SubSeqFull
      <3> QED
        BY <2>1, <3>1, <3>2
    <2>3. version' # "none"
      BY <1>9, <2>2 DEF GetVersionAnswer
    <2>4. pc' \in {"failed", "bitrate"}
      BY <1>9, <2>2 DEF GetVersionAnswer, GiveUp
    <2> QED
      BY <1>0, <1>9, <2>3, <2>4 DEF GetVersionAnswer
  <1>10. ASSUME NEW n \in 0 .. ResponseCap,
                SetBitrateAnswer(n) \/ OpenBusAnswer(n) \/ CheckAutoAnswer(n)
         PROVE  Finding'
    BY <1>0, <1>10 DEF SetBitrateAnswer, OpenBusAnswer, CheckAutoAnswer,
       Ignored, object
  <1>11. ASSUME NEW n \in 0 .. LineCap, Drain(n) PROVE Finding'
    <2>1. line' = <<>>
      BY <1>0, <1>11, TakesRest, CapAssumption DEF CapAssumption, Drain, TypeOK
    <2> QED
      BY <1>0, <1>11, <2>1 DEF Drain, Drained, object
  <1>12. CASE StartWorker \/ StartWorkerFails \/ Delete
    BY <1>0, <1>12 DEF StartWorker, StartWorkerFails, Delete, GiveUp, device
  <1>13. CASE BusFrame
    <2>1. /\ busOpen /\ UNCHANGED <<pc, tries, busOpen, halfCommand, version, bRun>>
          /\ line' = Append(line, "frame") /\ Len(line) + 3 <= LineCap
      BY <1>13 DEF BusFrame, object
    <2>2. CASE pc = "close"
      <3>1. tries = 0
        BY <1>0, <2>1, <2>2 DEF TypeOK
      <3>2. /\ Len(line') \in 0 .. LineCap /\ \A i \in DOMAIN line' : ~(i > Len(line'))
            /\ 0 * ResponseCap = 0
        <4>1. line' \in Seq(Tokens) /\ Len(line') = Len(line) + 1 /\ Len(line) \in Nat
          BY <2>1 DEF TypeOK, Tokens
        <4> QED
          BY <2>1, <4>1, CapAssumption DEF CapAssumption
      <3>3. (\E m \in 0 .. LineCap : Backlog(m))'
        BY <2>1, <3>1, <3>2 DEF Backlog
      <3> QED
        BY <1>0, <2>1, <2>2, <3>3
    <2>3. CASE pc # "close"
      BY <1>0, <2>1, <2>3
    <2> QED
      BY <2>2, <2>3
  <1>14. CASE UNCHANGED vars
    BY <1>14 DEF vars, Backlog
  <1> QED
    BY <1>1, <1>2, <1>3, <1>4, <1>5, <1>6, <1>7, <1>8, <1>9, <1>10, <1>11,
       <1>12, <1>13, <1>14 DEF Next, Open, AtRest

\* An adapter that answers in time is found, however its last process left it,
\* as long as the tries can read what the line holds.
THEOREM AdapterFound == Spec => []FindsAdapter
  <1>1. Init => Finding
    BY DEF Init, Finding, InTime, Known, BusClosed, BusOpened, Adapters
  <1>2. Finding => FindsAdapter
    BY DEF Finding, FindsAdapter, InTime
  <1> QED
    BY <1>1, <1>2, InitTyped, TypedStep, FindingStep, PTL DEF Spec
=============================================================================
