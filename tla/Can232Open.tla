----------------------------- MODULE Can232Open -----------------------------
(***************************************************************************)
(* CCAN232Obj::open (linux/can232obj.cpp): from a constructed object to    *)
(* one whose worker runs, in a dialogue with an adapter that the last      *)
(* process may have left open, in the middle of a command, or sending      *)
(* frames; and the destructor that follows an open that failed.            *)
(*                                                                         *)
(* The line from the adapter is a sequence of tokens: "cr", "bell",        *)
(* "frame", and a version "ver1", "ver2", which a read can split.  As in   *)
(* Can232Obj a token on the line may not have arrived yet.                 *)
(***************************************************************************)
EXTENDS Can232Config

CONSTANTS
  MaxTries,     \* 10: tries to close the bus and to get the version
  ResponseCap,  \* tokens szResponse has room for
  LineCap       \* bound: tokens the line can hold

ASSUME TriesAssumption == MaxTries \in Nat
\* szResponse has room for 31 characters, a version for 6.
ASSUME CapAssumption == ResponseCap \in Nat /\ LineCap \in Nat
                        /\ ResponseCap > 1 /\ LineCap > 1

VARIABLES
  pc,           \* where the thread in open is
  tries,        \* try_count
  bRun,         \* m_bRun
  version,      \* m_version: "none" for -1, "old" below 1220, or "new"
  bAuto,        \* m_bAuto
  portOpen,     \* m_comm is open
  worker,       \* workThread has been started
  line,         \* tokens from the adapter, not read
  busOpen,      \* the adapter is on the bus
  speed,        \* the command that set its bitrate: none, one of the last
                \* process, or one of this
  halfCommand,  \* it holds a command without its CR
  adapter,      \* what kind of adapter and line it is
  config        \* the configuration string

vars == <<pc, tries, bRun, version, bAuto, portOpen, worker, line, busOpen,
          speed, halfCommand, adapter, config>>
object == <<bRun, version, bAuto, portOpen, worker>>
device == <<line, busOpen, speed, halfCommand>>

Unset == [letter |-> "none", values |-> <<>>]
Last == [letter |-> "last", values |-> <<>>]

Tokens == {"cr", "bell", "ver1", "ver2", "frame"}

\* auto: it is in autopoll mode (a new one only); reliable: commands and
\* answers are neither lost nor late; clean: it had no half command at first.
Adapters ==
  {a \in [new : BOOLEAN, auto : BOOLEAN, reliable : BOOLEAN, clean : BOOLEAN] :
     a.auto => a.new}

\* The object as its constructor leaves it.
Init ==
  /\ pc = "open" /\ tries = 0
  /\ bRun = FALSE /\ version = "none" /\ bAuto = FALSE
  /\ portOpen = FALSE /\ worker = FALSE
  /\ config \in Configs
  /\ adapter \in Adapters
  /\ busOpen \in BOOLEAN
  /\ speed \in {Unset, Last} /\ (busOpen => speed = Last)
  /\ halfCommand = ~adapter.clean
  /\ line \in {<<>>, <<"frame">>}

----------------------------------------------------------------------------
(* The adapter *)

\* The adapter gives one of the answers; it is lost if the line is full.
Reply(answers) ==
  \E a \in answers : line' = IF Len(line \o a) <= LineCap THEN line \o a ELSE line

\* What an adapter does with command c when it holds no half command.
Obey(c) ==
  \/ /\ c = "C"
     /\ busOpen' = FALSE
     /\ Reply({<<"cr">>, <<"bell">>}) /\ UNCHANGED speed
  \/ /\ c = "V"
     /\ Reply({<<"ver1", "ver2">>}) /\ UNCHANGED <<busOpen, speed>>
  \/ /\ c = "S"
     /\ \/ ~busOpen /\ speed' = BitrateCommand(config) /\ Reply({<<"cr">>})
        \/ /\ busOpen \/ ~WellFormed(BitrateCommand(config))
           /\ UNCHANGED speed /\ Reply({<<"bell">>})
     /\ UNCHANGED busOpen
  \/ /\ c = "O"
     /\ busOpen' = (busOpen \/ speed # Unset)
     /\ Reply(IF busOpen \/ speed = Unset THEN {<<"bell">>} ELSE {<<"cr">>})
     /\ UNCHANGED speed
  \/ /\ c = "P"
     /\ Reply(IF adapter.auto \/ ~adapter.new \/ ~busOpen THEN {<<"bell">>}
              ELSE {<<"cr">>})
     /\ UNCHANGED <<busOpen, speed>>
  \/ /\ c = "\r"
     /\ Reply({<<"cr">>, <<"bell">>, <<>>}) /\ UNCHANGED <<busOpen, speed>>

\* comm_puts of command c.
Puts(c) ==
  /\ halfCommand' = FALSE
  /\ IF halfCommand THEN Reply({<<"bell">>}) /\ UNCHANGED <<busOpen, speed>>
     ELSE Obey(c)

\* The command or its whole effect is lost, or comm_puts fails.
PutsNothing == ~adapter.reliable /\ UNCHANGED device

\* n tokens are read or drained; those of a reliable adapter have all arrived.
Takes(n, cap) ==
  /\ n <= Len(line) /\ n <= cap
  /\ adapter.reliable => n = Len(line) \/ n = cap
  /\ line' = SubSeq(line, n + 1, Len(line))

\* comm_gets leaves the first n tokens in szResponse, which is empty if none
\* came in time.
Gets(n) == Takes(n, ResponseCap)
First(n) == IF n = 0 THEN "none" ELSE line[1]

\* In autopoll mode the adapter sends frames when it is on the bus.
BusFrame ==
  /\ portOpen /\ busOpen /\ adapter.auto
  /\ Len(line) + 3 <= LineCap
  /\ line' = Append(line, "frame")
  /\ UNCHANGED <<pc, tries, object, busOpen, speed, halfCommand, adapter,
               config>>

----------------------------------------------------------------------------
(* The steps of open *)

\* Mutant: the port stays open.
GiveUpKeepsPort ==
  /\ pc' = "failed"
  /\ bRun' = FALSE
  /\ UNCHANGED <<portOpen, bAuto, worker>>

\* How open returns FALSE once the port is open.
GiveUp ==
  /\ pc' = "failed"
  /\ bRun' = FALSE /\ portOpen' = FALSE
  /\ UNCHANGED <<bAuto, worker>>

\* Command c is sent and open goes on whatever comm_puts returns.
Command(here, c, there) ==
  /\ pc = here
  /\ Puts(c) \/ PutsNothing
  /\ pc' = there
  /\ UNCHANGED <<tries, object, adapter, config>>

\* An answer that is read and not looked at.
Ignored(here, n, there) ==
  /\ pc = here
  /\ Gets(n)
  /\ pc' = there
  /\ UNCHANGED <<tries, object, busOpen, speed, halfCommand, adapter, config>>

\* Mutant: the bus is not closed first.
OpenPortOnly ==
  /\ pc = "open"
  /\ bRun' = TRUE /\ portOpen' = TRUE
  /\ tries' = 0
  /\ pc' = "drain1"
  /\ UNCHANGED <<version, bAuto, worker, device, adapter, config>>

OpenPort ==
  /\ pc = "open"
  /\ bRun' = TRUE /\ portOpen' = TRUE
  /\ tries' = 0
  /\ pc' = "close"
  /\ UNCHANGED <<version, bAuto, worker, device, adapter, config>>

\* m_comm.open failed: open returns at once.
OpenPortFails ==
  /\ pc = "open"
  /\ bRun' = TRUE
  /\ pc' = "failed"
  /\ UNCHANGED <<tries, version, bAuto, portOpen, worker, device, adapter,
               config>>

CloseBus == Command("close", "C", "closeAnswer")

\* Mutants: another answer ends the tries; a try is not counted.
CloseBusAnswerOnce(n) ==
  /\ pc = "closeAnswer"
  /\ Gets(n)
  /\ tries' = tries + 1
  /\ IF First(n) \notin {"cr", "bell"} THEN GiveUp
     ELSE pc' = "drain1" /\ UNCHANGED <<bRun, bAuto, portOpen, worker>>
  /\ UNCHANGED <<version, busOpen, speed, halfCommand, adapter, config>>

CloseBusAnswerForever(n) ==
  /\ pc = "closeAnswer"
  /\ Gets(n)
  /\ pc' = IF First(n) \in {"cr", "bell"} THEN "drain1" ELSE "close"
  /\ UNCHANGED <<tries, object, busOpen, speed, halfCommand, adapter, config>>

\* The tries are counted before the answer decides: the last one is in vain.
CloseBusAnswer(n) ==
  /\ pc = "closeAnswer"
  /\ Gets(n)
  /\ tries' = tries + 1
  /\ IF tries > MaxTries THEN GiveUp
     ELSE /\ pc' = IF First(n) \in {"cr", "bell"} THEN "drain1" ELSE "close"
          /\ UNCHANGED <<bRun, bAuto, portOpen, worker>>
  /\ UNCHANGED <<version, busOpen, speed, halfCommand, adapter, config>>

\* Two empty commands, and what comes before, between and after them is thrown
\* away.
Drained ==
  [drain1 |-> "cr1", drain2 |-> "cr2", drain3 |-> "version"]

Drain(n) ==
  /\ pc \in DOMAIN Drained
  /\ Takes(n, LineCap)
  /\ pc' = Drained[pc]
  /\ tries' = 0
  /\ UNCHANGED <<object, busOpen, speed, halfCommand, adapter, config>>

EmptyCommand == Command("cr1", "\r", "drain2") \/ Command("cr2", "\r", "drain3")

GetVersion == Command("version", "V", "versionAnswer")

\* Mutant: the number of tries is not limited.
GetVersionAnswerUnlimited(n) ==
  /\ pc = "versionAnswer"
  /\ Gets(n)
  /\ tries' = tries + 1
  /\ pc' = IF n > 1 THEN "bitrate" ELSE "version"
  /\ version' = IF n > 1 THEN "new" ELSE version
  /\ UNCHANGED <<bRun, bAuto, portOpen, worker, busOpen, speed, halfCommand,
                 adapter, config>>

\* The answer counts if it begins with a whole version.
GetVersionAnswer(n) ==
  /\ pc = "versionAnswer"
  /\ Gets(n)
  /\ tries' = tries + 1
  /\ LET got == n > 1 /\ SubSeq(line, 1, 2) = <<"ver1", "ver2">>
     IN /\ version' = IF ~got THEN version
                      ELSE IF adapter.new THEN "new" ELSE "old"
        /\ IF tries + 1 > MaxTries THEN GiveUp
           ELSE /\ pc' = IF got THEN "bitrate" ELSE "version"
                /\ UNCHANGED <<bRun, bAuto, portOpen, worker>>
  /\ UNCHANGED <<busOpen, speed, halfCommand, adapter, config>>

SetBitrate == Command("bitrate", "S", "bitrateAnswer")
SetBitrateAnswer(n) == Ignored("bitrateAnswer", n, "bus")
OpenBus == Command("bus", "O", "busAnswer")
OpenBusAnswer(n) ==
  Ignored("busAnswer", n, IF version = "new" THEN "auto" ELSE "thread")

\* comm_puts of "S" or "O" failed.
CommandFails ==
  /\ pc \in {"bitrate", "bus"}
  /\ PutsNothing
  /\ GiveUp
  /\ UNCHANGED <<tries, version, adapter, config>>

CheckAuto == Command("auto", "P", "autoAnswer")

\* Mutant: CR is taken for autopoll mode as well.
CheckAutoAnswerCr(n) ==
  /\ pc = "autoAnswer"
  /\ Gets(n)
  /\ bAuto' = (First(n) \in {"bell", "cr"})
  /\ pc' = "thread"
  /\ UNCHANGED <<tries, bRun, version, portOpen, worker, busOpen, speed,
                 halfCommand, adapter, config>>

CheckAutoAnswer(n) ==
  /\ pc = "autoAnswer"
  /\ Gets(n)
  /\ bAuto' = (First(n) = "bell")
  /\ pc' = "thread"
  /\ UNCHANGED <<tries, bRun, version, portOpen, worker, busOpen, speed,
                 halfCommand, adapter, config>>

StartWorker ==
  /\ pc = "thread"
  /\ worker' = TRUE
  /\ pc' = "running"
  /\ UNCHANGED <<tries, bRun, version, bAuto, portOpen, device, adapter,
               config>>

StartWorkerFails ==
  /\ pc = "thread"
  /\ GiveUp
  /\ UNCHANGED <<tries, version, device, adapter, config>>

\* CanalOpen deletes the object.  close() in the destructor joins a worker if
\* m_bRun is set; m_threadId is uninitialized when none was started.
Delete ==
  /\ pc = "failed"
  /\ bRun' = FALSE
  /\ pc' \in {"deleted"} \cup (IF bRun /\ ~worker THEN {"crashed"} ELSE {})
  /\ UNCHANGED <<tries, version, bAuto, portOpen, worker, device, adapter,
               config>>

AtRest == pc \in {"running", "deleted", "crashed"} /\ UNCHANGED vars

----------------------------------------------------------------------------
Open ==
  \/ OpenPort \/ OpenPortFails
  \/ CloseBus \/ EmptyCommand \/ GetVersion
  \/ SetBitrate \/ OpenBus \/ CommandFails \/ CheckAuto
  \/ \E n \in 0 .. ResponseCap :
       \/ CloseBusAnswer(n) \/ GetVersionAnswer(n) \/ SetBitrateAnswer(n)
       \/ OpenBusAnswer(n) \/ CheckAutoAnswer(n)
  \/ \E n \in 0 .. LineCap : Drain(n)
  \/ StartWorker \/ StartWorkerFails \/ Delete

Next == Open \/ BusFrame \/ AtRest

Spec == Init /\ [][Next]_vars

\* comm_gets and drainInput time out, so the thread in open always goes on.
FairSpec == Spec /\ WF_vars(Open)

----------------------------------------------------------------------------
(* Properties *)

Labels ==
  {"open", "close", "closeAnswer", "drain1", "cr1", "drain2", "cr2", "drain3",
   "version", "versionAnswer", "bitrate", "bitrateAnswer", "bus", "busAnswer",
   "auto", "autoAnswer", "thread", "running", "failed", "deleted", "crashed"}

\* Every variable has its type.
TypeOK ==
  /\ pc \in Labels /\ tries \in 0 .. MaxTries + 2
  /\ version \in {"none", "old", "new"}
  /\ bRun \in BOOLEAN /\ bAuto \in BOOLEAN /\ portOpen \in BOOLEAN
  /\ worker \in BOOLEAN /\ busOpen \in BOOLEAN /\ halfCommand \in BOOLEAN
  /\ line \in Seq(Tokens) /\ Len(line) <= LineCap
  /\ speed \in {Unset, Last, BitrateCommand(config)}
  /\ adapter \in Adapters /\ config \in Configs

\* open returns, or has returned, FALSE: the port is closed on every path, and
\* the worker has not been started.
FailureReleasesPort ==
  pc \in {"failed", "deleted"} => ~portOpen /\ ~worker

\* open returned TRUE.  With an adapter that answers in time and that the last
\* process left with no half command, whether it had it closed or sending
\* frames, the bus is open with the bitrate command open has made, if the
\* adapter can take that.
OpensBusAsAsked ==
  pc = "running" /\ adapter.reliable /\ adapter.clean
  /\ WellFormed(BitrateCommand(config))
    => busOpen /\ speed = BitrateCommand(config)

\* Then a plain configuration string has the bitrate that the man page gives it.
AsConfigured ==
  pc = "running" /\ adapter.reliable /\ adapter.clean /\ Plain(config)
    => busOpen /\ Sets(speed) = Asked(config)

\* A line full of old frames does not make open give up such an adapter if the
\* tries can read it: open gets as far as the version, unless the port could
\* not be opened, which leaves m_bRun set.
FindsAdapter ==
  pc = "failed" /\ adapter.reliable /\ adapter.clean
  /\ LineCap <= MaxTries * ResponseCap
    => bRun \/ version # "none"

\* "The driver can handle the adapter in both polled and non polled mode, which
\* handled transparently to the user" (man page): with such an adapter the
\* worker leaves out polling only if frames come by themselves.
PollsUnlessAuto ==
  adapter.reliable /\ adapter.clean /\ WellFormed(BitrateCommand(config))
  /\ bAuto => adapter.auto

\* open returns even if the adapter never answers.
OpenReturns == <>(pc \in {"running", "deleted", "crashed"})

\* "all values can be entered in either decimal or hexadecimal form"
\* (man/vscpl1drv-can232.1.md:23): so has every string the man page describes.
AsDocumented ==
  pc = "running" /\ adapter.reliable /\ adapter.clean /\ Documented(config)
    => busOpen /\ Sets(speed) = Asked(config)
=============================================================================
