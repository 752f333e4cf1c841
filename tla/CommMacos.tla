----------------------------- MODULE CommMacos -----------------------------
(***************************************************************************)
(* The serial port on macOS (class Comm, common/com_macos.cpp) under calls *)
(* of several threads.  Every call looks at m_fd, then takes m_mutex, and  *)
(* keeps it while it waits for a character or for the output to drain.     *)
(*                                                                         *)
(* The device has its terminal settings, descriptors open on it, and the   *)
(* characters that arrived and nobody read, numbered as they came.  What   *)
(* is written is not kept.  A thread's call is at a place "..." before it  *)
(* takes the mutex, and at a place "...ing" while it holds it.             *)
(*                                                                         *)
(* CanalOpen opens a port before it gives the object away, so that nobody  *)
(* else uses it; after that any call may be made at any time, close among  *)
(* them: it then comes between another call's look at m_fd and its lock.   *)
(***************************************************************************)
EXTENDS Comm, FiniteSets

VARIABLES
  fd,         \* m_fd >= 0
  descs,      \* descriptors the process has on the device
  tios,       \* the device's settings: "original" or "port"
  oldTios,    \* m_oldTios
  mutex,      \* owner of m_mutex
  input,      \* characters arrived and not read
  arrived,    \* characters that have arrived so far
  pc,         \* where each thread's call is
  cap,        \* characters its buffer has room for
  forever,    \* it waits without a timeout
  got,        \* characters its comm_gets has so far
  result      \* what its last read returned

device == <<descs, tios, oldTios>>
stream == <<input, arrived>>
calls == <<cap, forever, got>>
vars == <<fd, device, mutex, stream, pc, calls, result>>

Init ==
  /\ fd = FALSE /\ descs = 0
  /\ tios = "original" /\ oldTios = "none"
  /\ mutex = NoThread
  /\ input = <<>> /\ arrived = 0
  /\ pc = [t \in Threads |-> "idle"]
  /\ cap = [t \in Threads |-> 0]
  /\ forever = [t \in Threads |-> FALSE]
  /\ got = [t \in Threads |-> <<>>]
  /\ result = [t \in Threads |-> <<>>]

Opening == {"locking", "saving", "initSaving", "initSpeed", "initApplying"}
Lone == {"open", "init", "reinit"} \cup Opening
Reading == {"getting", "readingBuf", "readingChar"}
Holding == Opening \cup Reading \cup {"draining"}

Goto(t, place) == pc' = [pc EXCEPT ![t] = place]

\* Thread t begins a call that waits for the mutex at the given place: open and
\* init on a port that nobody else uses, every other call when it likes.
Call(t, place) ==
  /\ pc[t] = "idle"
  /\ \A u \in Threads : pc[u] \notin Lone /\ (place \in Lone => pc[u] = "idle")
  /\ Goto(t, place)

\* pthread_mutex_lock, and for what waits inside, the way to a place inside.
Lock(t, place) == pc[t] = place /\ mutex = NoThread
Inside(t, place) == mutex' = t /\ Goto(t, place)

\* pthread_mutex_unlock and return.
Return(t) ==
  /\ mutex' = NoThread
  /\ Goto(t, "idle")
  /\ cap' = [cap EXCEPT ![t] = 0]
  /\ forever' = [forever EXCEPT ![t] = FALSE]
  /\ got' = [got EXCEPT ![t] = <<>>]

----------------------------------------------------------------------------
(* open *)

CallOpen(t) ==
  /\ ~fd
  /\ Call(t, "open")
  /\ UNCHANGED <<fd, device, mutex, stream, calls, result>>

\* ::open
OpenDevice(t, here, there) ==
  /\ Lock(t, here)
  /\ \/ /\ fd' = TRUE /\ descs' = descs + 1
        /\ Inside(t, there)
        /\ UNCHANGED calls
     \/ /\ fd' = FALSE
        /\ Return(t)
        /\ UNCHANGED descs
  /\ UNCHANGED <<tios, oldTios, stream, result>>

\* Mutant: the descriptor is closed twice.
GiveUpClosesTwice(t) ==
  /\ fd' = FALSE
  /\ descs' = descs - 2
  /\ Return(t)

\* ::close, m_fd = -1 and FALSE.
GiveUp(t) ==
  /\ fd' = FALSE
  /\ descs' = descs - 1
  /\ Return(t)

\* fcntl F_SETLK, which another process may have.  The lock goes with the
\* descriptor.
LockSerialFd(t) ==
  /\ pc[t] = "locking"
  /\ \/ Goto(t, "saving") /\ UNCHANGED <<fd, descs, mutex, calls>>
     \/ GiveUp(t)
  /\ UNCHANGED <<tios, oldTios, stream, result>>

\* tcgetattr
SaveTios(t) ==
  /\ pc[t] = "saving"
  /\ \/ oldTios' = tios /\ Return(t) /\ UNCHANGED <<fd, descs>>
     \/ GiveUp(t) /\ UNCHANGED oldTios
  /\ UNCHANGED <<tios, stream, result>>

----------------------------------------------------------------------------
(* close and init *)

CallClose(t) ==
  /\ Call(t, "close")
  /\ UNCHANGED <<fd, device, mutex, stream, calls, result>>

\* What close does under the mutex, nothing on a closed port.
ClosePort ==
  /\ IF fd THEN fd' = FALSE /\ descs' = descs - 1 /\ input' = <<>>
                /\ tios' = oldTios
     ELSE UNCHANGED <<fd, descs, tios, input>>
  /\ UNCHANGED <<oldTios, arrived, result>>

\* Mutant: close does not wait for the mutex.
CloseUnlocked(t) ==
  /\ pc[t] = "close"
  /\ ClosePort
  /\ Goto(t, "idle")
  /\ UNCHANGED <<mutex, calls>>

Close(t) ==
  /\ Lock(t, "close")
  /\ ClosePort
  /\ Return(t)

\* An open port is closed first.
CallInit(t) ==
  /\ Call(t, IF fd THEN "reinit" ELSE "init")
  /\ UNCHANGED <<fd, device, mutex, stream, calls, result>>

InitCloses(t) ==
  /\ Lock(t, "reinit")
  /\ ClosePort
  /\ Goto(t, "init")
  /\ UNCHANGED <<mutex, calls>>

\* tcgetattr
InitSaves(t) ==
  /\ pc[t] = "initSaving"
  /\ \/ /\ oldTios' = tios
        /\ Goto(t, "initSpeed")
        /\ UNCHANGED <<fd, descs, mutex, calls>>
     \/ GiveUp(t) /\ UNCHANGED oldTios
  /\ UNCHANGED <<tios, stream, result>>

\* cfsetispeed and cfsetospeed
InitSpeed(t) ==
  /\ pc[t] = "initSpeed"
  /\ \/ Goto(t, "initApplying") /\ UNCHANGED <<fd, descs, tios, mutex, calls>>
     \/ tios' = oldTios /\ GiveUp(t)
  /\ UNCHANGED <<oldTios, stream, result>>

\* Mutant: settings applied in part are left when tcsetattr fails.
InitAppliesInPart(t) ==
  /\ pc[t] = "initApplying"
  /\ tios' = "port"
  /\ \/ input' = <<>> /\ Return(t) /\ UNCHANGED <<fd, descs>>
     \/ GiveUp(t) /\ UNCHANGED input
  /\ UNCHANGED <<oldTios, arrived, result>>

\* tcsetattr; one that fails may have done a part, and is undone.
InitApplies(t) ==
  /\ pc[t] = "initApplying"
  /\ \/ tios' = "port" /\ input' = <<>> /\ Return(t) /\ UNCHANGED <<fd, descs>>
     \/ tios' = oldTios /\ GiveUp(t) /\ UNCHANGED input
  /\ UNCHANGED <<oldTios, arrived, result>>

----------------------------------------------------------------------------
(* setParam and writing.  On a descriptor closed in between, tcgetattr and *)
(* ::write fail.                                                           *)

CallSetParam(t) ==
  /\ fd
  /\ Call(t, "setParam")
  /\ UNCHANGED <<fd, device, mutex, stream, calls, result>>

SetParam(t) ==
  /\ Lock(t, "setParam")
  /\ tios' \in {tios} \cup (IF fd THEN {"port"} ELSE {})
  /\ Return(t)
  /\ UNCHANGED <<fd, descs, oldTios, stream, result>>

CallPuts(t) ==
  /\ fd
  /\ Call(t, "puts")
  /\ UNCHANGED <<fd, device, mutex, stream, calls, result>>

\* ::write, and tcdrain if something was written and bDrain is set.
CommPuts(t) ==
  /\ Lock(t, "puts")
  /\ \/ fd /\ Inside(t, "draining") /\ UNCHANGED calls
     \/ Return(t)
  /\ UNCHANGED <<fd, device, stream, result>>

Drained(t) ==
  /\ pc[t] = "draining"
  /\ Return(t)
  /\ UNCHANGED <<fd, device, stream, result>>

\* Where a call goes on to readBuf with room for n characters, which finds m_fd
\* valid or returns at once.
ThenReadBuf(t, n) ==
  /\ Goto(t, IF fd THEN "readBuf" ELSE "idle")
  /\ cap' = [cap EXCEPT ![t] = IF fd THEN n ELSE 0]
  /\ UNCHANGED <<mutex, forever, got>>

CallWrite(t, place) ==
  /\ fd
  /\ Call(t, place)
  /\ UNCHANGED <<fd, device, mutex, stream, calls, result>>

\* The critical section of write; the echo, if any, is read outside it.
Write(t) ==
  \/ /\ Lock(t, "write")
     /\ Return(t)
     /\ UNCHANGED <<fd, device, stream, result>>
  \/ /\ Lock(t, "writeEcho")
     /\ ThenReadBuf(t, EchoRoom)
     /\ UNCHANGED <<fd, device, stream, result>>

\* sendCommand on a closed port gets as far as readBuf, which returns -1.  Its
\* two writes are two critical sections, and its read a third.
SendCommand(t) ==
  \/ /\ Lock(t, "send") \/ (pc[t] = "send" /\ ~fd)
     /\ Goto(t, "sendTerm")
     /\ UNCHANGED <<fd, device, mutex, stream, calls, result>>
  \/ /\ Lock(t, "sendTerm") \/ (pc[t] = "sendTerm" /\ ~fd)
     /\ ThenReadBuf(t, EchoRoom)
     /\ UNCHANGED <<fd, device, stream, result>>

----------------------------------------------------------------------------
(* Reading *)

\* A read into a buffer of n characters begins; f: without a timeout.
CallRead(t, place, n, f) ==
  /\ fd
  /\ Call(t, place)
  /\ cap' = [cap EXCEPT ![t] = n]
  /\ forever' = [forever EXCEPT ![t] = f]
  /\ UNCHANGED <<fd, device, mutex, stream, got, result>>

\* A buffer of one has room for the NUL only; comm_gets does not even wait.
CallGets(t, n) == n > 1 /\ CallRead(t, "gets", n - 1, FALSE)
CallReadBuf(t, n, f) == CallRead(t, "readBuf", n - 1, f)
CallReadChar(t) == CallRead(t, "readChar", 1, FALSE)

\* The mutex is taken and kept while the call waits in select.  m_fd is not looked
\* at again: if the port was closed in between, FD_SET(-1) sets nothing or ends
\* the process, and select waits for nothing, for its time or for ever.
LockToRead(t, here, there) ==
  /\ Lock(t, here)
  /\ Inside(t, there)
  /\ UNCHANGED <<fd, device, stream, calls, result>>

\* Mutant: the mutex is released after each character and taken again.
GetsCharUnlocked(t) ==
  /\ pc[t] = "getting" /\ input # <<>>
  /\ input' = Tail(input)
  /\ LET text == Append(got[t], Head(input)) IN
       IF Len(text) = cap[t]
         THEN result' = [result EXCEPT ![t] = text] /\ Return(t)
         ELSE /\ got' = [got EXCEPT ![t] = text]
              /\ mutex' = NoThread /\ Goto(t, "gets")
              /\ UNCHANGED <<cap, forever, result>>
  /\ UNCHANGED <<fd, device, arrived>>

\* comm_gets reads one character at a time until its buffer is full.
GetsChar(t) ==
  /\ pc[t] = "getting" /\ input # <<>>
  /\ input' = Tail(input)
  /\ LET text == Append(got[t], Head(input)) IN
       IF Len(text) = cap[t]
         THEN result' = [result EXCEPT ![t] = text] /\ Return(t)
         ELSE /\ got' = [got EXCEPT ![t] = text]
              /\ UNCHANGED <<mutex, pc, cap, forever, result>>
  /\ UNCHANGED <<fd, device, arrived>>

\* readBuf and readChar read what is there and fits, in one ::read.
ReadAvailable(t) ==
  /\ pc[t] \in {"readingBuf", "readingChar"} /\ input # <<>>
  /\ LET n == IF cap[t] < Len(input) THEN cap[t] ELSE Len(input) IN
       /\ result' = [result EXCEPT ![t] = SubSeq(input, 1, n)]
       /\ input' = SubSeq(input, n + 1, Len(input))
  /\ Return(t)
  /\ UNCHANGED <<fd, device, arrived>>

\* No more characters for this call: what comm_gets has is its result.
ReadEnds(t) ==
  /\ result' = [result EXCEPT ![t] = got[t]]
  /\ Return(t)
  /\ UNCHANGED <<fd, device, stream>>

\* Mutant: comm_gets waits without a timeout.
ReadTimesOutNotGets(t) ==
  /\ pc[t] \in {"readingBuf", "readingChar"} /\ input = <<>> /\ ~forever[t]
  /\ ReadEnds(t)

\* select has waited for its time.
ReadTimesOut(t) ==
  /\ pc[t] \in Reading /\ input = <<>> /\ ~forever[t]
  /\ ReadEnds(t)

\* select or ::read fails.
ReadFails(t) == pc[t] \in Reading /\ ReadEnds(t)

\* drainInput takes no mutex.
DrainInput(t) ==
  /\ fd /\ pc[t] = "idle" /\ Call(t, "idle")
  /\ input' = <<>>
  /\ UNCHANGED <<fd, device, mutex, arrived, calls, result>>

\* A character comes on the line; the kernel keeps it if the device is open.
Arrive ==
  /\ descs > 0 /\ arrived < MaxChars
  /\ arrived' = arrived + 1
  /\ input' = Append(input, arrived + 1)
  /\ UNCHANGED <<fd, device, mutex, pc, calls, result>>

----------------------------------------------------------------------------
Begin(t) ==
  \/ CallOpen(t) \/ CallClose(t) \/ CallInit(t) \/ CallSetParam(t) \/ CallPuts(t)
  \/ \E place \in {"write", "writeEcho", "send"} : CallWrite(t, place)
  \/ \E n \in Sizes : CallGets(t, n) \/ \E f \in BOOLEAN : CallReadBuf(t, n, f)
  \/ CallReadChar(t) \/ DrainInput(t)

Enter(t) ==
  \/ OpenDevice(t, "open", "locking") \/ OpenDevice(t, "init", "initSaving")
  \/ Close(t) \/ InitCloses(t) \/ SetParam(t) \/ CommPuts(t)
  \/ Write(t) \/ SendCommand(t)
  \/ LockToRead(t, "gets", "getting") \/ LockToRead(t, "readBuf", "readingBuf")
  \/ LockToRead(t, "readChar", "readingChar")

\* The steps of a call that has the mutex.
Proceed(t) ==
  \/ LockSerialFd(t) \/ SaveTios(t)
  \/ InitSaves(t) \/ InitSpeed(t) \/ InitApplies(t)
  \/ Drained(t) \/ GetsChar(t) \/ ReadAvailable(t) \/ ReadTimesOut(t)

Next ==
  \/ \E t \in Threads : Begin(t) \/ Enter(t) \/ Proceed(t) \/ ReadFails(t)
  \/ Arrive

Spec == Init /\ [][Next]_vars

\* A thread that holds the mutex is scheduled; its select has a timeout, its
\* output drains.  No read has to fail.
Fairness == \A t \in Threads : WF_vars(Proceed(t))

----------------------------------------------------------------------------
(* Properties *)

Places ==
  {"idle", "open", "init", "reinit", "close", "setParam", "puts", "write",
   "writeEcho", "send", "sendTerm", "gets", "readBuf", "readChar"} \cup Holding

\* Every variable has its type.
TypeOK ==
  /\ fd \in BOOLEAN /\ descs \in Nat
  /\ tios \in {"original", "port"} /\ oldTios \in {"none", "original", "port"}
  /\ mutex \in Threads \cup {NoThread}
  /\ input \in Seq(1 .. MaxChars) /\ arrived \in 0 .. MaxChars
  /\ pc \in [Threads -> Places]
  /\ cap \in [Threads -> Nat] /\ forever \in [Threads -> BOOLEAN]
  /\ got \in [Threads -> Seq(1 .. MaxChars)] /\ result \in [Threads -> Seq(1 .. MaxChars)]

\* Whatever failed on the way, whatever was called before, and whatever call close
\* came in the middle of: outside open and init the process has one descriptor if
\* the port is open and none if it is closed, and a closed device has the settings
\* it had at first.
DeviceReleased ==
  (\A t \in Threads : pc[t] \notin Opening)
    => /\ descs = IF fd THEN 1 ELSE 0
       /\ ~fd => tios = "original"

\* Every way out of a call releases the mutex, and every wait under it ends but
\* for that of a readBuf without a timeout: on a port closed just before, too.
MutexReleased ==
  \A t \in Threads : mutex = t /\ ~forever[t] ~> mutex # t

\* The port as its callers see it: comm_gets takes its characters one by one,
\* but nobody gets between, not even close.
Up == fd /\ \A t \in Threads : pc[t] \notin Opening
Begun == IF mutex \in Threads THEN got[mutex] ELSE <<>>
Unread == IF Up THEN Begun \o input ELSE <<>>
Port == INSTANCE SerialPort WITH
          Callers <- Threads, Chars <- 1 .. MaxChars, up <- Up, unread <- Unread
ImplementsPort == Port!Spec
=============================================================================
