# Verification of vscpl1drv-can232

A CANAL level-1 driver for the LAWICEL CAN232 adapter: an application sends and
receives CAN messages through a C interface (CANAL); the driver turns them into
the text protocol of an adapter on a serial line. These are TLA+ models of the
driver, TLC runs of them and TLAPS proofs about them. Source paths are relative
to `src/`.

## The system

| Part | Source | State | Operations |
|---|---|---|---|
| CANAL API and handle table | `linux/vscpl1drv-can232.cpp` | `m_objArray`, `m_objMutex` | `CanalOpen`, `CanalClose`, the calls through a handle, destructor of `theApp` |
| Opening a channel | `linux/can232obj.cpp:69-396` | `m_bRun`, `m_version`, `m_bAuto`, the port | dialogue with the adapter: C, CR, CR, V, S or s, O, P; start of the worker |
| Open channel | `linux/can232obj.cpp:403-809` | send and receive queue, receive buffer and its state, statistics, `m_bRun`, mutex, port | `writeMsg`, `readMsg`, `setFilter`, `setMask`, `dataAvailable`, `close`, `workThread` |
| Translation | `linux/can232obj.cpp:721-747, 816-885` | none | CANAL message to text and back |
| Configuration string | `linux/can232obj.cpp:93-142, 179-217` | none | parsing of `port;baud;mask;filter;speed;btr0;btr1` |
| Windows DLL and handle table | `win32/can232drv/can232drv.cpp`, `common/dlldrvobj.cpp` | `m_drvObjArray`, `m_objMutex` | `DllMain` and the CANAL API, with lookups that take no lock |
| Windows driver object | `common/can232obj.cpp` | as on Linux, with a named mutex that nobody creates | a diverged copy of opening, open channel and translation |
| Serial port, macOS | `common/com_macos.cpp` | a file descriptor, terminal settings, a mutex | `open`, `init`, `close`, `setParam`, `write`, `comm_puts`, `sendCommand`, `comm_gets`, `readBuf`, `readChar`, `drainInput` |
| Serial port, Windows | `common/com_win32.cpp` | a file handle, timeouts | `init`, `close`, `write`, `sendCommand`, `readBuf`, `readChar`, `drainInput` |
| Serial port, Linux | vscp submodule (not here) | | as on macOS |
| Test programs, samples, packaging | `linux/test.cpp`, `win32/Test`, `linux/external_code` | | |

An application calls the CANAL functions from any of its threads. `CanalOpen`
constructs a `CCAN232Obj`, opens it and puts it into the table; every other call
looks its object up under `m_objMutex`, releases that mutex and calls a method.
Each open object has a worker thread. It and the methods share the queues, the
statistics and the port under the object's own mutex; `close` stops the worker
through the atomic `m_bRun` and joins it. The worker and `setFilter` talk to the
adapter, which answers a command with CR or BELL, and sends frames between the
answers, by itself (autopoll) or when asked with A.

What is hard here, and what makes each part correct:

- **Open channel.** Three kinds of threads and one serial line on which frames
  and answers are mixed. Correct: first-in first-out queues that lose nothing
  accepted, frames delivered in order and whole, statistics that agree, a mutex
  that is always released, a `close` that returns and after which nothing moves.
- **Opening.** Whatever the last process left in the adapter, late or missing
  answers, a failure at each step. Correct: it ends; a failure releases the
  port; TRUE means the bus is open as asked; polling is left out only if the
  adapter sends frames by itself.
- **Handle table.** Handles are slots and are reused; `CanalClose` looks twice.
  Correct: one owner for each object, no object leaked or deleted twice, a call
  reaches the object its handle was issued for. On Windows also: no call uses a
  deleted object although nothing protects a lookup.
- **Windows object.** No mutex, and a worker nobody waits for. Correct, as long as
  no two threads meet in a list: first-in first-out queues, of a size that does
  not grow without bound, and a worker that ends.
- **Serial ports.** Calls that wait with a mutex held, or that change the port's
  timeouts for their own use; failures halfway through `init`. Correct: characters
  are read once and in order, waits end, every exit gives the device back.

## Modules

| Module | What it is |
|---|---|
| `CanalFifo` | abstract channel: two bounded queues, an open, closing and closed phase |
| `Can232Obj` | the open channel in detail, with worker, mutex, receive state machine and line |
| `MCCan232Obj` | symmetry, and the expectation that every message is one frame (`WholeFrames`) |
| `Can232ObjProofs` | theorems about `Can232Obj` and its refinement of `CanalFifo` |
| `Can232Config` | the configuration string and the bitrate command made of it |
| `Can232Open` | `open` with such a string, against an adapter in any state |
| `MCCan232Open`, `Can232OpenProofs` | the strings for TLC; theorems about `Can232Open` |
| `HandleTable` | what the two handle tables share: threads, objects, slots |
| `CanalApp`, `CanalAppProofs` | the handle table of Linux and macOS; theorems about it |
| `DllDrvObj` | the handle table and CANAL API on Windows, with the life of the objects |
| `CanalTables` | both tables, one in each behaviour |
| `MCTables`, `DllDrvObjProofs` | their symmetry; theorems about the Windows table in `CanalTables` |
| `Can232Text` | messages to text, on the bus, and from text to messages |
| `MCCan232Text`, `Can232TextProofs` | ids, data and frames for TLC; theorems about `Can232Text` |
| `Can232ObjWin` | the open channel on Windows, with list operations that overlap; refines `CanalFifo` too |
| `MCCan232ObjWin`, `Can232ObjWinProofs` | symmetry; theorems about `Can232ObjWin` |
| `SerialPort` | abstract serial port: what came is read once, in order, in one piece |
| `Comm` | what the two serial ports share |
| `CommMacos`, `CommMacosProofs` | the port on macOS; theorems, and its refinement of `SerialPort` |
| `CommWin32` | the port on Windows, with the timeouts its reads change and share |
| `CommPorts` | both ports, one in each behaviour |
| `MCComm`, `CommWin32Proofs` | small instances; theorems about the Windows port in `CommPorts` |

The parts compose by contract. `Can232Open` ends where `Can232Obj` begins:
its state "running" (worker started, port open, `m_bAuto` known) is `Init` of
`Can232Obj`. `CanalApp` sees of an object only "new", "open", "closed" and
"deleted"; that `close` returns, which it takes for granted in `CloseObject`, is
`CloseReturns` of `Can232Obj`. `Can232Text` says what is in the messages and
frames whose order `Can232Obj` is about. `CommMacos` implements `SerialPort`, the
reads of which are what the objects take for granted: a read gets some of the
first characters that came, and what it got is gone. A read on Windows is one
`ReadFile`, which is that by itself; there the timeouts are what can go wrong.

### Can232Obj

Variables carry the names of the code (`bRun` for `m_bRun`, and so on); `wpc` and
`tpc` say where the worker and each application thread are. A critical section
in which nobody waits is one step; one that waits for the line is several, with
`mutex` held in between. `line` holds what the adapter sent and the driver has
not read, as tokens: frame number *n* is head, body, CR, and all else is "other"
or CR. A read may find nothing although the line is not empty, because
characters may still be on the wire. The adapter may lose a command, refuse it,
or answer late (its answer stays on the line). `Head` and `Translates` are what
the receive state machine and `can232ToCanal` tell apart. `EmptyIsMinusOne`
says which serial port is below: an empty `readChar` reports -1, or 0 as on
macOS.

Three variables are histories: `accepted`, `transmitted`, `delivered`. Calls
that change nothing (`dataAvailable`, `getStatus`, `getStatistics`, a `writeMsg`
to a full queue, a `readMsg` from an empty one, a second `close`) are stuttering
steps.

### Can232Open

`pc` names the place in `open`, `adapter` what kind of adapter and line it is:
`reliable` means that commands and answers are neither lost nor late, `clean`
that the last process left no half command. `Init` has the bus open or closed,
at another bitrate or none, with or without an old frame on the line. `Delete`
is the destructor that `CanalOpen` runs after a failure.

`config` is the configuration string, a sequence of fields that are empty, a
name, or a number written in decimal or with 0x. `Can232Config` does to it what
`strtok_r`, `atol` and `atoi` do: empty fields are skipped, so that what follows
moves up; a number with 0x is 0; `btr0` and `btr1` keep eight bits. The result is
the command sent for the bitrate. One with a value below 16 has a blank in it
(`%2X`) and is not `WellFormed`: the adapter refuses it. Mask and filter are
parsed and never sent.

### CanalApp

A handle is its slot number. `issued`, `meant` and `orderly` are histories:
which object each handle was returned for, which one a call meant, and whether
the application has so far used only handles that are open and closed none that
another thread was using. `Ownership` and `TableOpen` do not depend on
`orderly`.

### DllDrvObj

The Windows counterpart of `CanalApp`, with what differs there in more steps:
`GetDriverObject` takes no lock, `CanalClose` closes the object while it is in
the table, and `Remove` (delete) and `Clear` (slot to NULL) are two steps under
`objMutex`. A handle is 1681 plus the slot, as in the code, because the destructor
of `CDllDrvObj` (`Detach`) confuses the two. Of an object there is its existence
(`alive`), `port`, `bRun` and `worker`; the outcomes of `open` are its exits in
`common/can232obj.cpp`, without the dialogue. `close` does not wait for the worker,
so `WorkerEnds` may come long after the deletion. `defined` becomes FALSE, and
the model stops, when a call uses a deleted object; only an application that
misuses handles gets there, which is `OrderlyCalls`.

### Can232ObjWin

The Windows object after a successful `open`. Its mutex is opened by name at
`common/can232obj.cpp:84` and 579 and created nowhere, so both handles are NULL,
each wait fails at once, and `getStatus` may return from between a wait and a
release (line 549) without anybody noticing. What the code does between its look
at a list and the end of its work in it is therefore two steps or three: a
`writeMsg` that has found room is at "add", one that is in `dll_addNode` at
"adding". Two threads in one list, a `readMsg` whose head has gone, and a worker
in a deleted object have no defined outcome; `defined` becomes FALSE and nothing
more happens. `ListsExclusive`, which is what the mutex is for, is violated; what
holds as long as everything is defined is in the other properties. The port is
the one of the Visual Studio project, which is not in the repository: with that of
`common/com_win32.cpp` `open` always returns 0 (line 89), as the handle of a
closed port is not NULL, and there is no open object. A store past the end of
`m_receiveBuf` (line 608 before 656) goes into `m_cntRcv` and is modelled as that.

### CommMacos and CommWin32

On macOS each call looks at `m_fd`, takes `m_mutex`, and keeps it while it waits
in `select` or `tcdrain`. A thread is at "readBuf" before it has the mutex and at
"readingBuf" while it holds it. The device has terminal settings ("original", or
"port" once `init` or `setParam` has set them) and counts the descriptors open on
it. `comm_gets` collects its characters one by one in `got`; `readBuf` and
`readChar` read what there is at once. Characters are numbered as they come.

On Windows there is no mutex. A read is four calls of the system: save the
timeouts, set its own, read, restore. `timeouts` says whose the port has.

A port is opened, or initialised, while nobody else uses it: `CanalOpen` does so
before it puts the object into the table (linux/vscpl1drv-can232.cpp:197-215).
Every other call comes at any time, `close` among them, as a thread of the
application may be in a call while another closes. On macOS a call looks at `m_fd`
before it has the mutex and not again (common/com_macos.cpp:267, 502), so a
`close` may come between. A read then goes on with descriptor -1: `select` waits for
nothing, for its time or, without a timeout, for ever, or the call ends with an
error; `sendCommand` and `readBuf` behind a critical section find `m_fd` invalid and
return.

On Windows calls meet anywhere. On a closed handle each of them fails, and a
`GetCommTimeouts` that fails leaves `oldTimeouts` uninitialised: any value. The
history `crossed` becomes TRUE, until the next `init`, when a read saves the timeouts
while those of another read are set. In the CMake build `open` of the object stops
at common/can232obj.cpp:89 with this port, so that only a caller of its own gets it
to read.

### Can232Text

`Transmit` writes the text of a message (`Text`, can232obj.cpp:721-749), the
adapter turns what ends with a CR into a frame (`Takes`), and `Hear` is the
driver of another node reading its adapter's text for a frame (`AdapterText`,
`Can232ToCanal`). Two nodes are needed because an adapter does not receive what
it sends. Numbers are sequences of hex digits: an id has eight, of which the
code keeps 29 or 11 bits, a byte two, a timestamp four; upper and lower case, and
the factor 1000 from milliseconds to microseconds, are left out. `held` is what
the sending adapter has of a command without its CR; what it does with a command
that goes on behind a whole frame is its choice, send the frame or refuse. The
other calls, and the answers, are in `Can232Obj`.

## Runs

| Run | Instance | Result |
|---|---|---|
| `fifo` | 2 threads writing, reading, closing; queues of 2 and 1; 2 messages, one without data; 2 frames | passes, 0.8 M states |
| `live` | 2 threads writing, setting filters, closing; 2 frames; weak fairness | passes, 0.3 M states |
| `tables` | 3 threads, 3 objects, 2 slots; POSIX library or DLL | passes, 0.4 M states |
| `open` | 8 configuration strings; 3 tries, answers of 3 tokens, a line of 6 | passes, 0.3 M states |
| `text` | 3 messages out of 5 kinds, 1 frame of 4 others, 2 timestamps | passes, 0.2 M states |
| `ports` | 2 threads, buffers of 1 and 3, 3 characters; macOS or Windows; weak fairness | passes, 0.5 M states |
| `winobj` | 2 threads writing, reading, setting filters, closing; queues of 1; 3 messages, 2 frames | passes, 2.2 M states |
| `splice` | frames and a transmission at once | `WholeFrames` violated |
| `macos` | an empty `readChar` reports 0 | `MutexReleased` violated |
| `nodata` | two messages, one without data | `MessageReachesBus` violated |
| `winrace` | two threads write, read | `ListsExclusive` violated |
| `config` | the strings of `open` | `AsDocumented` violated |

**What the passing runs show.** `fifo`: `SendOrder`, `ReceiveOrder`, `Statistics`
and the refinement `ImplementsFifo`. `live`: `MutexReleased`, `CloseReturns` and
`AcceptedIsWritten` although answers may never come; `PortQuiet`; `ReceiveOrder`
also with the answer loop of `setFilter`, which eats parts of frames; and
`LosslessReception`, that reception loses no character while nothing is
transmitted and no filter is set. `tables`: of the POSIX library `Ownership` and
`TableOpen` whatever handles are passed, `CallsReachTheirObject` and
`ExitDeletesAll`; of the DLL `DllOwnership`, `DllTableOpen` and `OrderlyCalls`. The
two are in one run, each in behaviours of its own (`system`). `open`: `FailureReleasesPort`,
`OpensBusAsAsked`, `PollsUnlessAuto`, `OpenReturns`; `FindsAdapter`, that an
adapter which answers in time is found if the tries can read what is on the line
before them; and `AsConfigured`, that a string with decimal numbers and two digits of btr gets the
bitrate of the man page. `text`: `DataReachesBus`, that messages with data reach
the bus as written, at the cost of at most one message behind each without data;
`Understood`. `ports`: on macOS the port refines `SerialPort`, also if a `close` comes between a
call's look at `m_fd` and its lock (`ImplementsPort`); no failing exit leaves a
descriptor, a setting (`DeviceReleased`) or the mutex (`MutexReleased`) behind; on
Windows the timeouts of an open port are those of `init` or of a call that is still
reading (`TimeoutsRestored`), but for the case `crossed`. `winobj`: without any mutex, and as long as no two threads
meet in a list, the object is still the abstract channel (`ImplementsFifo`), with
a send queue longer by one message for each further thread (`RoomKept`); its
worker takes at most one message after `close` (`OneMessageLate`). Every
property has a mutant of a definition it depends on, kept in the module with a
comment that begins "Mutant", under which TLC finds it violated.

**What the violations show.** They are the disagreements between code and
comments listed under "findings" in `PROJECT.json`:

- *splice.* The loop that waits for the answer to a transmitted message
  (can232obj.cpp:762-778) throws away what it reads up to the next CR. If the
  head of a frame was read before, the message goes on with the next frame.
- *macos.* `Comm::readChar` of the macOS port returns a count of 0 when it has
  read nothing, the worker waits for -1 and keeps the mutex.
- *nodata.* The CR is appended inside `if (msg.sizeData)` (can232obj.cpp:746): a
  message without data stays half written in the adapter.
- *winrace.* The mutex that is to keep threads out of the lists does not exist.
- *config.* The man page's own example, with `btr0` and `btr1` in hexadecimal,
  opens the bus at 125 kbit/s: `atoi` stops at the x.

The models contain five more disagreements that no run is spent on. `open` takes
BELL for a closed bus (can232obj.cpp:239) and looks at no answer after that, so
that with half a command left in the adapter, which refuses the first command
it gets, it returns TRUE with the bus as the last process had it: the case
`adapter.clean` excludes. `open` sets `m_bRun` at line 91 and leaves it set at
line 149 if the port cannot be opened, and the destructor then joins a thread
that was never started: `Delete` ends in "crashed". And `can232ToCanal` reads the
timestamp of a remote frame from its size on (lines 834, 848): the size is its
first digit and the last is lost, which is why `Understood` speaks of timestamps
for data frames only. `m_mutex` of the macOS port is the "Mutex for thread safety"
(com_macos.h:96), but does not cover the look at `m_fd`: a read during a `close` may
wait with a descriptor that is no more, for ever if it has no timeout, and with the
mutex. And "Restore old timeouts" (com_win32.cpp:205, 259) restores those of another
read if it saved them while that one was reading: the port keeps them for good, and
without `~crossed` TLC finds `TimeoutsRestored` violated in 15 states.

One limit showed itself only in the proof. `open` gives up after ten tries to
close the bus (can232obj.cpp:246), and each try reads no more than `sendCommand`
takes at a time. A line with more old frames on it than ten tries can read makes
`open` fail with an adapter that answers everything: with 3 tries of 3 tokens and
a line of 13, TLC finds it. `FindsAdapter` therefore has the hypothesis
`LineCap <= MaxTries * ResponseCap`, which the run's constants meet.

### Bounds

`MaxAccepted`, `MaxCommands`, `MaxFrames` and `LineCap` (and `LineCap` of
`Can232Open`, `Objects` of `HandleTable`, `MaxMessages`, `MaxCommands`,
`MaxFrames` and `LineCap` of `Can232ObjWin`, `Sizes` and `MaxChars` of `Comm`,
`Configs` of `Can232Config`) bound the environment; the other
constants are the program's, made small. Queues of 1 and 2 fill up with two
messages and frames; two frames are enough for one to be spliced to, or to
overtake, another; a poll in every loop and 0 or 1 retries only make more
interleavings happen in fewer steps. `LineCap` of 4 or 5 holds a frame and an
answer at once. Two threads meet in `close`, in `setFilter`, and in `writeMsg`;
three threads in the table are one that closes, one that closes the same handle,
and one that opens in the slot between. 3 tries instead of 10 still include a
first, a middle and the last, which is in vain. Three messages are one without
data, the one it spoils, and one behind; ids at and beyond the limits, data of 0,
1, 2 and 8 bytes, all four letters of a frame, and both settings of timestamps
are among the inputs. The configuration strings are: none; a speed of the table;
one that is not in it; an empty filter, behind which the speed moves up; btr
values of two digits, in hexadecimal, of one digit, and beyond eight bits. In
`ports` a buffer of 3 takes two characters one by one, one of 1 none; a third
character is one that comes between, or is left for the next read. In `winobj`
queues of 1 with two threads are what overfills the send queue by one, 3 messages
leave two to be sent when the object is closed, a buffer of 2 is overrun by a
frame whose CR has been lost, and a line of 3 holds a frame. The proofs remove
the bounds on threads, queues, buffers, tries and strings for what they cover.

### Fairness

`Can232Obj`: weak fairness of the worker's steps and of the steps that end a
call once begun, which is that the scheduler runs threads that can run. Nothing
is assumed of the adapter, nor that a read finds what is on the line. The worker
competes for the mutex with finitely many calls (they are bounded), so weak
fairness of its steps is enough; on a real system with endless calls a mutex
that is not fair could starve it, which these runs do not show. `Can232Open`:
weak fairness of the thread in `open`, whose reads all have timeouts.
`CommMacos`: weak fairness of the thread that holds the mutex, whose `select`
ends with its timeout and whose output drains at the speed of the line; nothing
is assumed of who gets the mutex next, or of characters that come.

## Proofs

All theorems hold for every value of the constants under the named assumptions
of the modules (sizes are natural numbers or positive, the pseudo-threads are no
threads).

**Can232ObjProofs.** `TypeCorrect`. `ControlCorrect` is the inductive invariant
`Control == TypeOK /\ Exclusion /\ Closing`: who holds the mutex is exactly where
the code holds it, and at most one thread is past the exchange in `close`; it is
needed because "the port is closed" says nothing of the worker without the
thread that joined it. `PortStaysQuiet` follows from it. `SendInOrder` and
`StatisticsAgree` share the invariant `Counts`. `ReceiveInOrder` needs `Order`:
what was read, queued and put together, and every head on the line, come in
increasing frame numbers, all at most `busFrames`; `ReceiveOrder` alone is not
inductive because the next queued message depends on buffer and line.
`ObjectImplementsFifo` shows that each step of the object is a step of
`CanalFifo` or stutters under the mapping at the end of `Can232Obj`, from
`Control` and `Order`.

`ReceptionLosesNothing` is a theorem about the whole path of a frame. Its
invariant `Lossless` says, as long as nothing was transmitted and no filter set,
that the messages delivered and queued are frames 1 to *n*, each whole
(`FirstFrames`), and that frames *n* + 1 to the last one sent stand one behind
the other in what is still to come: the receive buffer followed by the line
(`Following`). A message begun is the first one or two characters of a frame
(`Begun`). Answers to polls may stand between the frames. The lemmas
`PlacedMoves` and its relatives say what a read, a frame behind the line and a
finished message do to the places; `ReceiveBetween` and `ReceiveInside` what a
character does between frames and inside one. It has two hypotheses:
`EmptyIsMinusOne`, without which the worker stays in its loop (run `macos`), and
`HoldsFrame == BufSize >= 2`, as a smaller buffer resets the state machine inside
each frame; that of the code has `CAN232_BUF_SIZE`, 80 bytes.

**CanalAppProofs.** `OwnershipHolds` and `TableStaysOpen` from
`Owned == Ownership /\ TableOpen /\ Opened /\ Cleared`: an object about to be
added is open, and slots the destructor has passed are empty. `CallsReach` and
`ExitIsComplete` from `Disciplined`: in an orderly application an issued handle
is in the table, a call under way has it for itself or with other calls only,
and a thread between the two looks of `CanalClose` is the only one to take the
object out.

**DllDrvObjProofs.** The theorems are about `TablesSpec`, the specification TLC
runs; `OnlyWindows` says that its steps are those of the Windows table or leave
it alone. `TypeCorrect`; `OwnershipHolds` and `TableStaysOpen` from `Owned`, which
adds to the two properties who holds the lock (`Locked`), what `open` has reached
(`Opened`) and that an object looked up is in no slot but that of its handle
(`LookedUp`): without it a thread about to remove could be at a stranger's slot.
`CallsAreOrderly` from `Owned` and `Disciplined`, through the lemma
`CallsFindOpen`. The lemma `NothingFound` says that the destructor finds no
object.

**Can232OpenProofs.** `TypeCorrect` from `Typed`, which bounds the tries by
place; `PortReleased` from `Released`; `OpenedAsAsked` from `Dialogue`: from the
first C to the O the bus is closed, and the bitrate is set in between;
`AutoIsAuto` from `Quiet`: with an adapter that is not in autopoll mode the line
holds exactly the answer expected, so the drains of `open` are what makes the
first character of the answer to P the right one. `AdapterFound` from `Finding`:
while `open` tries to close the bus, the line is old tokens and, behind them,
answers (`Backlog`); each try takes `ResponseCap` of the old ones away, and the bus is
silent from the first C on, so the hypothesis on `LineCap` makes the last try at
the latest see an answer. From then on the line holds exactly what was asked for.

`ConfiguredAsAsked` adds what the string says to `OpenedAsAsked`: a plain string
(`Plain`) has no empty field, so each parameter is the field of its number
(`ParamIsField`), each speed of the table has its code (`SpeedHasCode`), and so
the command sent is well formed and sets what is asked (`PlainIsAsked`).

**CommMacosProofs.** `TypeCorrect`, `DeviceIsReleased` and `PortImplemented` from
`Inv == TypeOK /\ Exclusion /\ Solitude /\ Released /\ Progress /\ Gotten`. `Solitude`
says that a thread in `open` or `init` is by itself (`NobodyOpens` that no other is
there); `close` is not, but waits for the mutex. That is why a read that has
begun to collect characters does so from an open port (`Gotten`), and one whose port
was closed before it had the mutex finds none (`Progress`). With `Exclusion` the
characters a `comm_gets` has taken belong to the one thread that holds the mutex, so
that they can be counted as unread until it returns.

**CommWin32Proofs.** `TypeCorrect` and `TimeoutsAreRestored`, of `PortsSpec`, for any
number of threads whose calls meet anywhere. The invariant adds to the types and
`TimeoutsRestored` that a thread in `init` is by itself (`Solitude`) and begins with
a closed port (`Progress`), and that as long as nothing `crossed` each read of an
open port has saved the timeouts of `init` (`Saved`): those it sets last. `OnlyWindows` is as in `DllDrvObjProofs`.

**Can232ObjWinProofs.** `TypeCorrect`, `RoomIsKept`, `OneMessageIsLate` and
`ObjectImplementsFifo` from `Inv == TypeOK /\ Control /\ Order /\ Ending /\ RoomKept`.
`Control` says that while everything is defined at most one thread is in a list,
and what it works on is still there; `Ending` how many messages a worker may
still take where it is; `Order` is as in `Can232ObjProofs`. `RoomKept` is inductive:
each thread that has found room counts from its look on, and the last to look
has found room. The cardinalities need finitely many threads.

**Can232TextProofs.** `TypeCorrect` and `EveryFrameUnderstood` from
`Inv == TypeOK /\ Counted /\ Understood`. The lemma `Recovered` is the core: for
every frame and timestamp, `Can232ToCanal` of the adapter's text gives the frame
back. It rests on `FrameText` (where each part of the text is), `DigitsOfData`
(two digits at 2i - 1 and 2i are byte i) and `Scans` (the timestamp's four
digits).

`WrittenDataReachesBus` needs what the sending adapter holds. `Carrying` says that
its line is empty but behind a message without data that no poll followed, and
that what stands there then is the beginning of a frame without data; so the
next message, which completes it, cannot pass for a frame with data of its own
(`BehindHalfCommand`). `LaidOut` and `WholeCommand` say that the text of a message
with data is one command, from which the adapter takes one frame with that id,
clipped to the bits the code keeps (`ClippedId`), and that data; `HalfCommand` that
the text of one without is no command. `DataReachesBus` is stated with a witness, a
strictly increasing map from the messages expected onto the frames that carry
data, and `OneCarried` and `NothingCarried` extend it by one step.

**Only model-checked:** the liveness properties (`MutexReleased` of both runs,
`CloseReturns`, `AcceptedIsWritten`, `OpenReturns`), which need fairness and
ENABLED, beyond the prover. Every other property of a passing run is a theorem.
The refinement `ImplementsPort` is of the safety part of `SerialPort`, which has no
other.

## Not modelled, and the plan

In this order:

1. **Composition** of `CanalApp` with an object in the detail of its `close`, and
   of `Can232Obj` with a `SerialPort`.
2. **Refinement** of one abstract handle table by both tables.
3. **Windows `open`**: its dialogue, which unlike that of Linux looks at answers
   but reads them without a timeout, and its copy of the translation. Without the
   port class of the Visual Studio project what `sendCommand` makes of an answer
   would be guessed; `DllDrvObj` has the exits only.

Left out inside the modelled parts: `init` of the macOS port takes no lock against
other processes, and the Windows port does not restore the settings of the line,
but only the driver of the device could tell; what is written to a port is not
kept; an adapter that is unplugged is a read or write that fails. The cuts of the
configuration string at 80 and 128 characters.

Left out for good: the values of termios and Win32 communication settings, `syslog` and
`printf`, the dialog and command line test programs and samples (clients of the
API without assertions), build and packaging. The Linux serial port and linked
list are in a submodule that is not in the repository; they are modelled as
their callers use them.
