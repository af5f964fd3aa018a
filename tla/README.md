# Specifications of the PEAK PCAN-PCI driver for QNX

TLA+ modules for the resource manager `peak_can_res_mgr`, the configurations
that check them with TLC, and theorems about them checked by TLAPS. Paths are
relative to the root of the repository; `can_manager.cpp` stands for
`resmgr/src/can_manager.cpp`, and so on.

## 1. The system

The driver is one process with four threads, plus a signal handler that runs in
whichever of them the signal meets:

| thread | entry | what it does |
|---|---|---|
| dispatch | `main`, the `resmgr_block` loop | runs the `io_*` handlers, one request at a time |
| data receive | `CanManager::DataReceiveThread` | takes frames from the controller, puts them in the shared ring, answers delayed requests |
| interrupt | `ControllerFactory::InterruptHandleTh` | acknowledges the bridge, runs the controller's interrupt routine; looks every 100 ms even without an interrupt |
| pulse | `SJA1000CanController::InterruptHandleTh` | wakes the reader, logs errors, loads the next queued frame |

### Components

| component | state | operations | works with | correct if |
|---|---|---|---|---|
| `CanManager` | ring `canMessageQueue_`, `queueHead_`, `queueBottom_`, `filling_`; `delayedQueue_`; per open descriptor (OCB) a pointer, a filter, an event | open, read, notify, devctl, close, unblock; the walk over delayed requests at every frame | clients by messages, controller by `ReadMessage`/`WriteMessage`; `queueMutex_` between dispatch and receive thread | each descriptor gets each frame that passes its filter, once, whole, in order, unless it was overwritten; waiting clients are answered; nothing refers to a freed OCB |
| transmit path | `transmitDataQueue_`, `transmitBufferFree_` | `WriteMessage`, `TransmitMessage`, `ProcessTransmitFlag`, the transmit part of the interrupt routine | dispatch, pulse and interrupt thread; chip; `transmitMutex_`, `interruptSpinLock_`, pulses | each frame written is sent once; lowest identifier first; nothing waits while the chip is idle |
| receive path | `receiveMessageBuf_`, head, tail | `ReceiveMessage`, `ReadMessage`, overrun handling | interrupt thread writes, receive thread reads, without a lock | each frame is read once, whole, in order; every loss has a known cause |
| error ring | `errorMessageBuf_`, head, tail | `AddError`, `ProcessErrorBuffer` | interrupt thread writes, pulse thread reads and logs | every error is logged once |
| `ControllerFactory` | mapped bridge and chip, interrupt id, thread | create, delete, acknowledge loop | PCI server, interrupt thread, controller | no interrupt is missed; nothing mapped is used after it was unmapped |
| `CanController` | `inited_`, pulse thread | start, close | controller | thread is joined before what it uses is gone |
| process | options, signal handlers | start-up, `Finalize` | everything | shutdown from any thread ends |
| chip access, log, thread wrapper | – | register access, text output, thread calls | – | – |
| frame and filter types, `cansend`, `candump` | – | parsing and printing of frames and filters | the driver's device file | what is written is what was asked for |

### What is hard here

*Interleaving.* Frames are written into the ring's head slot outside the mutex
(`can_manager.cpp:94`); filters are copied outside it (419); the transmit flag is
set outside its mutex (`sja1000_can_controller.cpp:306`); the receive ring has two
atomic indices and no lock (270, 433).
*Ordering.* A delayed request is answered only when its pointer *equals* the head
(`can_manager.cpp:106`), so every path has to leave it there. *Lost wake-ups.* A
read that finds nothing and a frame that arrives; a write that finds the buffer
taken and a transmission that ends; an interrupt that rises while the routine
leaves. *Stale state.* Elements of interrupted reads, events overwritten by a
second arm. *Limits.* Ring overrun, index wrap, FIFO overrun, the count in
`ReceiveMessage`. *Shutdown.* Objects are dropped before the threads that use
them are joined.

`PROJECT.json` lists these hazards at their lines, with the properties that cover
them, and for the ones without a property the reason.

## 2. Plan

| # | module | content | state |
|---|---|---|---|
| 1 | `CanManager`, `MCCanManager`, `CanManagerProofs`, `CanManagerClientsProofs` | ring, delayed requests, descriptors | done |
| 2 | `Transmit`, `MCTransmit`, `TransmitProofs` | transmit handshake | done |
| 3 | `Reception`, `MCReception`, `ReceptionProofs` | FIFO to ring to reader | done |
| 4 | `FrameLog`, `CanManagerLog`, proofs in `CanManagerClientsProofs` | what a descriptor promises, and that `CanManager` before the wrap implements it | done |
| 5 | `ErrorLog`, `MCErrorLog`, `ErrorLogProofs` | the second ring; the routine writes, the pulse thread reads | done |
| 6 | `Lifecycle`, `MCLifecycle`, `LifecycleProofs` | start-up, interrupt masking and time-outs, `DeleteController`, destructors, signals | done |
| 7 | `FramePath`, `MCFramePath`, `FramePathProofs` | frame layout in the registers, evaluation of filters, the parsers of `cansend` and `candump` | done |
| 8 | `SendQueue`, `TransmitQueue`, proofs in `TransmitProofs` | what the transmit path promises, a queue by priority, and that `Transmit` implements it | done |

`RingLemmas` holds what the proofs of 1, 3 and 5 share: indices modulo the size of a
ring, and sequences. `Reception` and `CanManager` meet in `ReadMessage` only. There
the first proves which frames are returned, each once and in order, and the second
takes whatever frames it is given, so the two are not composed into one module.
The plan is done; section 6 says what was left out of it.

## 3. What is modelled, and how

### CanManager

One action per critical section or per step outside one. The receive thread is
`ReadMessage`/`ReadMessageDone` (the copy into the slot, outside the mutex),
`LockForWalk`, one `Walk...` action per element of the list and `Publish`, which
moves head and bottom and unlocks. A handler is a request in `request`, which
`Refuse` answers with an error or `LockForRequest` takes into its critical
section; there one of the actions named after the handler's outcomes ends it.
`io_close_ocb` walks the list element by element. `io_devctl` copies the filter
in two steps without the mutex; a filter under copy is `Torn`, and its verdict is
either. The search loops of `io_read` and `io_notify` hold the mutex and are one
step: `FirstAccepted` and `NoneAccepted` say where they stop. A search that starts
beyond the head (`Start(o) > queueHead`) does not meet it and goes round the ring: then
only an accepted frame ends it, and without one the handler keeps the mutex and no
action of it is enabled.

Abstractions: a frame is its arbitration field, with its number for the
properties; a filter is the set of fields it accepts; the walk's iterator splits
`delayedQueue_` into `passed` and `delayedQueue`; a rcvid is the client, and a
reply to a client that is not blocked on the descriptor has no effect. Clients,
which are external, send any message at any time when they are not blocked, and
may be interrupted in a read. `lseek` and `dup` are left to the default handlers
and not modelled; several clients of one descriptor (threads, or the parent and
the child of a fork) are, by `Access`.

`expected`, `lost` and `interrupts` are history: what a descriptor's clients have
read, how many frames were replied to nobody, how many reads were interrupted.

### Transmit

The three threads with a program counter each: writers and the pulse thread
(`pc`), the interrupt routine (`isr`). Taking `transmitMutex_`, testing,
queueing, taking the spin lock and clearing the flag, loading the chip and
unlocking are separate steps; so are the read of the interrupt register, its
handling, the release of the spin lock and the pulse. A time-out runs the switch on whatever
`incomePulse` holds, at first what the stack held (`StackCodes`). The chip is
external: it sends the buffer's frame at any time after it was loaded, sets bits
in a register that reading clears, and ignores a load while a frame is in it. The
bridge latches the rise of the line.

### SendQueue and TransmitQueue

`SendQueue` is the promise of the transmit path: a write puts its frame in a queue,
from which the frame with the lowest identifier goes to the bus, each once. It has no
buffer, no flag, no locks and no interrupts. `TransmitQueue` maps `Transmit` to it. A
frame is in the promised queue from the moment `WriteMessage` has decided what becomes
of it: when it is pushed to `transmitDataQueue_`, or when the test of
`sja1000_can_controller.cpp:216` finds that it may go to the chip at once. The latter
never enters `transmitDataQueue_`; it waits in the hand of its thread, as does the
frame that `ProcessTransmitFlag` took out. The bus is the chip's buffer. So the frame
that is loaded must be the lowest of all that wait anywhere, which fails if a write
may go around a queue that is not empty.

### Reception

The interrupt routine as steps (`isr`): acknowledge, read the register, start and
finish the copy of a frame, increment the head, wrap it, handle an overrun,
leave. The reader is one step at the end of its copy. The writer overwrites what
it laps. `raced` records that a read found the head unwrapped and nothing to
read, `lapped` that the head passed the tail; the properties of the ring are
stated until then, and the two are what the `ReadRace` finding and the missing
overflow check come to.

### FrameLog and CanManagerLog

`FrameLog` is the promise of the resource manager to the clients of a descriptor:
a log of arrivals, the oldest frame still readable, and for each open descriptor a
cursor and a filter. A delivery gives the first accepted frame at or after the
cursor, or after the oldest readable one, and moves the cursor behind it; a cursor
may also pass frames that are overwritten or rejected, and a frame whose reader
was interrupted. `CanManagerLog` maps the variables of `CanManager` to it:
arrivals are the published frames and, while the receive thread walks, the one at
the head, which the walk replies with before it is published; the oldest is the
bottom, cursors are the pointers. The mapping holds before the 32-bit indices wrap;
afterwards `HeadWrap` shows that pointers go back, which no promise allows.

### ErrorLog

The interrupt register by what the routine does with its bits: RX and TX, the
error bits of the low half, the error bits of the high half. `LeaveRoutine` is
the exit at the first read without a low bit (`sja1000_can_controller.cpp:295`);
what that read cleared is `dropped`. `AddError` is three steps, as the compiler
may order them: increment, store at the old index, wrap. The pulse thread looks
at an entry once for each bit it tests, so an entry may change under it
(`LogEntry` compares the two looks). `early` and `lapped` play the part of
`raced` and `lapped` in `Reception`. What a line of the log says is left out, and
with it that lines 357 to 389 compute `capturedError + "..."` without keeping it.

### Lifecycle

Four threads with a program counter each, and `fin`, which is where `Finalize`
is and in whose context. The steps of the start are the calls of
`CreateController` and of the constructor of `CanManager`, each with the outcomes
the code distinguishes; PCI and mapping calls are their outcomes. `device` holds
what belongs to the PCI device: attached, where the bridge is mapped, whether it
forwards interrupts, its latch, and whether the kernel has masked the interrupt.
`controller` holds who has a `shared_ptr` to the controller: the factory, the
argument of the constructor under way, the manager (a static member). The pulse
and the receive thread are modelled as far as they use what `Finalize` takes away;
what they do with frames is in the other modules. A use of what is not there is
undefined, so it sets `fault` and the model ends. `Finalize` tests `canManager` once, in
`DeleteCanManager`; what follows the reset of the controller depends on that test
(`terminate`), not on what a main that still runs has assigned since.
`resmgr_context_free` of a context in use is left out, and so is every signal that meets
a process already in `Finalize`: a second one, and a first one that arrives while main
runs `Finalize` itself after a failure.

### FramePath

One frame at a time through `ParseCanFrame`, `TransmitMessage`, the registers of
two chips, `ReceiveMessage`, `CheckFilter` and the filters of `candump`. TLC's
integers have 32 bits with a sign, so a `can_id` is its three flags and its low 29
bits, and a shift that would leave 32 bits is done byte by byte. A text is what
the parser distinguishes: the number, how many characters it has, the kind of
data and its tokens. Registers keep what they held before, so a byte read from
the wrong place is a byte of an older frame. An uninitialised variable holds any
byte of `Stack`. `&` is the intersection of the sets of bits (`BitsOf`). The
assumption says of texts and command lines what the parsers can read: identifiers of
32 bits, eight characters before `#`, any number of tokens of any length, and of
the frames of other nodes that their length code has four bits. The command line of
`candump` is kept as it was typed (`tokens`: identifier, how many characters it has,
separator, mask) beside what `ParseCanFilter` makes of it (`canFilters`), and
`ShownIfWanted` judges what is printed by the former: `Accepts` is the usage text's
rule for `:` and `~` and for identifiers of 8 digits, and `can.h`'s for the bit that
inverts a filter.

## 4. The runs

| run | instance | shows |
|---|---|---|
| `Receive` | 2 clients, 1 shared descriptor, 4 slots, 5 frames, 2 delayed requests, 1 interrupt | the list of delayed requests stays sound under every order of requests, frames, closes, filter changes and an interrupted read; the ring overruns and only whole frames are returned, each once, in order; a frame is lost only for an interrupted read; no frame is skipped silently; `FrameLog` is implemented |
| `ReceiveLiveness` | 2 clients with a descriptor each, 2 slots, indices that wrap at 4; 2 frames with both clients, 3 more with one | handlers end, also after the wrap; before it, waiting readers and armed clients are served |
| `Transmit` | 3 writes, 2 identifiers, 1 other interrupt | all of the handshake, safety and liveness; `SendQueue` is implemented |
| `Reception` | ring of 3, FIFO of 2, 6 frames, 1 other interrupt, count of 1 | all of the ring, safety and liveness |
| `ErrorLog` | ring of 3, 6 interrupts, any code on the stack | the error ring, safety and liveness; only errors of the high half alone are dropped |
| `Lifecycle` | one signal in any thread, every failure of the start | safe while serving, balanced mask, clean exit, shutdown ends |
| `FramePath` | 12 texts, 9 filter lists with and without a count, 4 frames of other nodes, 2 descriptor filters, 2 frames in a row | what is written is read; what is printed is what the filters on the command line want |

The properties, in the words of the modules' comments, stand before each
definition. All runs set `CHECK_DEADLOCK FALSE`: when the bounded number of frames
or writes is used up and nobody sends, the system rightly stops; that it does not
stop earlier is what the liveness properties say.

*Bounds.* `MaxFrames`, `MaxDelayed`, `MaxInterrupts`, `MaxWrites`, `MaxEvents` and
`MaxReads` bound what the environment does, `N`, `HeadMod`, `Size`, `FifoSize` and
`MaxMessages` stand for 2^n, 2^32, 1024, the chip's FIFO and 8. They are small,
and each case they are about happens: a ring of 4 slots holds three readable
frames, so a search passes rejected ones; 5 frames overwrite a slot that a slow
reader has not read, and make pointers meet a wrapped head in `HeadWrap`; two
delayed requests on one descriptor meet in one walk; with three writes one frame is
on the chip and two are queued; 6 frames go twice round a ring of 3, fill the FIFO and run the count out.

`ReceiveLiveness` has the indices wrap under fairness. With 2 slots and a wrap at 4 the
head has wrapped and the bottom has not after frame 4 (with 2^n slots that lasts 2^n - 1
frames), and after frame 5 a pointer of 4 stands beyond the head, in front of which the
bottom is again. The second client is there for the first two frames only (`Bounded` in
`MCCanManager`, the action constraint of the run): what it does
with the first one before the wrap and what the wrap does to one client are both covered,
their product, which is too large, is not. `Bounded` restrains the environment alone, the
next frame and the second client's messages, for which no fairness is assumed.

*Fairness.* Threads run (weak fairness for each thread's steps). The receive
thread's lock of `queueMutex_` is strongly fair: it waits at priority 30
(`can_manager.cpp:85`) for a mutex the dispatch thread takes again and again, and
the mutex goes to the waiter with the highest priority. So is the lock of
`transmitMutex_` by a writer: the pulse thread takes it for a moment at a pulse or
every 100 ms. The interrupt thread looks at the latch at least every 100 ms and
`ReadMessage` at the indices every 2 ms. The bus takes the frame in the chip's
buffer in the end. No fairness is assumed of clients or of arriving frames.
In `ErrorLog` the same holds of the interrupt and the pulse thread. In `Lifecycle`
every thread runs, `Finalize` too, and a handler returns; the program need not be
stopped, and no signal need come.

### Findings

| run | what TLC shows |
|---|---|
| `InterruptedRead` | `io_unblock` answers a read with -1 but leaves its element in the list; the next accepted frame is replied to nobody and the pointer passes it (`can_manager.cpp:119`, 144, 499) |
| `HeadWrap` | the head wraps at 2^32 and 64-bit pointers do not: the check for a pointer out of range (326) moves up-to-date pointers back to the bottom |
| `ReadRace` | between increment and wrap of the head (`sja1000_can_controller.cpp:270`, 274) a reader at slot 0 of an empty ring finds the indices different and returns old slots |
| `ErrorsDropped` | a bus error that comes alone is read, and so cleared, by the read that ends the routine (295): nothing is stored or logged |
| `EmptyFrame` | `cansend can0 5AA#`, an example of its usage text, sends a frame whose length was never set (`cansend.cpp:67`) |

What else is false after the wrap. `RequestServed` holds for every request but one kind,
which it names (`Laps`): a read or a poll made while the head has wrapped and the bottom
has not. Its pointer is reset to the bottom and counts past the head in 64 bits; if the
filter rejects what is in the ring, the loop of line 206 or 332 goes round it for ever and
holds `queueMutex_`, so the receive thread cannot publish. `ReaderServed` and `PollerWoken`
are stated for the first `HeadMod` frames: a request that waited when the head wrapped has a
pointer that never equals the head again. `ReadableIntact`, `PendingAtHead`, `InOrder`,
`NoSilentSkip` and `ImplementsLog` are checked in a run that does not reach the wrap and
proved for one that does not. `TypeOK`, `NoDanglingOcb`, `ReaderHasElement`,
`PollerHasEvent` and `LossBudget` hold after it as well.

`src/cansend/README.md` gives `242#1.1.2.3.4.5.6.7.8` as an example, which `ParseCanFrame`
refuses: it has nine values, and `cansend.cpp` takes eight, as the same page says of the
data. In the model `Data` makes no frame of such a text (`MCTexts` has one); no run is
about it.

Two more things the passing runs allow, named in their properties. `ServingIsSafe`
is about the time between the start and the stop: an interrupt that meets the
interrupt thread before the controller is assigned (`controller_factory.cpp:89`,
91), and almost any order of `Finalize` and the threads it stops last, uses what
is not there. And the command that clears an overrun
(`sja1000_can_controller.cpp:318`) also releases the frame at the front of the
FIFO; `Accounted` counts it. When `InitController` fails, the pulse thread it
started is never joined and the program is terminated at its exit.

## 5. What is proved

The proofs hold for all values of the constants that satisfy the assumptions of
the modules (`CanManagerAssumption` and `NoneAssumption`, `TransmitAssumption`,
`ReceptionAssumption`, `ErrorLogAssumption`, `LifecycleAssumption`,
`FramePathAssumption`): any sets of clients, descriptors and identifiers, rings of any
size, any bounds, signals in any set of threads, any texts, masks and frames. The
assumptions say that sizes are positive, that bounds are natural numbers, that filters
are sets of identifiers, that texts and frames are of the form section 3 describes,
and that `None` is none of the values it stands beside. Every invariant and both
refinements of the passing runs have a theorem.

| property | theorem | needs |
|---|---|---|
| `TypeOK` of every module | `TypeCorrect` | |
| `CanManager`: `ReadableIntact`, `PendingAtHead`, `InOrder` | `FramesIntact`, `DelayedAtHead`, `DeliveredInOrder` | head does not wrap |
| `NoSilentSkip`, `PointerOnlyAdvances` | `NoFrameSkipped`, `PointersNeverGoBack` | head does not wrap |
| `NoDanglingOcb`, `ReaderHasElement` | `NoUseAfterClose`, `NoReaderForgotten` | |
| `PollerHasEvent`, `LossBudget` | `PollerNotForgotten`, `LossesArePaid` | |
| `NothingLost` | `OnlyInterruptsLose` | no read is interrupted |
| `ImplementsLog` | `LogImplemented` | head does not wrap |
| `Transmit`: `FreeMeansFree`, `ExactlyOnce`, `NoStall`, `NoInversion`, `NoLostInterrupt` | `FlagIsRight`, `NoFrameLostOrTwice`, `NoFrameStalls`, `LowestFirst`, `InterruptsSeen` | |
| `ImplementsQueue` | `QueueImplemented` | |
| `Reception`: `Accounted`, `UnreadInOrder`, `ReadOnce` | `FramesAccounted`, `RingInOrder`, `FramesReadOnce` | |
| `ErrorLog`: `LogInOrder`, `OnItsWay`, `OnlyHighDropped` | `LoggedInOrder`, `NoEntryForgotten`, `LowErrorsKept` | |
| `Lifecycle`: `ServingIsSafe`, `MaskBalanced`, `CleanExit` | `SafeWhileServing`, `MaskIsBalanced`, `ExitIsClean` | |
| `FramePath`: `RoundTrip`, `ShownIfWanted` | `FrameArrives`, `ShownAsDocumented` | |
| `LongOnlyWithoutData` (delimits `EmptyFrame`) | `LengthsAreRight` | |

"Head does not wrap" is `MaxFrames < HeadMod`: fewer than 2^32 frames since the
start. Without it these properties are false; `HeadWrap` shows one of them. The liveness
properties of `ReceiveLiveness` have their own exemptions (section 4, Findings).

*CanManager, the ring and the list.* `SafetyInvariant` is the inductive invariant
before the wrap, because none of the properties is inductive alone: the head counts
the frames received (one less while the walk runs), the bottom trails it by less
than a ring, each readable slot holds the frame of its number, `expected` of an OCB
never exceeds its pointer, elements already passed in a walk stand after the head
and those to come at it or after it. `PointersNeverGoBack` delimits the finding of
`HeadWrap`: what it shows is due to the wrap alone.

*CanManager, the clients.* `PollerInv` adds to `PollerHasEvent` that who waits for an
event has the descriptor open, and that elements and requests come only from clients
of their descriptor, so nobody else overwrites the event of a client that has it for
itself. `LossBudget` is about cardinalities, and is not inductive because the read in
hand is not in the list yet: `BudgetInv` counts it apart. A descriptor owes its lost
frames, the reads in its list, and the read in hand if its client was answered
already (`Orphan`); it is paid with its interrupts and the clients that wait with a
read in the list (`WaitingReaders`). That every waiting client has its own read there
(`ReadsOfClients`, by an injection) gives that losses never exceed interrupts, and
`OnlyInterruptsLose` delimits the finding of `InterruptedRead`. All three hold after
the head has wrapped, too.

*CanManager implements FrameLog.* `LogInit` and `LogStep` are the two halves of
`LogImplemented`. Each action maps to one step of the log or to none; the lemmas
`LogArrive` to `LogClose` say in the words of `CanManager` what each step of the log
takes, and `LogStep` shows for each action which one it is. It rests on all of the
above: a search that found nothing is a `Look` because the ring holds the frames of
their numbers; a delivery is `Lose` only if an interrupt is left to pay for it
(`Paying`); a walk makes its frame arrive when it begins.

*Transmit.* `TransmitInvariant` strengthens the safety properties by who holds
which lock at which step, by the single place of each frame, by the fact that a
cleared flag means a thread at the buffer, a frame on the chip or a transmit interrupt
on its way, and that a latch or a running routine stands for each interrupt bit.
`NoInversion`, which no run checks by itself because `ImplementsQueue` says more, is
about the frame in the hand of a thread that loads the buffer.

*Transmit implements SendQueue.* `QueueInit` and `QueueStep` are the two halves of
`QueueImplemented`. The lemmas say for each action which step of the queue it is: a
write that begins is `Write`, its push or its decision to go around is `Accept`, the
load is `Start`, the end of the transmission is `Send`, and everything else, the pulse
thread's pop among it, changes nothing. `Start` needs that only the thread that holds
`transmitMutex_` has a frame in hand, that it is the lowest (`NoInversion`), and that the
chip is empty then (`FreeMeansFree`); `Write` needs `ExactlyOnce`.

*Reception.* `RingInvariant` has the FIFO in the order of the bus and not empty when
the routine takes a frame, the indices as the counts modulo the size (with the head
one further between its increment and its wrap), and a chain: the frame read last is
older than those in the ring, these are in order and older than those in the FIFO.
`UnreadInOrder` alone says nothing of the frames that will enter the ring.

*ErrorLog.* `LogInvariant` counts: an entry and a pulse stand for an interrupt each, so
no more are made than were raised; the slot of number `k` holds the error of that
number until it is logged. `OnItsWay` needs in addition that a thread that stores an
entry has already decided to send the pulse (`WakeInv`).

*Lifecycle.* `LifeInvariant` has the program counters relate: how far `main` has come
when a thread exists (`StartInv`), what of the device is left at each step of
`Finalize` (`BridgeInv`), who holds the controller and in which order they let go
(`HolderInv`), and who is joined (`JoinInv`). `CleanExit` needs them because `main` may
be in the middle of the start when another thread runs `Finalize`: it must be past the
step whose work `Finalize` undoes; the threads are joined if the manager was deleted
(`terminate`), not if a main that still runs assigned it afterwards.

*FramePath.* `IInv` of `FramePathProofs` follows the frame. `RoundTrip` speaks of the
moment a frame was received, so `OnTheWay` says what makes it true then: before, the
registers of the receiving chip hold the frame (`Holds`). That they do is arithmetic, for
every identifier of 29 bits: `IdBytesTyped` has the last byte of an identifier leave room for
the bits after it, `ExtendedIdOf` and `StandardIdOf` put the shifted parts together again
whatever stands in that room. `ShownIfWanted` relates the frame to the
command line as it was typed, so `AsParsed` keeps `canFilters` what `ParsedFilters` makes of
`tokens`, and `PassedIfAccepted` has the parser and the comparison together do what
`Accepts` says of a token: the 8 digits become the flag of an extended identifier, `~` the
bit that inverts. `CanFilterPassed` compares whole words, error bit included, and `Accepts`
does not mention that bit of a frame; the two agree because no received frame has it
(`NotShownYet`) and no mask keeps it (`FilterTyped`). Types need what the parser makes of any text. `FlattenSeq` is a
recursive function of the library; that it is defined and what it returns is proved by
the least number principle (`LeastMember`), which takes the place of an induction.
`LengthsAreRight` delimits the finding of `EmptyFrame`: no other text makes
`TransmitMessage` read behind the frame.

*Only model-checked.* The liveness properties (`RequestServed`, `ReaderServed`,
`PollerWoken`, `WriteReturns`, `AllSent`, `FifoServed`, `RingRead`, `RingEmptied`,
`ShutdownEnds`), because liveness under fairness is out of the proof system's reach.

## 6. What is not modelled

PCI calls beyond their outcome, the values written to the chip at its start and
the bit timing table, the text of the log, options and usage texts, time stamps
and the layout of a line of `candump`, the port mapper and the thread wrapper,
which nobody uses, and the FD and XL frames of `can.h`. `-B 0` and the open or
write of `cansend` that fails are left out. `cansend` and `candump` use the driver
as the clients of `CanManager` do: one blocking read or write at a time. How the
bus arbitrates between frames is not compared with the order of the transmit
queue.
