# TLA+ specifications of the mecanum robot's firmware and host

The repository holds two programs that talk over a serial line. `src/avr` is an
Arduino program: a manager that steps a set of small finite state machines (FSMs)
and lets the host create, destroy, list and command them. `src/avr_controller` is
the C++ library and the programs on the BeagleBoard: the host's end of the serial
link, GPIOs with polling, pulses and software PWM, the program that answers the
buttons, an IMU, a thumbwheel. The specifications here model the code of both, are checked with TLC
on small instances, and every safety property that is checked and holds is also proved, with
TLAPS, for every value of the constants (section 4 says under which hypotheses).

## 1. Inventory

| Component | State | Operations | What must be right |
|---|---|---|---|
| FSM manager, `avr/src/MecanumMaster.cpp`, `FSMVector.*` | array of FSM pointers `m_fsmv` with a `uint8_t` count, deadline per slot `fsmDelay`, `m_encoder`, `buffer_bytes` | `Spin` (serial, step what is due, sample the encoder), `SerialCallback`, `Message` (create, destroy, list) | no freed object reachable; the array is the host's list; every FSM is stepped when it asked to be |
| FSM classes, `avr/src/*.cpp` | pin level, phase, brightness, `m_bMessaged` … | constructor, destructor, `Step`, `Message`, `Describe` | delays; motors stop when commands stop; no LED outlives its owner; fades and spins as described |
| Encoder and Sentry, `avr/src/Sentry.*` | sample buffer, sweep state, servo angle | `Update` at 2 kHz, `Start`, `Disable`, `Step` | no sample of one sweep published in another; the buffer is never overrun |
| TinyBuffer, ParamServer, generated headers | bytes | accessors | layouts |
| Serial link, host, `AVRController.*` | two threads, write queue, response handlers, port, two mutexes and two conditions | `Open`, `Close`, `Reset`, `Send`, `Query`, `Receive`, FSM helpers | no write to a closed port, one read outstanding, order kept, threads end, answers go to who asked |
| Message parser, `AVRController::Message` | read state, bytes so far | `Advance`, `Reset` | the same messages however the stream is cut |
| GPIO, `GPIO.*` | descriptor of the value file, cached direction and edge; no thread of its own | `Open`, `Close`, `GetValue`, `SetValue`, `SetDirection`, `SetEdge`, `Poll`, `Mirror`, `Pulse`, `PWM` | the cache is what sysfs says, whatever fails; pulses have their edges and end low |
| Upstart, `Upstart.*` | two button threads and a flag that stops both; the green one's state | `Main`, `GreenThreadRun`, `RedThreadRun` | no press invented or answered twice; a held red button shuts down; the threads end together |
| SystemShutdown | none | calls `shutdown` | |
| IMU, I2C bus | two sampling threads, a mutex for the bus and one for the frame, the bus's address | `Open`, `Close`, `GetFrame`, `DetectDevices` | a frame is whole and each part from its device; no sample is left unread; the bus is closed last |
| Thumbwheel (only a test constructs one) | three GPIOs | `Open`, `GetValue`, `Poll` | digits from bits, after they have settled |
| SentryMonitor, `SentryMonitor.*` | batches of one sweep, timeouts in a row | `Main`, a loop around `Receive`; `Process` | every sweep in a file of its own, nothing missing; the program ends and unloads its Sentry |
| Programs that load FSMs (`Upstart`, the tests), with `ListFSMs`, `CreateFSM`, `DestroyFSM`, `ClearFSMs` of `AVRController.*` | the list being cleared | the four calls, `Send` | after `ClearFSMs()` nothing is loaded and nothing is lit |
| Host motor controller | none | `Connect`, which fails always; `SetSpeed` is commented out | |
| Tests, vendored libraries, image scripts, data analysis | | | |

How they interact. The host's clients call `Send`/`Query` of `AVRController`; its
write thread puts messages on the line; the firmware's `Spin` loop reads one,
`SerialCallback` gives it either to the manager (`FSM_MASTER`) or to every FSM with
that ID, and a reply or a published message goes back to the host's read thread,
which parses it and wakes the handler waiting for that FSM's ID. On the firmware's
side everything is one thread; what makes it hard is time (deadlines are kept per
slot, modulo 2^32), object lifetime (objects are shared by array and encoder
pointer) and capacity. On the host's side it is threads: who holds what while
waiting for whom, what a notification finds, what is left over from the last
session.

`PROJECT.json` lists under "hazards" each place of the code where one of these
bites, and the property that would catch it.

## 2. Modules

| Module | Models |
|---|---|
| `FiniteStateMachine` | what constructors, `Step()` and `Message()` of the FSM classes do, as far as the manager can tell (constant level) |
| `MecanumMaster` | the manager: array, deadlines, `Spin`, `SerialCallback`, `Message`; ticks of the clock and messages of the host around it |
| `FsmRegistry` | abstract: the list of FSMs the host believes in |
| `MecanumMaster_proofs` | theorems about `MecanumMaster` |
| `SerialFraming` | how `SerialCallback` cuts bytes into messages, with bytes lost and late |
| `Fade` | one fader, its brightness and the truncated step (constant level) |
| `ChristmasTree` | the tree's state and its five faders (constant level; extends `Fade`) |
| `Outputs` | the loaded FSMs and the pins they write: LEDs and motors (extends `ChristmasTree`) |
| `HostSession` | a host program that loads, commands and clears FSMs, and the board (extends `Outputs`) |
| `HostSession_proofs` | theorems about `HostSession`, and with it `Outputs` and `ChristmasTree`, and about `SentryMonitor` |
| `SentryMonitor` | the program SentryMonitor and the times of a Sentry's sweeps (extends `HostSession`) |
| `EncoderClock` | when `Spin` samples the encoder, on a clock that wraps (extended by `Sentry`) |
| `Sentry` | the Sentry's sweep and its Encoder: sampling, packing, publishing |
| `AVRController` | the host's link: owner, clients, write and read thread, port, Arduino |
| `Outbox` | abstract: messages are sent in order, at most once |
| `MessageParser` | `AVRController::Message`, byte by byte |
| `GPIO` | a pin's sysfs files and the object in front of them, `Pulse` and `PWM` in time |
| `Upstart` | the two button threads, `GPIO::Poll` as they call it, the pins and the kernel's edges |
| `IMU` | the two sampling threads, the bus and the frame they share, a client and the owner |
| `SerialFraming_proofs`, `AVRController_proofs` | theorems about the two ends of the line; the second extends `MessageParser` too |
| `Sentry_proofs`, `GPIO_proofs`, `Upstart_proofs`, `IMU_proofs` | theorems about these four |
| `MC*` | instances for TLC (`Sentry`, `GPIO`, `Upstart`, `IMU` and `MessageParser` need none; `MCSentryMonitor` is that of `HostSession` too) |

Definitions named `X_Something` next to a definition `X` are slips: what `X` would
be with a plausible mistake in the code. No specification uses them; put in the
place of `X` they show that a property is able to fail.

### FiniteStateMachine, MecanumMaster, FsmRegistry

An FSM object is a record: its fingerprint (the parameter array whose first byte
is the ID), the address it was allocated at, the flags its `Step()` reads, and a
ghost `due`, the time at which its last `Step()` asked for the next one, kept
without truncation. Five IDs stand for the eleven classes, by what the manager
sees of them: a fixed delay (Blink, and with it Fade, ChristmasTree,
BatteryMonitor, Mimic, ServoSweep), a fixed delay and a `Message()` that asks for
a step (publishers), dormancy until a message (Toggle), a timeout
(MotorController), ownership of the encoder (Sentry).

Actions are the steps of the loop: `SerialCallback` takes one whole message and
does everything the handler does (create with the object's allocation and
`m_encoder`; destroy with `GetIndex`, `Erase`'s shift and `m_encoder`; list; wake
and step every FSM with the ID); `SerialIdle` leaves the serial loop; `StepFsm` is
one turn of the `for` loop; `PollEncoder` ends the pass. Around them, `Tick`
advances `millis()` and `HostSend` puts a message on the line. Erased slots hold
NULL where the code leaves a dangling pointer it never reads.

Two ghosts say what the code keeps no record of: `passTicks`, how long this pass
has taken, and `shiftedFrom`, the lowest slot whose deadline may belong to another
FSM because `Erase()` moves the FSMs and not the deadlines.

### Fade, ChristmasTree, Outputs

`MecanumMaster` is about when an FSM is stepped and knows nothing of its pins;
`Outputs` is about what the steps write and lets any loaded FSM be stepped at any
time, which covers the schedule of the code, its mistakes behind an `Erase()`
included. An object is a record whose fields are those of its class that the pins
depend on: a fader, a tree of faders, the battery monitor's level, a flag. `lit` has
the level of every LED: whether what was written last is 0, which is all that is
asked of a brightness (both luminance curves map 0 and nothing else to 0).
`Create`, `Destroy`, `StepFsm` (one disjunct per class) and the two `Command`s are
constructor, destructor, `Step()` and `Message()` with the pins they write. A Toggle
and the motors are messaged all at once, in array order, as `SerialCallback` does;
`enable` is the static variable in `MotorController::Message()`, which alternates with
every message of every motor controller. The ghost `armed` says that a motor controller's
next step is its timeout; a deadline that `Erase()` has left with another FSM is invisible to it
(that is `MotorsTimeOut` of `MecanumMaster`).

`Fade` and `ChristmasTree` are pure: a fader's record holds rate, direction,
brightness and whether it is enabled, `Faded` is `StepAwayFromTheVTable`, and
`TreeStepped` is the tree's `Step()`: the transition of its state, a step of every
fader, and another for a target that is not at full brightness yet. The brightness step
keeps the truncating division and the width of the product. The ghosts `age` and
`peaked` measure a cycle.

### HostSession, SentryMonitor

Here the two ends of the line meet. `HostSession` is a host that calls `CreateFSM`,
`DestroyFSM`, `ClearFSMs` and `Send` in any order, one call at a time, as the tests
and `Upstart` do; messages are whole and in order (`AVRController` and `SerialFraming`
are about the rest). `ClearFSMs()` is `CallClear` (its query), `Arrive` or `GiveUp`, and one
`DestroyNext` per FSM of the list, so that steps of the board, and commands still on
their way, fall in between. A list carries the number of the query it answers, which
the code does not send: `Arrive` takes any list, and the ghost `current` says whether
it was the right one and the host has created or destroyed nothing since.

`SentryMonitor` adds a second program that may have the line instead, with the times of
`SentryMonitor::Main()` and of the Sentry in ticks of 64 ms, a full batch. `Receive()`
returns a batch that comes while it waits and gives up after `RECEIVE` ticks; a batch
that comes at any other moment is lost (`Published`). The DESTROY that `Finish` queues is written
or discarded (`DestroyWritten`, `DestroyDiscarded`), whichever the write thread comes to. `Return` is the end of a sweep, whose
rest of a batch may come at any moment before the next tick. What a batch contains is
the subject of `Sentry`; here it is the n-th of its sweep.

### SerialFraming

The first half of `SerialCallback`, which `MecanumMaster` takes as given: two
reads, one of the length word and one of what it announces, each of which may give
up after 250 ms with part of the bytes. A read that gives up leaves what it did not
fill as it was, so a lone low byte is completed with the high byte of the message
before. `phase` tells the two reads apart; the ghosts `expect` and `trouble` say
which messages the host has sent since the line was last quiet, and whether bytes
have been lost or late since. `readBytes()` and the line are external.

### EncoderClock, Sentry

`EncoderClock` is the end of the loop: `lastMicrosValue`, `encoderDelay` and the
wrap flag, whose comparison `UpdateDue` copies. `microsWrapped` is assigned anew on
every pass and therefore no variable. `Sentry` adds the FSM's `Step()` and the
Encoder's `Update`, `Start`, `Disable` and `Publish`. `Step` may come at any time
here; that the manager calls it when it should is what `MecanumMaster` is about.
The sample buffer of a new Sentry holds anything (it is never initialised).
`batch` and `taken` remember what was really sampled, and `Decoded` is what
`SentryMonitor` on the host makes of a message.

### AVRController, Outbox, MessageParser

`pc` holds where each thread is; steps end at locks, waits, notifications, joins
and volatile accesses. `Close` is five steps (stop, notify, join writer, close the
port under its mutex, join reader with the mutex still held), `Open` is `Close`
and three more, and may fail. `Reset` passes `m_deviceName` by reference, so the
name it opens is read after `Close` cleared it. An asynchronous read is outstanding
(`reads`) until data arrives or somebody cancels, then it is queued (`completions`)
until the read thread runs its handler. A message travels as two parts because the
parser reads it as two, so that a session may end between them. `boost::asio`, the
threads and the Arduino are external and modelled as the code uses them.

`MessageParser` is the same parser at the level of bytes: any read returns any
non-empty part of what was asked for. The framing it must implement (`Frames`) is a
recursive function of the whole stream. Its definitions are named so that a module can extend it
together with `AVRController`: `AdvanceBytes` is `Message::Advance()`, `ReadBytes` is `ReadCallback()`.

### GPIO, Upstart, IMU

In `GPIO` each call is one step whose system calls may each fail, except `Pulse` and
`PWM`, whose `pc` stands at a change of the value or in `nanosleep`. `sysfs` is the
pin, `object` the C++ object; `outcome` is what the last call returned. The ghosts
`rises`, `asked` and `gaveUp` say what a pulse has done so far.

`Upstart` has a program counter for each thread. `Poll` is three steps: it reads the
initial value, it is woken (and reads the value again, which may be a false alarm),
or it times out. What is between two reads of the pin is one step, as nothing else
is shared but `m_bRunning`. `level` is a button, `event` what the kernel would report
to `poll()`: an edge that no read has followed. An exception inside a loop clears
`m_bRunning`; one outside ends the program (`crashed`). The ghost `fresh` is set by
a press and cleared when a press is answered.

In `IMU` steps end at locks and at every field of the frame, of which there are two
per device. `slave` is the device the bus addresses: reading gives the sample of
whatever device that is. Here `Poll` is called unverified, and never reads the pin;
whether the kernel reports the same edge again is left open.

## 3. What the runs check

| Run | Shows |
|---|---|
| `MasterObjects` | every mix of create, destroy and list up to three FSMs, equal Sentries and a Toggle with invalid parameters included (a Sentry with such is left out, see below): `EncoderSafe`, `ArrayOwnsItsSentries`, `RegistrySpec` (the array implements the host's list), `ListsEveryFsm` (a reply that fits names them all, in order), `MessagesHandled` |
| `MasterSchedule` | creating, erasing, driving and toggling while the clock runs: `Punctual` (within two passes of the time asked for) and `NeverEarly`, for FSMs behind no erased one |
| `Framing` | three messages that may lie on the line together, one byte lost anywhere and any number late: `HandlesWhatWasSent` and `MessagesArrive` while the line is in step, `LineRecovers` once the host pauses |
| `Sentry` | sweeps, sampling, create and destroy against a wrapping clock: `BatchesAreSamples` (the host decodes what was sampled, one sweep at a time), `NothingPendingWhenParked`, and, for the clock, `StallsOnlyAtWrap` |
| `AvrSession` | two clients against one session and a close at any moment: `WritesToOpenPort`, `OneCallback`, `AnswersAreWhole`, `CloseGoesOn` (what `Close` waits for is there or can still come, but for the two known hangs), and `OutgoingSpec` (the queue implements `Outbox`) |
| `AvrLiveness` | `CloseReturns` (but for the two known hangs below), `QueueDrains`, `ReadResumes` (a cancelled read is installed again) |
| `Parser` | `ChunkingDoesNotMatter`: messages depend on the stream alone, not on how it is cut |
| `GPIO` | any sequence of calls with any of their system calls failing, and signals during pulses: `CacheIsTrue`, `EndsLow` and `TakesItsTime` |
| `Upstart` | two changes of each button at any moment, exceptions included: `AnswersArePresses`, `StopsTogether`, `HeldShutsDown` |
| `IMU` | samples, timeouts, a failing read and a `Close` at any moment: `FramesAreWhole`, `DataIsRead`, `ReadsOnOpenBus`, `CloseReturns` |
| `HostPrograms` | either host program against the board with what it loads at boot, or what others left: `LitIsOwned` (a lit LED has an owner that will put it out), `ClearLeavesNothing`, `WatchdogLostOnlyByDestroy` (running motors lose the controller whose next step stops them in one way only; when that step comes is the subject of `MasterMotorTimeout`), `FadesWholeCycles`, `SpinnersTakeTurns` and `TreeLeavesEmergencyAlone` (the tree's lights), `OnlyTheLastIsMissed` (each sweep in its own file, and only its last batch may be missing), `MonitorEnds` (and its Sentry is unloaded, unless the link was closed before the DESTROY was written) |

One run expects a violation. It shows where the code and its own comments part:
`MasterMotorTimeout` erases an FSM in front of the MotorController, which inherits the
deadline of another slot, and the motors outlive their timeout.

### Other divergences met while modelling

These need no run of their own because a property above or a hypothesis of a
theorem names them; each can be had as a counterexample by the change given.

- `Reset()` passes `m_deviceName` by reference to `Open()`, whose `Close()` empties
  it: the port opened is "" (`AVRController.h:56`). `AvrSession` with
  `MaxOpens = 2` and `ResetKeepsDevice` as its only property.
- If `Close()` clears `m_bRunning` before the read thread that `Open()` has started gets to
  its loop, the thread ends without having run (`AVRController.cpp:250`): the read `Open()` had installed,
  cancelled by `Close()` or by a write, is still queued when the port is opened again, and
  runs beside the read of the new session (`AVRController.cpp:260`). This is the only way
  (`SessionsLeaveNothing`). `AvrSession` with `MaxOpens = 2` and `OneCallback` as
  its only property.
- `micros()` wraps, and the next deadline falls between the first and the second pass
  behind the wrap: no sample is taken until the clock wraps again, 71 minutes later
  (`MecanumMaster.cpp:139`). `NeverStalls` as an invariant of `Sentry`.
- An FSM created in a slot whose deadline was left by a dormant FSM waits for that
  deadline (`MecanumMaster.cpp:126`). Drop `j < shiftedFrom` from `Punctual`.
- Past half the range of `millis()`, FOREVER plus now wraps and dormant FSMs are
  stepped on every pass (`MecanumMaster.cpp:128`): `NoWrap` in `NeverStepsEarly`.
  `MasterSchedule` with a `Horizon` of 12.
- The 256th FSM makes the `uint8_t` count 0 and all FSMs are forgotten
  (`FSMVector.cpp:27`). `MasterObjects` with `HostLimit = 4`.
- A Sentry created with invalid parameters leaves a wild encoder pointer
  (`MecanumMaster.cpp:254`): `HonestHost` in `EncoderSafety`. Add
  `CreateMsg(Invalid("FSM_SENTRY"))` to `ObjectMsgs`.
- A host that sends as fast as it is read keeps every FSM from running
  (`MecanumMaster.cpp:119`): under `FairSpec`, that a pass ends is not a theorem.
- A LIST reply that does not fit is cut without notice (`MecanumMaster.cpp:293`).
  `MasterObjects` with `BufferLength = 6`.
- `Close` joins the read thread with `m_portMutex` held, and the read thread waits for
  that mutex to install its next read (`AVRController.cpp:112`): both wait for ever.
  `NoJoinDeadlock`, which `CloseReturns` has as a hypothesis, as an invariant of
  `AvrSession`.
- The notification of `Close` falls between the write thread's test and its wait,
  and the thread is joined for ever (`AVRController.cpp:101`): `LostNotification` in
  `CloseReturns`.
- Half a message of the last session is completed with bytes of the new one
  (`AVRController.cpp:73`). `AvrSession` with `MaxOpens = 2` and `AnswersAreWhole` as its only property.
- A response delivered before the wait for it begins is reported as a timeout, and
  one that comes after the timeout, or was published by the FSM unasked, answers
  the next query (`AVRController.cpp:202`, `:284`). `AnswersAreWhole` promises
  only that an answer is a whole message of the right FSM.
- A length above the buffer's is capped for the read, and the whole length is
  handed on with the message (`MecanumMaster.cpp:168`, `:180`).
- `Pulse()` gives up after three signals and leaves the pin high; `PWM()` ignores
  what `Pulse()` returned and may return true that way, and so it does, without
  waiting its time, when a steady one is interrupted three times
  (`GPIO.cpp:556`, `:598`, `:612`; `GPIO.h:218` promises a final 0). With a duty cycle
  so small that its duration truncates to 0 it stays high for good (`GPIO.cpp:585`).
  Drop `~gaveUp'` or `job # "tiny"` from `EndsLow`, or `gaveUp'` from
  `TakesItsTime`.
- After `SetDirection(OUT)` failed, `SetDirection(IN)` returns normally and leaves the
  pin closed (`GPIO.cpp:240`, `SetAgain`): a caller that catches the exception has to
  reopen it.
- A press of the red button between two calls of `Poll()` is not reported. If the
  release falls there, a second Fade is created at the next press and one of them is
  never destroyed; if the press falls between a timeout and the read behind it, the
  board shuts down at once instead of after five seconds (`Upstart.cpp:200`).
- The line to the Arduino is not pulled low at the start if it was an output already
  (`Upstart.cpp:111`), and what throws before or behind the loops ends the program.
- If `InitAcc()` or `InitGyro()` throws, the bus stays open, and the next `Open()` is
  true with no thread running (`IMU.cpp:42`, `OpenThrows`). What GPIO calls throw in
  the sampling threads ends the program (`IMU.cpp:157`). `Frame::timestamp`, "timestamp
  of the latter sample" (`IMU.h:50`), is never set.

- "The brightness goes from 0 to 255 to 0 in one period" (`Fade.h:60`): the truncated
  step makes the cycle longer, up to less than twice the period and two delays
  (`WholeCycle`). A period of 0, a negative one, or a product or step that wraps is not
  rejected (`Fade.cpp:62`); `RateIsSane` assumes that hosts send none.
- "The brightness of fader[m_spinningTarget] is guaranteed to be less than 255"
  (`ChristmasTree.h:60`) holds behind the transition only: the step of the faders that follows
  may take it there, and the next transition hands on because it is (`SpinnersTakeTurns`).
- The tree's states Off, OffStart, Emergency and EmergencyStart are never assigned
  (`ChristmasTree.cpp`).
- A MotorController's destructor is empty (`MotorController.h:59`): destroyed while it
  drives, by `DestroyFSM` or `ClearFSMs`, it leaves the motors on for good. This is the one
  exception in `WatchdogLostOnlyByDestroy`. A speed of 256 is PWM 0, one of 257 is 1
  (`MotorController.cpp:101`, `Pwm`).
- A Mimic and a MotorController leave their LED lit (`UntidyPins` in `LitIsOwned`; the
  MotorController's is the battery monitor's fourth, under another name). And
  the destructor of one FSM puts out an LED that another still fades or has switched on:
  the converse of `LitIsOwned` is false.
- A list that answers an earlier query, which timed out, is taken for the new one, and
  `ClearFSMs()` leaves what was loaded in between (`AVRController.cpp:398`): drop
  `current` from `ClearLeavesNothing`.
- `SentryMonitor` drops a batch that is published while it is not waiting: the rest of a batch at the
  end of a sweep may come right behind a full one, and `OnlyTheLastIsMissed` says that it is the
  only one. A set that cannot be written is lost (`Process`).
- `SentryMonitor::Main()` queues the DESTROY of its Sentry and returns (`SentryMonitor.cpp:111`), which
  destroys the AVRController: if `Close()` clears `m_bRunning` before the write thread has taken the
  message, the thread discards it (`AVRController.cpp:100`, `:230`), and the Sentry stays loaded. Drop
  `at = "discarded"` from `MonitorEnds`. Any program that returns right behind `DestroyFSM()` or
  `ClearFSMs()` may lose its last messages this way; `ClearLeavesNothing` is about a host whose
  link stays open.

### Bounds, and why they are enough

- `MaxFsm = 4` stands for 256: the count wraps there and the index -1 is its last
  slot. Three FSMs (`HostLimit`) give every relative position of the erased, the
  shifted and the untouched one.
- `TimeMod = 16` or 32 stands for 2^32 and `FOREVER` for half of it, minus one, as
  in the code. `Horizon` stops the clock before deadlines wrap. Delays of one and
  two ticks are enough for FSMs to overtake each other; horizons of 5 and 7 leave
  several deadlines of each. `MasterObjects` has no time at all: its properties are
  about objects, and any order of messages and steps is possible without.
- `PassBudget = 1`: a pass takes at most one tick, which is what 1 ms means for a
  16 MHz processor with a few FSMs. The properties are stated in passes, and the
  proofs hold for any value.
- `RxCap = 1`: the handler sees one message at a time; more waiting messages add
  no interleaving because nothing else reads them.
- Framing: six byte values and a buffer of five bytes. The messages have the
  shortest length, one more, and the longest that fits, and contain bytes that read
  as short, exact and oversized lengths when the receiver is out of step. One lost
  byte puts it there anywhere; `MaxSends = 3` lets two messages follow.
- Sentry: a clock of eight readings, an interval of two and at most two ticks
  between passes, so that a pass can skip over a deadline, over a wrap, and over
  both; two bytes of two samples; a sweep of one step to the left (one sample or
  none, as the schedule has it, or a full message) and two to the right.
- `AVRController`: one or two clients, each with one or two calls, one session
  (section 3 has what a second one brings). Two clients, two calls or
  two sessions are what an interleaving of any two needs; `AvrSession` treats the
  clients as interchangeable (SYMMETRY; its properties name none of them, and it
  checks no liveness).
- Parser: three byte values, MAX_LENGTH 5, streams of eight bytes: lengths below,
  at and above both limits, two messages in one stream, and every cut.
- GPIO: a pulse of one tick, a period of two and a `TIME` of three, which no number of
  whole periods meets; one and two pulses; `MaxElapsed = 6` is twice what any of the
  calls takes, so that late wake-ups happen.
- Upstart: `BUTTON_TIMEOUT = 2` ticks, `MaxChanges = 2` of each button, from either
  level: a press and a release, in any phase of `Poll`, of both.
- HostPrograms: the constants of the code (brightness up to 255; the tree's 1200 and 50 ms, and a
  Fade of 1000 and 250 ms, whose step does not divide 255; 23 steps of 50 ms make 17 full batches
  of 64 ms; a pause of 1000 ms is 16 ticks, `Receive` gives up after 2, the program after the 40th
  time in a row). The modulus of the product is 2^30, TLC's integers being too short for
  2^32: no product comes near either. The host sends `MaxSends = 3` messages, which
  reaches every pair of calls and a command between them, and keeps `HostLimit = 4`
  FSMs, of which two are loaded at boot; `RxCap = 2` lets a call overtake the handling
  of the one before. That the code between two calls of `Receive()` takes less than
  a tick is an assumption on the BeagleBoard.
- IMU: one `Open` (the threads of two sessions never overlap, `Close` joins them); one
  failing read; samples without bound.

### Fairness and deadlock

`MecanumMaster`: weak fairness of the loop (a processor that never stops), nothing
about the host or the clock. `SerialFraming`: weak fairness of the handler, whose
reads end after their timeout at the latest, and of the line. `AVRController`: weak
fairness of each thread's steps (the operating system runs every thread; a lock is
taken by whoever gets it) and of data arriving for an outstanding read; nobody has
to call, close or answer. `HostPrograms`: weak fairness of the monitor with its clock and of the
board's serial loop (which `MessagesHandled` shows of the manager). That the write thread
writes or discards what the monitor has queued at its end is part of the first, and rests on `QueueDrains`
and `WriterSleepsOnEmpty`; whether `Close()` returns after that is the subject of `CloseReturns`.
There is none of the other program, which may stop at any point, or of the FSMs' steps. `Upstart`: weak
fairness of each thread and of time; of no button and no failure. `IMU`: weak
fairness of each thread, strong fairness of its taking a mutex: the other threads
release and take it over and over, and a waiting thread is not passed by for ever.
The sensors need not go on, nor the client or the owner call. The `Avr*`, `Parser` and
`Framing` runs have deadlock checking off because the system may be idle with its
bounded calls or messages used up, `Upstart`, `IMU` and `HostPrograms` because the program
may end, orderly or by an exception; that threads are not stuck is what the liveness
properties are about. The `Master*`, `Sentry` and `GPIO` runs check deadlock.

## 4. What is proved

A theorem holds for every value of the constants that the named ASSUMEs of its module
allow; what it needs beyond those is in its statement and below under "Hypotheses".

`MecanumMaster_proofs`, for every array size, clock width, delay, set of addresses
and host (the ASSUMEs of `FiniteStateMachine` and `MecanumMaster`: sizes are
naturals, NULL is no pin, address or object, what is loaded at boot fits and is no
Sentry, the host sends what its protocol allows):

| Theorem | States | Argument |
|---|---|---|
| `TypeCorrect` | `Spec => []TypeOK` | inductive as it stands; `CallbackCases` splits a message into what it does to the array |
| `RegistryRefines` | `Spec => RegistrySpec`, for a host that keeps fewer FSMs than the counter can count (`HostLimit < MaxFsm`) | the refinement mapping is the array without its objects (`Loaded`); creating is an append there, erasing with its shift removes the first match, every other step stutters. `RoomForAll` says that a CREATE on its way finds room, whatever is handled in front of it, so the count does not wrap |
| `ListsEveryFsmHolds` | `ListsEveryFsm`, for a host whose FSMs fit in the reply (`ListsFit`) and in the array | `Listing` is a recursive function; `SetInduction`, which stands for the library's induction rule and takes a set instead of a predicate, shows that it is defined (`ListingExists`) and that its n-th value lists the first n FSMs in at most `4 + n * (2 + D)` bytes, so that none is left out (`ListingIsLoaded`). The count stays at `HostLimit` or below because every CREATE on its way finds room (`RoomForAll`) |
| `EncoderSafety` | `EncoderSafe`, for a host that sends no Sentry with invalid parameters (`HonestHost`) | `EncoderSafe` alone is not inductive: erasing any other FSM must not free the encoder's address. `EncoderInv` adds `SentryAddrs`: only Sentries have addresses. Destroying a Sentry sets the pointer to NULL whatever is found |
| `SentriesOwned` | `ArrayOwnsItsSentries` | with types: a new Sentry's address is free, and an erased one leaves heap and array in one step, wherever the count wraps |
| `Punctuality` | `Punctual` | `InTime` bounds `now` by the deadline plus the part of the two passes that is left (`Grace`: the ticks of this pass, and a further pass for slots the loop has gone by), and says that `fsmDelay` is at most `due`. Truncation only makes deadlines smaller, so no assumption on the clock is needed |
| `NeverStepsEarly` | `NeverEarly`, if no deadline reaches the clock's modulus (`NoWrap`) | `NotEarly`: the deadline of a slot below `shiftedFrom` is its FSM's `due`, exactly |

The two ends of the line. `SerialFraming_proofs` is for every base, buffer size, message
and loss; `AVRController_proofs` for any clients, FSMs and calls, and any number of
sessions where nothing else is said:

| Theorem | States | Argument |
|---|---|---|
| `SerialFraming_proofs!TypesHold` | `TypeOK` | inductive as it stands: the length is a word whatever two bytes it was made of, and capped before the second read |
| `HandlesWhatWasSentHolds` | `HandlesWhatWasSent` | `InStep`: while nothing has been lost or late, what was read of the message in hand, what has arrived and what is coming spell, one behind the other, the messages that are expected (`Cuts` gives the place where each begins). Taking a message off the front and sending one at the end keep that |
| `AVRController_proofs!SessionInvHolds`, `TypesHold` | `TypeOK` with `Control` and `CallsOK` | which thread can be where while the owner closes and opens, who holds the port's mutex, what the write thread has in hand |
| `WritesToOpenPortHolds` | `WritesToOpenPort` | follows from `PortOK`: a live write thread means an open port, as `Close()` joins it before it closes the port |
| `OutgoingRefines` | `Spec => OutgoingSpec` | the mapping joins what the thread holds and the queue (`Unsent`): `Send()` appends, the write takes the oldest, the end of the thread discards, and nothing else touches either |
| `OneCallbackHolds` | `Spec /\ []NothingLeftOver => []OneCallback` | `ReadsOK` counts the outstanding and the completed read: none while the read thread is about to install one |
| `AnswersAreWholeHolds` | `Spec /\ []CleanOpen => []AnswersAreWhole` | `StreamOK`: the part in hand, the completed part and the line are one stream of whole messages, `LastRead` being where it is cut; `HandlersOK` and `ResponsesOK` tie a response to the call that asked |
| `SessionsLeaveNothing` | `NothingLeftOver` and with it `OneCallback` for any number of sessions, if `m_bRunning` is never cleared under a read thread that has not begun (`ReadBeforeClose`) | `DeadIsEmpty`: a read thread that ends has run out of work, so nothing is outstanding or completed, and while there is no thread nothing is installed (`EmptyStep`) |
| `WholeAcrossSessions` | `AnswersAreWhole` under the same condition, if no message is in hand when the port is opened | from the theorem above |
| `WriterSleepsOnEmpty`, `NoReadIsLost`, `CloseIsNotStuck` | the safety halves of `QueueDrains`, `ReadResumes` and `CloseReturns`: the write thread sleeps on an empty queue only (`SleepsOnEmpty`); while the link runs there is a read outstanding or completed, or about to be installed (`AlwaysReading`); what `Close()` waits for has come, or the thread it joins can take a step, but for the two known hangs (`CloseGoesOn`, which `AvrSession` checks too) | `SleepOK`: the queue is locked from the thread's test up to its wait; `StaysReading`: cancelling completes a read and only its handler takes it away; `ClosedIsQuiet`: nothing is outstanding on a closed port |
| `OneSessionIsClean` | `OneCallback` and `AnswersAreWhole` for a link that is opened at most once (`MaxOpens <= 1`), without a hypothesis about its sessions | `FirstSession`: until the only `Open()` has started its read thread nothing is read |
| `ChunkingHolds` (of `MessageParser`) | `ChunkingDoesNotMatter` | the invariant says more than that the messages so far are the right ones: whatever bytes may come behind what was read (`CutAt`), the framing finds these messages first and goes on where the one in hand begins. So a step only ever needs the framing at one place (`CutTake`, `CutSkip`). `SetInduction` again shows that the framing is defined (`FramesExist`) and does not look ahead of where it is (`FramesLocal`) |

About the host's pins, for every bound, timeout and duration:

| Theorem | States | Argument |
|---|---|---|
| `GPIO_proofs!CacheConsistency` | `CacheIsTrue` | inductive as it stands; `ValueOnly` reduces `Pulse`, `PWM` and the clock to steps that leave the cache and what it caches alone |
| `EndsLowHolds`, `TakesItsTimeHolds` | `EndsLow`, `TakesItsTime` | `LoopInv`: in the loop of `Pulse()` the half periods that are left fix both the rising edges seen and the time the next edge is due (`PulseKept`); between the pulses of `PWM()` the pin is low or the last one gave up (`LowKept`) |
| `Upstart_proofs!PressesAnswered` | `AnswersArePresses` | `PressIsFresh` adds what is true while `Poll` waits: a button that was up when `Poll` began and is down now has been pressed since. `Moves` treats together the steps that neither enter nor leave a wait or an answer |
| `IMU_proofs!WholeFrames`, `BusStaysOpen` | `FramesAreWhole`, `ReadsOnOpenBus` | `IMUInv`: who holds the bus addresses it, who holds the frame is the only one for whom its fields may differ, what a thread carries is its own device's, threads run on an open bus, and the second join comes when the first thread has ended |

About the host and the board together, for every set of pins, rates (`RateIsSane`), FSMs
loaded at boot, commands and bounds:

| Theorem (`HostSession_proofs`) | States | Argument |
|---|---|---|
| `SessionTypes` | `TypeOK` | inductive as it stands; `FadedType` and `TreeSteppedType` keep every brightness within 0 .. FULL whatever the step |
| `LitHasAnOwner` | `LitIsOwned` | inductive with types: what a step lights is a low pin of the FSM stepped, and destroying an FSM pulls all its low pins down, whoever else has them |
| `WatchdogIsKept` | `WatchdogLostOnlyByDestroy` | one lemma per action: a step that starts the motors arms every controller (`CommandMotors`), one that disarms a controller stops them (`TimeOut`), any other leaves both alone |
| `TreeKeepsOffEmergency` | `TreeLeavesEmergencyAlone` | needs an invariant: the tree's fifth fader stays at 0, and is disabled in a tree that spins, so the pin is either not written or written as it already is (`TreesAreQuiet`) |
| `ClearingClears` | `ClearLeavesNothing` | `ClearInv`: while `current` holds, what is loaded is what the DESTROYs on their way and then `fsmv` name, in that order (`Doomed`), and behind those there are only commands; before that, `AnswerIsFresh`: the last query is the last message to the board, and once it is answered nothing changes what is loaded until the answer is taken. Equal FSMs are no trouble because the first match is always the first of the array |
| `FadesKeepTheirPeriod` | `FadesWholeCycles` | `Course`: brightness and age are both functions of the number of steps since the fader was dark; with it the length of a cycle is twice the least number of truncated steps that reach full brightness, which `RiseTime` and `StepTimesPeriod` bound by the period (the product and the division of `Fade.cpp:62`) |
| `TurnsAreTaken` | `SpinnersTakeTurns` | `Turning`: the light next in turn is dark, the one behind the target has lost half of what the target has gained, and the one behind that had begun from half brightness (`Spaced`). It holds for every sane rate because both directions use the same step |
| `SweepsAreWritten` | `MonitorSpec => []OnlyTheLastIsMissed`, for times that fit each other (`TimesFit`) | `Stages`: where the program and its Sentry can be together. While the servo rests, the ticks that have passed are the timeouts counted and the part of the one under way (`Waited`), so at least one timeout falls into the pause, and not so many that the program ends; while it sweeps, a batch comes before `Receive()` gives up and is the next of its sweep |
| `BoardIsKept`, `BoardMovesAsBefore` | the properties of the theorems above of `MonitorSpec`, that is for either program and what others have left | every step of `MonitorSpec` is one of HostSession, or an upload (`Uploads`), which appends a message other than LIST and leaves objects and LEDs alone (`MonitorMoves`) |

About the Sentry, for every size of a byte and of a message, every sweep, and samples taken
at any time:

| Theorem (`Sentry_proofs`) | States | Argument |
|---|---|---|
| `HostReadsTheSamples` | `BatchesAreSamples` | `Gathered`: the bits of the buffer are the levels of the samples taken since the last message, all of this sweep, and the byte that is being filled has no bit yet that is still to come (`Clean`), which is what clearing a byte with its first bit is for. That no two samples share a place is unique division with remainder (`DivUnique`, `EarlierPlace`) |
| `ParkedIsEmpty` | `NothingPendingWhenParked` | `Sides`: a sweep to the left stays left of the middle and one to the right stays right of it, so the encoder is only enabled away from the middle |
| `StallsOnlyAtWrapHolds` | `StallsOnlyAtWrap`, for a clock with `Resolution > 1` | `DeadlineSet`: a deadline lies within one interval behind the last reading, and at the start of the clock if it is behind a wrap |

### Hypotheses

None of these is there to make a proof go through; each is what the code needs.

- `ListsFit`: a list that does not fit is cut (section 3). With the 512 bytes of the code and
  no fingerprint above Fade's 11 bytes, 39 FSMs fit, and the run has a reply that fits exactly.
- `HonestHost`, `NoWrap`, `HostLimit < MaxFsm`: an invalid Sentry, a clock past half its
  range and the 256th FSM are counterexamples (section 3).
- `NothingLeftOver` and `CleanOpen` are the two divergences of `Reset` and a second `Open()`
  in section 3: a completed read, or half a message, that the last session has left. They are
  stated of the moment of `Open()` only, and a link that is opened once meets them
  (`OneSessionIsClean`), as it is by `Upstart` and `SentryMonitor`. `ReadBeforeClose` says what
  the first of them asks of the last session: that the scheduler lets its read thread begin
  before `Close()`, which any session in which a message was read has behind it.
- `TimesFit`: with a pause shorter than `Receive()` waits, two sweeps would go to one file; with
  a pause longer than the program's patience it would end between them. The code has 128 ms,
  1000 ms and 39 timeouts.
- `Resolution > 1`: the clock of the Arduino shows every fourth value. One that shows every
  value could set a deadline on `ULONG_MAX` itself, which `UpdateDue` takes for a wrapped one, and
  the encoder would wait for a wrap without having missed anything.

`TypeCorrect`, `SessionTypes` and the two `TypesHold` state types, which no run lists for want of
anything they could still show; `WriterSleepsOnEmpty` and `NoReadIsLost` state what
the liveness of `AvrLiveness` rests on. Every other theorem of the tables states a property of a run.

### Only model-checked

Liveness and ENABLED are outside what the proof system does: `MessagesHandled`,
`MessagesArrive`, `LineRecovers`, `CloseReturns`, `QueueDrains`, `ReadResumes`, `StopsTogether`,
`HeldShutsDown`, `DataIsRead` and `MonitorEnds` are checked. Every other property of a passing
run is a theorem.

## 5. What is not modelled

Registers and pins (`avr-gcc` macros, `digitalWriteFast`), the generated parameter
headers (their layouts are data), the vendored Flash and digitalWriteFast
libraries, the SD card scripts under `src/arm`, offline analysis in Matlab and
Python, `SystemShutdown` and `GPIOExport` (a few lines of `main`), the other `main` programs
but `Upstart` and `SentryMonitor`, the IMU's registers and units. The Thumbwheel: `Upstart`'s thread for it
is commented out (`Upstart.cpp:80`), and only a test constructs one. The host's motor controller,
whose `Connect()` always fails and whose `SetSpeed()` is commented out. The angle of a
ServoSweep, which has two positions and no other effect, and the readings of the two
publishers; their delays and messages are in `FiniteStateMachine`. `SentryMonitor` writes over its last file when
there are 10000 of a day. `Mirror` is a `GetValue` and a
`SetValue`. `I2CBus::DetectDevices` is a loop over addresses (its condition, `<`, leaves
out the last one, `I2CBus.cpp:76`). `FSMVector`'s
`PopBack`, `Clear` and `QuickErase` are never called. `SetDTR` is never called. The
tick count of the Encoder is kept and never sent. `MessageParser` and
`SerialFraming` do not share a line: what the firmware publishes is read by the
first, what the host sends by the second, and neither direction depends on the other.

## 6. Plan

In order of what the robot depends on:

1. `AVRController` against the board of `HostSession` instead of its own Arduino, on a
   client with one query and one command;
2. the Thumbwheel, when a program uses it: what `Poll` returns has been still for its settling
   time, though three pins are read one after the other.
