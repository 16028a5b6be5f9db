# favjit in TLA+

favjit converts the keyboards of one machine, the **sink** (macOS), and lets a
second machine, the **source** (Windows), send its own keyboard and pointer to it
over the network. All of the logic is in `src/crates/engine`; a host crate per
platform answers one call per operation (`docs/adr/0006`). This directory models
that logic and what stands around it: what TLC checks on small instances, and what
TLAPS proves for all.

- [The system](#the-system)
- [The modules and the code](#the-modules-and-the-code)
- [The runs](#the-runs)
- [What is proved](#what-is-proved)
- [Where the code and its documents disagree](#where-the-code-and-its-documents-disagree)
- [What is not modelled](#what-is-not-modelled)
- [Plan](#plan)

## The system

```
  source (Windows)                                  sink (macOS)
  reading thread --stream--> run ==== link ====> serve --stream--> run <-- capture thread
    hooks answer            relays, refuses       releases        converts   takes, reads
    strokes as they         looks for the sink    at the end     |       |
    are made                                                     v       v
                                                      output service   recording
  pairing: one exchange over a code, either way            (virtual HID)     |
  watchdog over each run: probes down a pipe, beats up another, hands over --+
  launchd over the watchdog; a control file switches converting off and on
```

| Component | State it keeps | Operations | Interacts by | Hard because | Correct when |
|---|---|---|---|---|---|
| **Converter** `sink.rs` `Sink`, `modifiers.rs` | one held list over all keyboards, the armed repeat, pointer buttons, the last report | `handle` for every event, `release_everything` | events in; reports out, each the whole state of the device | a release is decided by a press made under another layer and other modifiers; holds are sent late; a repeat fires late; a keyboard goes in between | every key, modifier and button at the OS is accounted for by a finger, and a run leaves none |
| **Layout** `layout/`, `device.rs` | none | rules tried in order | read by the converter | a rule is right only against the rules before it | every label types what is printed on it |
| **Forwarding run and hook** `source.rs`, `host-windows/suppress.rs` | what is refused (one atomic), which keys this machine was let see, the chord, where the keyboard is, the session | `answer_a_key` on the hook's thread; `relay` on the run's | a stream of strokes; the atomic and its bits the other way | two threads, the run behind the hook: what is refused now and what is decided later are about different moments | the keyboard is never sent nowhere, always comes back, and no key stays down on either machine |
| **Link and its server** `source.rs` `Forwarding`, `link.rs`, `link-wire` | per device: announced, held, buttons; per session: devices seen | `note`, `relay`, `let_go`, `on_a_new_link`, `seal_and_send`; `serve` | sealed records in order over TCP, at most a prefix of which arrives | a link may stop at any record, and either end may find out first | both ends agree while nothing is lost, and nothing stays held at the sink when something is |
| **Sink run loop** `sink.rs` `run`, `capture.rs`, `host-macos/capture.rs` | output, seized keyboards, the list of what to give back, reconnection | bring up, take, convert, reconnect once, give back | asks to the capture thread and its answers; events on a stream | two threads close the same devices; asks about what has gone; every step may fail | what is taken is read and given back, and a stop is heeded |
| **Watchdog** and the job `watchdog.rs`, `supervision.rs`, `bin-watchdog`, `bin-macos` | the last beat, the next probe; two recordings; the control file; the programs on disk | `run`, `end`, starting a life, installing | probes and beats on pipes; the recording to whoever asks; launchd | late answers, hand-overs that block, lives that follow lives, programs swapped under them | a wedged run is ended in time and a working one only for a cause; off gives the keyboards back |
| **Trace ring** `trace.rs`, `region.rs` | a ring of records, cursors, checkpoints | push, evict a segment, hand over | copied by the watchdog at any moment, sent over the link | eviction under a reader, and a dead run's last write | what is left begins at a checkpoint and replays to the run's state |
| **Output service** `output.rs`, `vhid.rs` | readiness, the frame being read, the beat | reach, wait, read, answer, beat, post | frames on a socket with the service | a read cut short in the middle of a frame by the beat | readiness is the service's own, beats are in time, a loss is noticed |
| **Pairing** `pairing.rs`, `pairing-exchange` | an identity and a list of keys on each machine | `identity`, `pair`, `pair_with` | an exchange over a code; files | one end writes and the other fails; two first runs; a crash in a write | no key is trusted that the code did not vouch for, and machines that paired can link |
| **Discovery** `discovery` | none | ask, read answers | mDNS datagrams | names point back into the message; answers cut short | the sink is found by its own records and by no other's |
| **Windows capture** `capture.rs`, `host-windows/capture.rs` | hooks, device numbers, reports waiting for one | set up, turn the loop, number, deliver | messages; the run's stream | a report may come before its device or after it; a half that fails | nothing is reordered or left behind, and no half of the input is taken |
| **Pointer** `rawmouse.rs`, `pointer.rs` | buttons and fractions of a click | raw reports to states, values to reports | through link and output | rounding, and a report's end known only by the next | the OS is told what the hand did |
| **HID codecs**, **Wire** `hid`, `link-wire` | none | tables and byte layouts | two ends that share no memory | two copies of one layout | what is written is what is read |

The host crates, the menu and tray programs, argument parsing and the simulated host
are under [What is not modelled](#what-is-not-modelled). The hazards this code is
exposed to are listed in `PROJECT.json`, each at its line with the properties that
would catch it going wrong.

## The modules and the code

### `Converter.tla` (with `MCConverter`, `ConverterProofs`)

One action per event of `Sink::handle`, each the whole handler with every report it
writes. `held` is the held list's states and `order` its order; `os` is what the
last report said is down; `injected` is what the last handler injected, in order.
`DeviceAttached`, `DeviceDetached`, `KeyDownAgain`/`KeyDownEmits`/`KeyDownSilent`
(the three ways through `key_down`), `KeyUpUnheld`/`KeyUpHeld`, `Timer`
(`repeat_due`), `Pointer`, `Arrives` (an event that changes nothing) and
`ReleaseEverything`. `SendLazyHolds`, `ReleaseAtTheOs`, `ReleaseHeld` and
`Rendered` are the helpers of those names.

The layout is a constant function of the device, the key, the modifiers rules match
and the henkan layer: everything holds for any table. Time is left out: the tap
window closes by an action (`TapWindowCloses`), and the repeat's wake-up may come
whenever one is armed. Which report has a slot for which key is a constant too.

### `Layout.tla`, `KeyCodes.tla` (through `MCConverter`)

`Rules` is `dudrack.rs`'s table in its order, `Resolve` what the first rule that
`Matches` says, and `InScope` how a keyboard is told by what it says of itself.
`TypesItsLabels` asks, of a keyboard the layout leaves in JIS and every set of
modifiers, that what goes out types under a US input source what the keycap says, and
of a Dudrack keyboard (`DudrackIsWhole`) that every character is in its reach, no rule
is dead and two accidents are out of reach of all. `KeyCodes` has the tables
between names, HID usages and make codes, what a hook's flags make of a code, and
the number and bit the hook's procedure keeps of a position.

### `Source.tla` (with `SourceProofs`)

The hook (`Press`, `Release`: `answer_a_key` under `Refuses`, and the bits beside
it) and the run (`TakeHere`, `WaitHere`, `LinkComes`, `StopLooking`, `TakeThere`,
`TakeAgain`, `ComeBack`, `Returned`, `WaitThere`: the branches of `relay`'s loop)
with the stream between them. `machine` is what this machine believes is down and
is changed only by strokes it was let see and by `show_here`. `held` is what the
sink was told; `option` is `Chording`'s list. `Returning` is the moment between
`show_here` and `refuse(TheSwitch)`, during which the hook still answers.

One option key stands for all of them; the mask tap is taken to leave what the
machine believes alone; no key is down at the start; `InputGone` and `AskedToStop`
are one event; the bound of a run is read on empty waits and while looking, as in
the code.

### `Link.tla` (with `MCLink`, `LinkProofs`), `Frames.tla`, `Reports.tla`

Both ends of a link and the connection between them. This end: `attached`,
`announced`, `held` and `dragging` are `Forwarding`'s devices; `Attach`, `Detach`,
`KeyGoesDown`, `KeyComesUp` and `Points` are `note` or `relay`, by whose the
keyboard is; what `relay` answers is put in `out`, and each message of it is a
`Send` of its own, so that the other end and the network move in between.
`LetGoOfAKey` and `LetGoOfAButton` are `let_go`'s messages, sent whether or not the
one before went; `WaitHere` is the empty wait that sends `StillHere`; `LinkComes`
is a handshake and `on_a_new_link`. The connection: `wire` holds what is on its
way, `cut` that nothing more arrives, `gap` that a record was sealed and never
sent, after which none opens. The other end: `Take` is a turn of `serve`'s reading
loop, `SessionEnds` the end of it whichever way, `DeviceLost` each release after;
`mirrored` and `sinkHeld` are what the converter keeps of those devices.

A record delivered is converted as it is delivered, since the stream keeps its
order and no other device has one of these names. A pointer has one button.
Devices are let go of in any order; within one, keys are last pressed first.
The chord and what is refused are Source's. Thirty seconds of silence are `Idle`
reads or waits in a row that sent nothing: any number of events may fall within
thirty seconds, so the model lets the silence come after fewer of them than a clock
would, and every property is checked and proved with the silence possible whenever
that many have passed. Keyboards are unplugged here as the engine's own contract and
its tests allow; the Windows host numbers one keyboard and never loses it, while its
mice do come and go.

A message is handed over as it is: `Frames` says that this is sound, both ends of
every message (`link-wire`) and every record of a recording (`trace.rs`) byte by
byte, with kinds that share bytes told apart, and the reasons that travel as numbers
(how a session was served, lost or refused), which one end writes from its names and
the other reads into its own. `Reports` is the same for the output
device: its reports with their slots, the requests around them and the frames around
those. `SaidIsRead` is both.

### `Keyboards.tla`, `SinkRun.tla` (with `MCSinkRun`, `SinkRunProofs`)

`Keyboards` is the capture thread: `TurnTheLoop` and the drains the loop of
`capture.rs`; `Seize`, `StartReading` and `GiveItBack` the answers of
`host-macos/capture.rs` with the lists behind them. `SinkRun` is the run beside it,
`rpc` where it is: `Switch`, `BringUpTheOutput`, `Listen`, `LookForDevices`, then
one action per way an event goes through `convert`, `Ended` and `CarriesOn` the look
around, `Reconnect` the one attempt at a lost output, `ReleaseEverything` and
`Close` the end. The two threads meet in the stream, in asks and answers, and over the
list of devices held: each looks up a `Place` on it under one lock and takes off what is
there under another (`ForgetIt` and `TakesItOff`, `GiveItBack` and `TakingOff`), and a
place behind the end is a panic that leaves the lock poisoned (`ThreadPanics`, `Panics`). A device is a
registry entry with one key and a queue of one value; what a key comes to is
Converter's, how an output comes up is Output's.

### `Recording.tla`, `Trace.tla` (with `TraceProofs`)

`Recording` is what ADR-0009 promises: a log with its newest end, a count of what is
missing, and one cursor. `Trace` is the ring: `Push` with `EvictOne` by segments,
`WriteHeader` a step of its own behind the slot's bytes (the watchdog copies in between),
`HandOverARecord` the cursor, `HandleTraced` and `CheckpointIsDue` the order in which
events, what became of them and checkpoints go in. `IsARecording` is the refinement:
`Promised` maps ring and header to the log, every step to a step of it or a stutter.

### `Output.tla`

The loop's end (`ReachTheOutput`, `ReadSome`, `AnswerIt`, `ReadNothing`, `ReadGone`,
`PostAReport`, `Turn`) and the service at the other, whose frames come in pieces and may stop
in one. Seconds pass only while a read waits. `status` is what this end holds of the
devices, `devicesUp` what the service has. The proofs are in `SinkRunProofs`, with the
run's own: both are loops of one program, which share no name.

### `Pairing.tla` (with `MCPairing`, `PairingProofs`), `Naming.tla`

Four processes on two machines, each at one host call of its own at a time, any of
which may fail or be the last before the process dies: `OpenIdentity`/`WriteIdentity`
(a crash between leaves `Halfway`), `ShowTheCode`, `Accept`, the offers and keys each
way, `Authorize`, `PinTheSink`. `AnotherMachine` connects without the code. A
secret is two halves and the code both used; what was sealed under another opens as
nothing. `Naming` is the search: the question, names read with their pointers back,
records matched, under the deadline.

### `Serving.tla` (under `MCPairing`)

What two paired machines do with what `Pairing` left in their files. The source:
`LookAgain` and `PauseOver` are the top of `relay`'s outer loop, `FindsIt` to
`HandshakeFails` its one attempt, each call with what it may answer, `FindsItGone` a
send that fails. The sink: `TakesOne` and `CannotTakeOne` are the accept of `serve` and
its count of failures, `Answers` and `HandshakeIncomplete` the handshake, `SourceIsGone`
every end of a session. `ComeUp` starts both runs on the files; `NetworkGoes` leaves the
source's connections standing at the sink with nobody at their other end, and `Scanned`
is somebody else's that closes at once.

Time is discrete, its unit the 2 s of `LOOK`, `HANDSHAKE_WAIT`, `RETRY` and `SEND_WAIT`
alike: `IDLE` is 15 of them and `FAILURES` 16. What is due is done before time passes. A
close is heard at once while the network is there and never after it has gone; a
connection whose end has closed may fail to be accepted or configured, which platforms
differ in, so it is a choice. What is said over a link that is up is `Link`'s; here the
sink's silence is either ended by it or not.

### `Watchdog.tla`, `Processes.tla` (with `MCProcesses`, `ProcessesProofs`)

`watchdog::run` and `end` over discrete time: `Probed` and `Turn` the top of the
loop, `HandingOver` the writes of the recording, `Wakes` the wait for a beat or for
`WaitLeft`, `Dozes` the supervisor not being scheduled while it waits, up to `Stall`
past the wait's end, `EndIt` the grace. Every clock reading is relative. The run under
supervision may take up what is waiting and beat within `BeatWithin`, wedge, or go.
It takes up all waiting probes at once, so that they are counted only to `Pipe`; beats
unread beyond `Arrivals` merge (each only says "later"); a probe can always be sent. A
machine that sleeps stops this clock on macOS and both processes with it. `Processes` extends it with what is around it: `Starts` a life with
the recordings put in order (`PutAside`), `LooksAtTheFile`, `StopsWaiting`,
`Converts`, `GivesThemBack` the run's main, `Switches` whoever writes the file,
`BeginsInstalling` to `Bootstraps` and `CutShort` the installer, `Reboots`.
`MCProcesses` remembers how much of a silence passed while the supervisor was handing a
recording over or asleep (`heldUp`), which is what `EndedForCause` is about.

### `WindowsCapture.tla` (with `MCWindowsCapture`, `WindowsCaptureProofs`), `Pointing.tla`

The setting up, each step of which may fail and unwinds what went before
(`MakeAWindow` to `StartReading`), and the loop: `TurnTheLoop` the wait and the
message it brings, `NoteTheDevice` the numbering, `TakeProbes`, `RelayDevices`,
`DrainArrivals`, `LetGoOfTheTurn`. The machine moves only while the loop waits, since
what happens in between is in a queue by then. `Pointing` is what is in a report:
raw mouse transitions and wheel fractions to states, states to IOKit values and
back, and the resolution and acceleration the output device is given. What is made
of a sequence is a recursive function along it (`Relaying`, `Assembling`,
`Injecting`), which the proofs count up; `MCWindowsCapture` has both modules.

## The runs

| Run | Instance | What it shows |
|---|---|---|
| `converter_one` | one keyboard, five keys, two of them tap-holds, three fingers | modifiers are accounted for, a release matches its press, taps were alone, holds reach the OS in front of what is typed or clicked under them |
| `converter_two` | a converted and an unconverted keyboard, two fingers, one slot; the layout itself, judged once | nothing stays down when a keyboard goes, when a report is full, or when the run ends; the latest goes first; labels are typed and the layers are whole |
| `source` | the chord's keys and a letter, two events of backlog | the keyboard is never sent nowhere, others' releases reach both machines, an ask for the keyboard is answered |
| `link` | one keyboard with one key, one mouse, two records on the way; every frame, judged once | the two ends agree while nothing is lost, no key outlives its session or its finger |
| `sink_run` | one keyboard that comes, goes and is typed on, one that stays; each request; one cause to end at a time | what is taken is read and given back, nothing is typed twice, a stop is heeded |
| `trace` | a region of eight records written twice over | what is left begins at a checkpoint and replays to the state the run is in, a copy at any moment misses the newest record at most, and the ring is the abstract recording |
| `output` | seconds; two things said by the service besides its beats | readiness is the service's, beats are in time, a loss is noticed |
| `pairing` | two codes, one death or failure, a converting run beside; every answer, judged once | keys are vouched for, machines that paired can link, an attempt ends, the sink is found, and a link comes up after an outage |
| `processes` | the supervisor's numbers in half seconds, two whole writes of a recording, a fault or a doze, any number of lives | ended in time, ended for a cause, one install's programs, recordings under the right name, off and on |
| `windows_capture` | two strokes, a mouse in and out, an ask, two probes; every report, judged once | both hooks or neither, all of it handed on in order, probes answered; the pointer follows the hand |
| `chord_letter`, `slow_reader` | as `source`; as `processes`, with one write of a recording and no fault | a sentence of the repository the code does not keep; see below |

**Bounds.** *Converter:* three fingers are a hold, a key under it and one more that
changes the modifiers between; one slot makes every second key one the report drops;
two keyboards are one torn out and one that stays. Fingers are bounded by a
constraint, the only one in the project; the theorems have none. *Source:* a backlog
of two is a stroke answered under the old state in front of the event that changes
it; the option, the two chord letters and one other key are all the classes `Refuses`
and the chord tell apart. *Link:* a second key would add nothing to what is decided
per key and per device, a mouse and a keyboard are the two kinds of device; two
records on the way are an announcement and the key behind it, so a cut can fall
between them; `Idle` is 2 so that a wait may pass without ending the session.
*SinkRun:* two keyboards put two on the list that is given back, so that one that
will not close has one behind it; `EventsPerLook` 1 lets an event go by without a
look; the causes to end are tried one at a time, each against everything the
keyboards and the output may do. *Trace:* eight records in segments of two hold more
than a checkpoint and its events, 17 written wrap the ring twice and evict a
checkpoint with a cursor inside it. *Output:* a beat every 3 against a read of 1 and
a wait of 5, in the proportions of the code's seconds where a frame can stop at any
piece. *Pairing:* a second code is one tried after the first was spent; one failure at
any call is enough for either end to be half way when the other goes on. *Serving:* the
code's own numbers in their unit. One outage leaves one dead session, during which the
source leaves at most eight attempts at the listener (2 s waiting for the handshake, 2 s of
pause, over 30 s), so the sixteen that would end the serving are not reached; with two
outages it is fifteen, and a second one with a scan beside it, or one with nine scans, does
reach them: then serving ends, which the code's documents expect (`Ending::LinkGone`, and
`link_lifetime.rs:141`). *Processes:*
no number is scaled but the unit: 8 halves are the silence, 4 the beat and 4 a write of
the recording, and a probe interval and a grace under one half are one. The code bounds
each write and not their number: `HandOver` is any length up to two whole ones, which
is the silence itself and so as bad as a longer one; in `slow_reader` it is up to one.
A doze is up to 4 late, and one of the faults. A fault is one crash, wedge, kill,
reboot or doze, beside the lives that end by the file, the installer or the supervisor,
of which there are any number. *WindowsCapture:* a queue of two has a message arrive behind one not yet
taken; a handle is never used again, so one in and out is what a report can be late
for. Properties without a variable (`TypesItsLabels`, `SaidIsRead`,
`FoundByName`, `PointerFollows`) quantify over the whole table, or over small inputs
that take each branch, and are judged
at the initial state, which is the only thing `Init` does in them.

**Deadlock** is not checked: a run that ends stops for good, a bound of the model
stops what it counts, and elsewhere everything that could happen next may wait for a
person or for the network.

**Fairness.** *Source:* weak fairness of the run's steps together: its loop turns and
each of its waits has a bound. None of a finger or of `LinkComes`: nothing promises
either. *Link:* weak fairness of the run and of `serve`, two threads that are
scheduled; a send there either goes or fails within `SEND_WAIT`, and a read ends
within `IDLE`. None of the network. *SinkRun:* of the capture thread and of the run,
none of the machine around them; a run told to hang is asked nothing. *Output:* of the
loop and of the clock; of the service only that it closes a connection it has heard
nothing on and that it beats, which it is known by. *Pairing:* of each end's steps, whose calls have
bounds; of nobody connecting to a code or running any of it again. *Serving:* of the
source's attempts, the sink's accepts and time together, since time waits for what is due;
of no network coming back and nobody asking. *Processes:* launchd
starts the supervisor again (`KeepAlive`), the supervisor, the run's own steps and
the clock go on; none of whoever switches, installs or asks, and none of a wedge.
*WindowsCapture:* of the loop, and of the timer Windows makes when the queue is empty. The converter has no liveness: it answers an
event and returns.

**Refinement.** `Trace` implements `Recording` (`IsARecording`, a property of the
run). `Processes` takes `Watchdog`'s actions whole and adds to them, so that the
watchdog's properties are checked over every life and not over one.

Each property of a passing run has a mutant in `PROJECT.json`, a definition of the
model changed as a plausible slip of the code would change it, which breaks it.
Operators marked `mutant` in the modules are those forms; no action uses them.

## What is proved

For every value of the constants that meets the modules' named assumptions.

- **Converter.** `TypeCorrect`, `NothingGoesOn` (no key is down or repeats at the OS
  that no finger holds), `NoStrayModifier`, `RunEndsClean`. The inductive invariant
  `IndInv` is the type, that what the report says is explained by the held list, that
  the armed repeat is on it, and that the report's buttons are the ones last relayed.
  The argument is by injections: each one keeps an account the report is explained by
  (`Accounts`), so a handler is a chain of lemmas about `SendLazyHolds`,
  `ReleaseAtTheOs` and `ReleaseHeld`, whatever the layout answers.
  The four action properties, `KeysGoUpAsTaken`, `TapsWereAlone`, `HoldsAreSaidFirst`
  and `LatestLeavesFirst`, are about what a step injects. `Goes` lists the ways a step
  goes (nothing touched, holds sent, a press, a release, a batch let go of) with what is
  injected in each; `HistoryInv` adds to `IndInv` that the order names each finger that
  is down, once (`OrderInv`), and that what a press is remembered by is what its entry
  says (`TakenInv`, `CompanyInv`). `Among` and the batch of `ReleaseLog` are recursive
  over a list: `AmongThem` and `FlattenedThem` say what is in them and in which order,
  by counting up inside a set (`UpTo`), which needs no induction rule over formulas.
- **Source.** `TypeCorrect`, `SuppressionIsCarried`, `NoOtherKeyStuckHere`,
  `BitsAreTrue`: inductive together (`LocalInv`). `SinkIsLetGo` is not: a key is told
  to the sink long after its finger moved, so `SinkInv` is about the stream: every
  press in it, every option the chord holds and every key the sink was told of has a
  finger on it or a release behind it.
- **Link.** `TypeCorrect`; `NoKeyOutlivesASession` by `SinkInv`: the sink holds keys
  only of devices the session has mentioned or that are still being let go of, and
  one session is read at a time. `Agreement` needs all that is still to be read, which
  is `out` behind `wire`: the last word in it about a key, or what the sink has where
  there is none, is what the source holds (`Agreed`), and every press in it comes
  behind an announcement no detachment follows (`Known`), for else the sink would
  ignore it. With them a held list names a key once, and only of announced devices
  (`Tidy`).
- **Watchdog.** `TypeCorrect`; `QuietIsEnded`, the bound on a silence as the sum of
  what it can fall in: the silence allowed, a probe interval, a hand-over, a doze and
  the grace (`QuietBounded`).
- **Processes.** The bound carried over to every life (`QuietIsEndedEveryLife`), and
  `WorkingRunIsEndedForCause`, with no assumption on how the numbers relate. The
  invariant `WorkInv` is about the part of a silence its supervisor was there for, what
  it was held up taken off: while beats are read it is no longer than a probe interval
  until the run is asked and its promise after (`AnswerOwed`), and a wait that ends, late
  or not, leaves the next probe due at once (`ClockKept`). Once the silence is reached
  the rest of it was held up, by as much as the numbers leave. To these invariants
  a step of the processes is one of its own, a life that starts, a life that ends, or a
  run that goes while it waits (`StepOfTheWatchdog`). `OneVersion`, by what an install
  has copied at each step and that nothing runs while it does (`WholeInstalls`).
  `FilesNameTheirRun`, by `NameInv`: which run each of the two files is of at each step
  of putting them in order.
- **Trace.** `TypeCorrect`, and the refinement `IsARecording` step by step: a push, an
  eviction of a whole segment, a header write and a hand-over are each a step of
  `Recording` or a stutter under `Promised`. `RingInv` places first, newest and cursor
  on the ring whatever its size. `CopyMissesTheNewest` needs `HeaderInv`: the header is
  the ring's as it is or as it was before exactly one record. `ReplayReproduces` holds in
  a region with room for one segment (`RoomForASegment`: the largest checkpoint, the
  records until the next is due and those that may come before it is taken; 1 MiB holds
  many). The condition is exact: at the bounds of the run it says six records, and with
  five TLC finds a region that begins at no checkpoint. `SegmentInv` counts what has come
  since the checkpoint begun last, so an eviction never reaches it, and `ReplayInv` says
  what the reader has read of each checkpoint still there (`Reaches`, which a push takes
  one record further and an eviction only shifts): the run's devices and held keys, but
  for what the checkpoint being pushed has still to say.
- **Pairing.** `PairingTypes`, `KeysAreVouchedFor`, `PairedMachinesLink`. The invariant
  follows a key from the identity to the other machine's file: `Codes` counts the
  attempts served under each code, `Turns` says what can be on the connection at each
  pair of places, `Vouching` that what opens under a secret was sealed by somebody who
  typed its code, and `Linked` ties the identity in use, the one on the disk and what
  the other end wrote together, so long as no two processes have made an identity at
  once and no list was read or written by halves (`excused`). All of the eleven ways on
  are reduced to one form (`LinkedByStep`) or to leaving (`LinkedByLeaving`).
- **SinkRun.** `KeyboardsAreKept`, `TypedOnce` and `NothingIsLeftHeld`, for any number of
  keyboards and of values. That what is taken stays on the list needs that each device is
  on it once and that everything taken is on it (`ListInv`), that a finding is handled once
  and its device was not on the list before (`FindingInv`), and that a place looked up is, when it is
  used, that of a device already closed or gone, or behind the end (`LeavingInv`,
  `GivingInv`): the run gives back from the end, and by then nothing is added. `NeverTypedTwice` needs
  that what is asked and answered is about the finding in hand (`AskInv`), that only what
  this run reads is typed (`TypedInv`), and that no value waits behind the loss of its
  keyboard (`ValuesInv`). `EndInv` says of a run that is over what `NothingStranded` adds.
- **Output.** `StatusIsAsTheServiceHadIt`: every piece still to be read, with the frame half
  read before it and what the service holds back behind it, follows from the piece in
  front (`Framed`), a frame beginning says what the last one left changed (`Follows`), and
  the last says what the service has now (`StreamInv`). `TheServiceHearsInTime`, with
  every interval any number and only the shortest read no longer than the beat (20 ms
  against 3 s): a read under way is counted with all it may still take, the reads its
  frame has left included (`ReadsLeft`), which a service that never stops inside a frame
  does not use (`Quick`); `ClockInv` bounds the sum.
- **WindowsCapture.** `BothHooksOrNeither` by `HooksInv`. `HandedOn` follows a stroke
  through the queue, the message in hand, `arrived` and `stream`: each is in order and
  before the one behind it (`StrokesInv`), a number is given once and in the order
  devices were found (`NumbersInv`), what is put down names a device that has one by
  the time it is delivered (`ArrivedInv`), and on the stream a device is found before
  anything it said (`StreamInv`). For any number of mice, strokes and probes.
- **Pointing**, in the same module, for sequences of any length and numbers of any
  size. `TheHandIsCarried`: what a mouse's reports come to is followed through both
  machines, and one report more keeps it so (`CarriedOn`), whether it is news to the
  relaying machine or not; a wheel turns at most 127 clicks in a report, since further
  ones the code drops (`saturate`), and a report's data is sixteen bits.
  `EncodingIsDecoded`, for up to 273 clicks, which is what sixteen bits hold at 120
  units each. `ReportsAreAssembled`: after n values, what has been handed on is the reports that
  ended before the nth (`Made`) and what is kept is the one it belongs to (`Left`).
  `TheFeelIsAsAsked`, for a device scaled by the resolution it says or by none it says.
  `ThePointerFollows` is `PointerFollows` from the four.

**Only model-checked.** Liveness under fairness is out of the prover's reach:
`KeyboardComesBack`, `FingerComesOff`, `StopIsHeeded`, `GoneIsNoticed`,
`PairingEnds`, `LinkComesUp`, `OffGivesThemBack`, `ProbesAreAnswered`. Of the
properties without a variable, `TypesItsLabels`, `SaidIsRead` and `FoundByName` compute
over tables or search by recursive operators, which TLC does.

## Where the code and its documents disagree

Two are runs TLC refutes, and the third a part of a property that holds; `PROJECT.json`
quotes the sentences and their lines.

- `chord_letter`: a chord letter typed before the option has its release refused
  with the chord, and stays down here.
- `slow_reader`: one write of a recording may take two of the four seconds of silence
  allowed, and no probe is sent meanwhile; a run that takes its own two seconds after that
  is ended while it keeps its promise. `EndedForCause` says when: held up by 1.75 s, by a
  reader or by not being scheduled, a supervisor with these numbers has no room left.
- `OffGivesThemBack`, its last part: a run waiting to be switched on neither beats nor
  answers, so its supervisor takes it for wedged and launchd starts the pair again, as
  long as it is off.

The rest were met while modelling and have no run:

- A key let see here before the link was up is relayed as well (ADR-0013: the
  keyboard is in one place).
- The modifier shown on coming back outlives its finger when its release had already
  been answered (`source.rs` `show_here`); the chord's own modifier alone, which
  `OthersComeUpHere` therefore leaves out.
- A stop asked for while no sink answers is not read until one does.
- `gone_from` and `given_back` (`host-macos/capture.rs`) look up a place on the list of
  devices held under one lock and take it off under another. Where a keyboard is pulled
  out while the run gives back that one, or the last on the list, the second to remove may
  find its place behind the end: `remove` panics with the lock in hand, and the other
  thread panics on the poisoned lock. Keys are up by then (`OrderInv`), and the end of
  the process gives the rest back.
- A pointer unplugged mid-drag, or let go of over a dead link, leaves the sink holding
  its button; two pointers share the output's one set of buttons.
- Input without a pause while the keyboard is here keeps `StillHere` from being sent,
  and the sink ends a sound session.
- An option key held by a keyboard that is torn out stays in the chord's list: from
  then on the letters alone are the chord.
- A copy of the region taken while the writer is between record and header can hold the
  newest record in the oldest one's place (`host-macos/region.rs`); what a copy does
  say is `CopyMissesTheNewest`.
- The beat that keeps the service from closing after five seconds of silence starts
  with serving (`output.rs:377`): while the devices are waited for nothing is said to
  it, though the notes on it hold to the strict column (`virtual-hid-device.md`).
- After an exchange that stopped part way the source says that "the code is still good
  for another attempt" and the sink that it takes a fresh one (`bin-windows/source.rs`,
  `bin-macos/main.rs`): the sink is right. The shown line says "within a minute" of a
  wait for a connection that has no bound.
- `identity` prints the length in bytes of the list as the number of paired sources.
- The grace a run is given is 200 ms and its flag is looked at every 250 ms.
- A forwarded keyboard says no vendor (`host-windows/capture.rs`), so the layout's
  rules for a known external keyboard are never for it; a test in `device.rs` names
  one by the vendor and product in its path.
- A reading thread that ends is said to close the run's stream
  (`host-windows/lib.rs:298`); the host keeps an end of it itself, so the run is never
  told, and goes on with no input until its bound or its supervisor.
- A resolution asked for without an acceleration is accepted and never takes effect.
- `link.rs` says of its count of failures that "a connection that becomes a session sets
  it back" (171-180); it is set back by one that can be configured, in front of the
  handshake, and a handshake that fails or a key that is not paired is never counted.
- `replay` (`source.rs`) announces on every trip and leaves out the option a key was sent
  under; the run announces on a new link alone, and sends it.
- The search compares the end of a name as text, not label by label.
- `held_bit` says a make code past a byte has no bit; those from 256 to 511 have one,
  shared with the extended half.

## What is not modelled

- **Platform calls.** The host crates answer one call per operation; the models take
  every answer a call may give. Permissions, run loops and handles' lifetimes are theirs.
- **Cryptography.** A record opens in order or not at all; two halves of one exchange
  agree where the code was the same. Both are libraries' promises.
- **Drawing and arguments.** The menu and tray programs, argument parsing, log lines,
  packaging and the Windows task. What their writes do is in Processes and Source.
- **Host boundary and simulated host.** Traits, and a test harness; the harness was
  read for what a platform may answer.
- Of the link: a converter that has stopped. Of the forwarding run: the advice it prints,
  the dry run and `replay`. Of the watchdog: a
  probe that cannot be sent, Windows' job object, and keeping
  the trace on the way out.

Hazards met and kept off the list, since no property of these models would catch
them: a post to a full message queue whose answer is not looked at; a key already down
when the hooks go in; the mask tap while a physical control is held; letting go over a
link that takes no writes, each record waiting its own `SEND_WAIT` without a beat; two
keys on one output key, the first release of which lets go of it; a report the output
refuses, which the held list goes on from; a keyboard's queue that overflows; the supervisor's clock counting
through a sleep; a kept region that cannot be opened; a `bootout` that fails for other
reasons than there being no job; a run put in its Windows job after it has started.
Where `GetMessageW` fails the code still holds the message before it, and behind a turn
of the timer takes the probes once more as it ends; `WindowsCapture` holds none by then.

## Plan

1. A keyboard torn out in `Source`; a key down at the start there.
2. An abstract forwarded keyboard (a key down at the sink is a finger or a release on
   its way; the keyboard is in one place) implemented by Source, and by Link for the
   sink's half.
