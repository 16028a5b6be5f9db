--------------------------- MODULE WindowsCapture ---------------------------
(***************************************************************************)
(* The thread that reads the forwarding machine's input                    *)
(* (engine/src/capture.rs relay, host-windows/src/capture.rs): the window, *)
(* the timer and the hooks it puts up, the loop it turns, and the order    *)
(* over what a turn puts down, the numbers devices are given and what      *)
(* reaches the run's stream.                                               *)
(*                                                                         *)
(* The machine's side is external: two queues of messages and a timer that *)
(* only makes one where both are empty, mice that come and go under        *)
(* handles never used again, and hooks called from inside the wait for a   *)
(* message.  What happens between two waits is in a queue by the next, so  *)
(* the machine moves only while the loop waits.                            *)
(***************************************************************************)
EXTENDS Naturals, Sequences, FiniteSets, SequencesExt

CONSTANTS
  Mouse,     \* the mice there are to plug in
  Strokes,   \* a bound of the model: strokes the keyboard makes
  Reports,   \* a bound of the model: reports the mice make
  Handles,   \* a bound of the model: times a mouse is plugged in
  Asks,      \* a bound of the model: asks of the tray item
  Probes,    \* a bound of the model: probes the supervisor sends
  Room       \* the messages that can be posted and not yet taken

ASSUME CaptureAssumption ==
  /\ Strokes \in Nat /\ Reports \in Nat /\ Handles \in Nat /\ Asks \in Nat
  /\ Probes \in Nat /\ Room \in Nat

VARIABLES
  step,       \* where the thread is
  refusing,   \* whether the run asked to refuse anything
  window, ticking, hooks,
  timer,      \* whether the timer has a message to make
  pipe,       \* the probes in the pipe
  sent,       \* how many the supervisor has sent
  plugged,    \* the handle each mouse is under, none where it is not there
  handles, strokes, reports, asks,
  lost,       \* the strokes no room was left for
  posted, raw,
  message,    \* what the turn produced
  ended,      \* the queue has nothing more, or cannot be read
  pending,    \* the handles nothing has numbered
  devices,    \* the handles that have a number, and which
  named,      \* the handles the loop has been told of
  arrived,    \* what was put down and not yet delivered
  reading,    \* nothing delivered on this turn has found nobody there
  stream,     \* what reached the run, in order
  gone        \* the run is no longer there to read

thread == <<step, window, ticking, hooks, message, ended, pending, devices, named, arrived, reading>>
machine == <<plugged, handles, strokes, reports, asks, lost, sent>>
vars == <<thread, machine, refusing, timer, pipe, posted, raw, stream, gone>>

Keyboard == 0        \* the handle of the one keyboard a hook can name: null
Nobody == Handles + 1

Key(n) == [kind |-> "Key", at |-> Keyboard, nth |-> n]
Input(h, n) == [kind |-> "Input", at |-> h, nth |-> n]
Change(h, n) == [kind |-> "Removal", at |-> h, nth |-> n]
Arrival(h) == [kind |-> "Arrival", at |-> h, nth |-> 0]
Asked(n) == [kind |-> "Asked", at |-> Nobody, nth |-> n]
Probe == [kind |-> "Probe", at |-> Nobody, nth |-> 0]
Timer == [kind |-> "Timer", at |-> Nobody, nth |-> 0]
NoMessage == [kind |-> "None", at |-> Nobody, nth |-> 0]

(* What the run reads: a message's words under a number, or a device found. *)
Event(said, id) == [kind |-> said.kind, at |-> said.at, nth |-> said.nth, device |-> id]
Found(h, id) == [kind |-> "Found", at |-> h, nth |-> 0, device |-> id]
NoDevice == 0

Setup == {"Window", "Mice", "Tell", "Keyboard", "Pointer"}
Loop == {"Wait", "Take", "Answer", "Number", "Drain", "LetGo"}

Init ==
  /\ step = "Window"
  /\ refusing \in BOOLEAN
  /\ window = FALSE /\ ticking = FALSE /\ hooks = {}
  /\ timer = FALSE /\ pipe = 0 /\ sent = 0
  /\ plugged = [m \in Mouse |-> 0]
  /\ handles = 0 /\ strokes = 0 /\ reports = 0 /\ asks = 0 /\ lost = {}
  /\ posted = <<>> /\ raw = <<>> /\ message = NoMessage /\ ended = FALSE
  /\ pending = <<>> /\ devices = <<>> /\ named = <<>> /\ arrived = <<>>
  /\ reading = TRUE /\ stream = <<>> /\ gone = FALSE

-----------------------------------------------------------------------------
(* Setting up: the window, the mice, where the keys go and the timer, and  *)
(* the hooks last, where the run asked to refuse anything.  The thread is  *)
(* over at the first that does not go, and over it holds nothing.          *)
Over ==
  /\ step' = "Ended"
  /\ window' = FALSE /\ ticking' = FALSE /\ hooks' = {}

Goes(from, to) ==
  /\ step = from
  /\ step' = to
  /\ UNCHANGED <<machine, refusing, timer, pipe, posted, raw, message, ended, pending,
                 devices, named, arrived, reading, stream, gone>>

WillNotGo ==
  /\ step \in {"Window", "Mice", "Keyboard", "Pointer"}
  /\ Over
  /\ UNCHANGED <<machine, refusing, timer, pipe, posted, raw, message, ended, pending,
                 devices, named, arrived, reading, stream, gone>>

MakeAWindow == Goes("Window", "Mice") /\ window' = TRUE /\ UNCHANGED <<ticking, hooks>>
AskForTheMice == Goes("Mice", "Tell") /\ UNCHANGED <<window, ticking, hooks>>
StartTheTimer ==
  /\ Goes("Tell", IF refusing THEN "Keyboard" ELSE "Wait")
  /\ ticking' = TRUE
  /\ UNCHANGED <<window, hooks>>
HookTheKeyboard ==
  Goes("Keyboard", "Pointer") /\ hooks' = {"Keyboard"} /\ UNCHANGED <<window, ticking>>
OneHookWillDo ==   \* mutant: the pointer's is gone without
  Goes("Pointer", "Wait") /\ UNCHANGED <<window, ticking, hooks>>
HookThePointer ==
  Goes("Pointer", "Wait") /\ hooks' = hooks \cup {"Pointer"} /\ UNCHANGED <<window, ticking>>

StartReading ==
  \/ MakeAWindow \/ AskForTheMice \/ StartTheTimer \/ HookTheKeyboard \/ HookThePointer

-----------------------------------------------------------------------------
(* The machine, while the loop waits.                                      *)
Machine == UNCHANGED <<thread, refusing, pipe, stream, gone>>
Post(m) ==
  /\ posted' = IF Len(posted) < Room THEN Append(posted, m) ELSE posted
  /\ UNCHANGED <<raw, timer>>

(* A stroke, posted by the hook from inside the wait; nothing is done about *)
(* one the queue has no room for.                                          *)
Stroke ==
  /\ step = "Wait" /\ "Keyboard" \in hooks /\ strokes < Strokes
  /\ strokes' = strokes + 1
  /\ lost' = IF Len(posted) < Room THEN lost ELSE lost \cup {strokes + 1}
  /\ Post(Key(strokes + 1))
  /\ UNCHANGED <<plugged, handles, reports, asks, sent>> /\ Machine

PlugIn(m) ==
  /\ step = "Wait" /\ plugged[m] = 0 /\ handles < Handles
  /\ handles' = handles + 1
  /\ plugged' = [plugged EXCEPT ![m] = handles + 1]
  /\ Post(Arrival(handles + 1))
  /\ UNCHANGED <<strokes, reports, asks, lost, sent>> /\ Machine

Unplug(m) ==
  /\ step = "Wait" /\ plugged[m] # 0
  /\ plugged' = [plugged EXCEPT ![m] = 0]
  /\ Post(Change(plugged[m], 0))
  /\ UNCHANGED <<handles, strokes, reports, asks, lost, sent>> /\ Machine

Moves(m) ==
  /\ step = "Wait" /\ plugged[m] # 0 /\ reports < Reports
  /\ reports' = reports + 1
  /\ raw' = Append(raw, Input(plugged[m], reports + 1))
  /\ UNCHANGED <<posted, timer, plugged, handles, strokes, asks, lost, sent>> /\ Machine

AskAtTheTray ==
  /\ step = "Wait" /\ asks < Asks
  /\ asks' = asks + 1
  /\ Post(Asked(asks + 1))
  /\ UNCHANGED <<plugged, handles, strokes, reports, lost, sent>> /\ Machine

SendAProbe ==
  /\ step = "Wait" /\ sent < Probes
  /\ sent' = sent + 1 /\ pipe' = pipe + 1
  /\ UNCHANGED <<thread, plugged, handles, strokes, reports, asks, lost, refusing, timer,
                 posted, raw, stream, gone>>

TicksOnce == sent < 2   \* mutant: a timer that ticks while the first is out
Ticks == TRUE
Tick ==
  /\ step = "Wait" /\ ticking /\ ~timer /\ pipe > 0 /\ Ticks
  /\ timer' = TRUE
  /\ UNCHANGED <<thread, machine, refusing, pipe, posted, raw, stream, gone>>

RunGoes ==
  /\ ~gone
  /\ gone' = TRUE
  /\ UNCHANGED <<thread, machine, refusing, timer, pipe, posted, raw, stream>>

-----------------------------------------------------------------------------
(* One turn: a message off a queue, or the queue that has no more.         *)
TurnTheLoop ==
  /\ step = "Wait"
  /\ \/ /\ posted # <<>>
        /\ message' = Head(posted) /\ posted' = Tail(posted) /\ UNCHANGED <<raw, timer>>
     \/ /\ raw # <<>>
        /\ message' = Head(raw) /\ raw' = Tail(raw) /\ UNCHANGED <<posted, timer>>
     \/ /\ posted = <<>> /\ raw = <<>> /\ timer
        /\ message' = Timer /\ timer' = FALSE /\ UNCHANGED <<posted, raw>>
  /\ step' = "Take" /\ reading' = TRUE
  /\ UNCHANGED <<window, ticking, hooks, ended, pending, devices, named, arrived, machine,
                 refusing, pipe, stream, gone>>

NothingMoreToTurn ==
  /\ step = "Wait"
  /\ ended' = TRUE /\ step' = "Answer" /\ reading' = TRUE
  /\ UNCHANGED <<window, ticking, hooks, message, pending, devices, named, arrived, machine,
                 refusing, timer, pipe, posted, raw, stream, gone>>

(* What the message said.  Raw input that cannot be read, or is not a      *)
(* pointer's, says nothing; nor does a device arriving.                    *)
NotFromAHook(m) == m.kind \in {"Input", "Removal", "Asked"}   \* mutant: what a hook posted is let by
Says(m) == m.kind \in {"Key", "Input", "Removal", "Asked"}
CameFrom(m) == m.at
FromADevice(m) == m.at # Nobody
Numbered(h) == \E d \in ToSet(devices) : d.at = h
NumberOf(h) == (CHOOSE d \in ToSet(devices) : d.at = h).id

NotesTheMice(m) ==   \* mutant: a handle to nothing is no device
  IF FromADevice(m) /\ m.at # Keyboard /\ ~Numbered(m.at) /\ ~Contains(pending, m.at)
  THEN Append(pending, m.at) ELSE pending
NoteTheDevice(m) ==
  IF FromADevice(m) /\ ~Numbered(CameFrom(m)) /\ ~Contains(pending, CameFrom(m))
  THEN Append(pending, CameFrom(m)) ELSE pending

TakeWhatTheTurnProduced ==
  /\ step = "Take"
  /\ \/ /\ Says(message)
        /\ arrived' = Append(arrived, message)
        /\ pending' = NoteTheDevice(message)
     \/ /\ Says(message) => message.kind = "Input"
        /\ UNCHANGED <<arrived, pending>>
  /\ step' = "Answer"
  /\ UNCHANGED <<window, ticking, hooks, message, ended, devices, named, reading, machine,
                 refusing, timer, pipe, posted, raw, stream, gone>>

(* Put on the run's stream, and whether anybody is reading it.             *)
Delivered(events) == stream' = IF gone THEN stream ELSE stream \o events
StillReading(events) == reading /\ (gone => events = <<>>)
HeardOrNot(events) == reading   \* mutant: what the stream answered is not looked at
Reading(events) == StillReading(events)

(* One event for each probe in the pipe, on the timer's turn alone.        *)
OneForAll == IF pipe > 0 THEN <<Event(Probe, NoDevice)>> ELSE <<>>   \* mutant
TakeProbes == [i \in 1..pipe |-> Event(Probe, NoDevice)]

AnswerProbes ==
  /\ step = "Answer"
  /\ IF message = Timer
     THEN Delivered(TakeProbes) /\ reading' = Reading(TakeProbes) /\ pipe' = 0
     ELSE UNCHANGED <<stream, reading, pipe>>
  /\ step' = "Number"
  /\ UNCHANGED <<window, ticking, hooks, message, ended, pending, devices, named, arrived,
                 machine, refusing, timer, posted, raw, gone>>

(* The devices a message named, each under the next number nothing holds,  *)
(* and one the loop has been told of already passed over.                  *)
OffersTheSame == 1   \* mutant: the number it starts at
Offer == Len(named) + 1
NextDevice ==
  /\ pending # <<>>
  /\ devices' = Append(devices, [at |-> Head(pending), id |-> Offer])
  /\ pending' = Tail(pending)
  /\ IF Contains(named, Head(pending)) THEN UNCHANGED <<named, stream, reading>>
     ELSE /\ named' = Append(named, Head(pending))
          /\ Delivered(<<Found(Head(pending), Offer)>>)
          /\ reading' = Reading(<<Found(Head(pending), Offer)>>)
  /\ UNCHANGED step

RelayDevices ==
  /\ step = "Number"
  /\ \/ NextDevice
     \/ pending = <<>> /\ step' = "Drain" /\ UNCHANGED <<devices, pending, named, stream, reading>>
  /\ UNCHANGED <<window, ticking, hooks, message, ended, arrived, machine, refusing, timer,
                 pipe, posted, raw, gone>>

(* What was put down, in order, up to the first from a device with no      *)
(* number.                                                                 *)
Nameable(m) == FromADevice(m) => Numbered(m.at)
AsAnEvent(m) == Event(m, IF FromADevice(m) /\ Numbered(m.at) THEN NumberOf(m.at) ELSE NoDevice)

DrainArrivals ==
  /\ step = "Drain"
  /\ IF arrived # <<>> /\ Nameable(Head(arrived))
     THEN /\ arrived' = Tail(arrived)
          /\ Delivered(<<AsAnEvent(Head(arrived))>>)
          /\ reading' = Reading(<<AsAnEvent(Head(arrived))>>)
          /\ UNCHANGED step
     ELSE step' = "LetGo" /\ UNCHANGED <<arrived, stream, reading>>
  /\ UNCHANGED <<window, ticking, hooks, message, ended, pending, devices, named, machine,
                 refusing, timer, pipe, posted, raw, gone>>

LetGoOfTheTurn ==
  /\ step = "LetGo"
  /\ IF reading /\ ~ended THEN step' = "Wait" /\ UNCHANGED <<window, ticking, hooks>> ELSE Over
  /\ message' = IF ended THEN message ELSE NoMessage
  /\ UNCHANGED <<ended, pending, devices, named, arrived, reading, machine, refusing, timer,
                 pipe, posted, raw, stream, gone>>

Turn ==
  \/ TurnTheLoop \/ TakeWhatTheTurnProduced \/ AnswerProbes \/ RelayDevices
  \/ DrainArrivals \/ LetGoOfTheTurn

Next ==
  \/ StartReading \/ WillNotGo \/ Turn \/ NothingMoreToTurn
  \/ Stroke \/ AskAtTheTray \/ SendAProbe \/ Tick \/ RunGoes
  \/ \E m \in Mouse : PlugIn(m) \/ Unplug(m) \/ Moves(m)

Spec == Init /\ [][Next]_vars /\ WF_vars(Turn) /\ WF_vars(Tick)

-----------------------------------------------------------------------------
TypeOK ==
  /\ step \in Setup \cup Loop \cup {"Ended"}
  /\ hooks \subseteq {"Keyboard", "Pointer"}
  /\ \A h \in ToSet(pending) : h \in 0..Handles
  /\ \A d \in ToSet(devices) : d.at \in 0..Handles /\ d.id \in 1..Len(devices)
  /\ \A e \in ToSet(stream) : e.device \in 0..Len(named)

(* The keyboard is never taken by halves: the loop turns with both hooks   *)
(* on or neither, and none is left on where nothing turns the loop any     *)
(* more, whatever stopped it.                                              *)
BothHooksOrNeither ==
  /\ step \in Loop => hooks = IF refusing THEN {"Keyboard", "Pointer"} ELSE {}
  /\ step = "Ended" => hooks = {}

(* No stroke the queue took is lost, doubled or overtaken by a later one   *)
(* between the hook and the run, while both are there.                     *)
IsKey(e) == e.kind = "Key"
OnTheWay == stream \o arrived \o (IF step = "Take" THEN <<message>> ELSE <<>>) \o posted
KeysInOrder ==
  ~gone /\ step # "Ended" =>
    LET way == OnTheWay
        keys == {i \in DOMAIN way : IsKey(way[i])}
    IN /\ {way[i].nth : i \in keys} = (1..strokes) \ lost
       /\ \A i, j \in keys : i < j => way[i].nth < way[j].nth

(* What came from a device reaches the run after the device it came from,  *)
(* under the number that device was found under and no other's.            *)
NamedFirst ==
  \A i \in DOMAIN stream : stream[i].at # Nobody =>
    /\ \E j \in 1..i : stream[j] = Found(stream[i].at, stream[i].device)
    /\ \A j \in DOMAIN stream :
         stream[j].at = stream[i].at <=> stream[j].device = stream[i].device

ProbesIn(events) == {i \in DOMAIN events : events[i].kind = "Probe"}
AnswersOwed == ~gone => Cardinality(ProbesIn(stream)) + pipe = sent

(* The run is handed what happened and all of it: the strokes, the devices *)
(* and as many answers for the supervisor as it asked for, with nothing a  *)
(* turn put down left over for a later one to carry.                       *)
HandedOn ==
  /\ TypeOK /\ KeysInOrder /\ NamedFirst /\ AnswersOwed
  /\ step = "Wait" => arrived = <<>> /\ pending = <<>>

(* A probe is answered, however the messages before it came, as long as    *)
(* they are bounded; and a thread whose run has gone finds out by one.     *)
ProbesAreAnswered ==
  /\ pipe > 0 /\ step \in Loop ~> pipe = 0 \/ step = "Ended"
  /\ gone /\ pipe > 0 /\ step \in Loop ~> step = "Ended"
=============================================================================
