------------------------ MODULE WindowsCaptureProofs ------------------------
(***************************************************************************)
(* Proofs about the reading thread of the forwarding machine, for any      *)
(* number of mice, strokes, reports and probes and any room in the queue:  *)
(* the hooks go on and come off together, and what happened reaches the    *)
(* run, all of it and in order.                                            *)
(*                                                                         *)
(* What is handed on is four sequences, stream, arrived, the message in    *)
(* hand and posted, that a stroke passes through from the last to the      *)
(* first.  The strokes of each are in order and before those of the next   *)
(* (StrokesInv); what has a number is what the loop was told of, one       *)
(* number each (NumbersInv), and what is put down names nothing else by    *)
(* the time it is delivered (ArrivedInv); and everything on the stream     *)
(* that a device said is under a number found before it (StreamInv).       *)
(*                                                                         *)
(* And about what is in the reports of a mouse (Pointing), for any number  *)
(* of them: what has come of the ones there were (CarriedOn; Made and Left *)
(* for values told one by one) stays true of one more, by counting up.     *)
(***************************************************************************)
EXTENDS MCWindowsCapture, FiniteSetTheorems, WellFoundedInduction, TLAPS

USE CaptureAssumption

-----------------------------------------------------------------------------
(* The hooks.                                                              *)

HooksInv ==
  /\ step \in Setup \cup Loop \cup {"Ended"}
  /\ hooks = CASE step \in Loop -> IF refusing THEN {"Keyboard", "Pointer"} ELSE {}
               [] step = "Pointer" -> {"Keyboard"}
               [] OTHER -> {}
  /\ step \in {"Keyboard", "Pointer"} => refusing

LEMMA HooksAtFirst == Init => HooksInv
  BY DEF Init, HooksInv, Setup, Loop

LEMMA HooksStep == HooksInv /\ [Next]_vars => HooksInv'
<1> SUFFICES ASSUME HooksInv, [Next]_vars PROVE HooksInv'
  OBVIOUS
<1> USE DEF HooksInv, Setup, Loop
<1>1. CASE StartReading
  BY <1>1 DEF StartReading, MakeAWindow, AskForTheMice, StartTheTimer, HookTheKeyboard,
              HookThePointer, Goes
<1>2. CASE WillNotGo
  BY <1>2 DEF WillNotGo, Over
<1>3. CASE TurnTheLoop \/ TakeWhatTheTurnProduced \/ AnswerProbes \/ NothingMoreToTurn
  BY <1>3 DEF TurnTheLoop, TakeWhatTheTurnProduced, AnswerProbes, NothingMoreToTurn
<1>4. CASE RelayDevices \/ DrainArrivals
  BY <1>4 DEF RelayDevices, NextDevice, DrainArrivals
<1>5. CASE LetGoOfTheTurn
  BY <1>5 DEF LetGoOfTheTurn, Over
<1>6. CASE \/ Stroke \/ AskAtTheTray \/ SendAProbe \/ Tick \/ RunGoes
           \/ \E m \in Mouse : PlugIn(m) \/ Unplug(m) \/ Moves(m)
  BY <1>6 DEF Stroke, AskAtTheTray, SendAProbe, Tick, RunGoes, PlugIn, Unplug, Moves,
              Machine, thread
<1>7. CASE UNCHANGED vars
  BY <1>7 DEF vars, thread
<1> QED  BY <1>1, <1>2, <1>3, <1>4, <1>5, <1>6, <1>7 DEF Next, Turn

(* The loop turns with both hooks on or with neither, and a thread that is *)
(* over has let go of them: whatever did not go while it set up, and       *)
(* however it came to stop.                                                *)
THEOREM HooksGoTogether == Spec => []BothHooksOrNeither
<1>1. HooksInv => BothHooksOrNeither
  BY DEF HooksInv, BothHooksOrNeither, Setup, Loop
<1> QED  BY <1>1, HooksAtFirst, HooksStep, PTL DEF Spec

-----------------------------------------------------------------------------
(* What everything is.                                                     *)

Handle == 0..Handles
Kinds == {"Key", "Input", "Removal", "Arrival", "Asked", "Timer", "None"}
Message == [kind : Kinds, at : 0..Nobody, nth : Nat]
Happening ==
  [kind : Kinds \cup {"Probe", "Found"}, at : 0..Nobody, nth : Nat, device : Nat]

ThreadOK ==
  /\ step \in Setup \cup Loop \cup {"Ended"}
  /\ message \in Message
  /\ step \in Setup \cup {"Wait"} => message = NoMessage
  /\ pending \in Seq(Handle) /\ named \in Seq(Handle)
  /\ arrived \in Seq(Message)
  /\ stream \in Seq(Happening)
  /\ gone \in BOOLEAN

MachineOK ==
  /\ pipe \in Nat /\ sent \in Nat
  /\ strokes \in Nat /\ handles \in Handle /\ reports \in Nat /\ asks \in Nat
  /\ plugged \in [Mouse -> Handle]
  /\ lost \subseteq 1..strokes
  /\ posted \in Seq(Message) /\ raw \in Seq(Message)
  /\ \A i \in 1..Len(raw) : raw[i].kind = "Input"

Types == ThreadOK /\ MachineOK

LEMMA MessagesAreMade ==
  ASSUME NEW h \in Handle, NEW n \in Nat
  PROVE  /\ Key(n) \in Message /\ Input(h, n) \in Message /\ Change(h, n) \in Message
         /\ Arrival(h) \in Message /\ Asked(n) \in Message
         /\ Timer \in Message /\ NoMessage \in Message
  BY DEF Message, Kinds, Handle, Nobody, Key, Keyboard, Input, Change, Arrival, Asked, Timer,
         NoMessage

LEMMA HappeningsAreMade ==
  ASSUME NEW m \in Message, NEW h \in Handle, NEW n \in Nat
  PROVE  /\ Event(m, n) \in Happening /\ Found(h, n) \in Happening
         /\ Event(Probe, NoDevice) \in Happening
  BY DEF Message, Kinds, Happening, Handle, Nobody, Event, Found, Probe, NoDevice

LEMMA HeadsAndTails ==
  ASSUME NEW S, NEW s \in Seq(S), s # <<>>
  PROVE  Head(s) = s[1] /\ Head(s) \in S /\ Tail(s) \in Seq(S) /\ s = <<Head(s)>> \o Tail(s)
  OBVIOUS

LEMMA NothingIsAMessage == NoMessage \in Message /\ Timer \in Message
<1>1. 0 \in Handle
  BY DEF Handle
<1> QED  BY <1>1, MessagesAreMade

LEMMA TypesAtFirst == Init => Types
<1> SUFFICES ASSUME Init PROVE Types
  OBVIOUS
<1>1. ThreadOK
  <2>1. step \in Setup /\ message = NoMessage /\ gone = FALSE
    BY DEF Init, Setup
  <2>2. /\ pending \in Seq(Handle) /\ named \in Seq(Handle)
        /\ arrived \in Seq(Message) /\ stream \in Seq(Happening)
    BY DEF Init
  <2> QED  BY <2>1, <2>2, NothingIsAMessage DEF ThreadOK
<1>2. MachineOK
  BY DEF Init, MachineOK, Handle
<1> QED  BY <1>1, <1>2 DEF Types

LEMMA MachineTypes ==
  ASSUME Types,
         \/ Stroke \/ AskAtTheTray \/ SendAProbe \/ Tick \/ RunGoes
         \/ \E m \in Mouse : PlugIn(m) \/ Unplug(m) \/ Moves(m)
  PROVE  Types'
<1>0. ThreadOK'
  BY DEF Types, ThreadOK, Stroke, AskAtTheTray, SendAProbe, Tick, RunGoes, PlugIn, Unplug,
         Moves, Machine, thread
<1> SUFFICES MachineOK'
  BY <1>0 DEF Types
<1>1. ASSUME NEW m \in Message, Post(m) PROVE posted' \in Seq(Message) /\ raw' = raw
  BY <1>1 DEF Types, MachineOK, Post
<1>2. CASE Stroke
  <2>1. Key(strokes + 1) \in Message
    BY MessagesAreMade DEF Types, MachineOK, Handle
  <2>2. lost' \subseteq 1..strokes'
    <3>1. strokes \in Nat /\ strokes' = strokes + 1 /\ lost \subseteq 1..strokes
      BY <1>2 DEF Types, MachineOK, Stroke
    <3>2. 1..strokes \subseteq 1..strokes' /\ strokes + 1 \in 1..strokes'
      BY <3>1
    <3>3. lost' = lost \/ lost' = lost \cup {strokes + 1}
      BY <1>2 DEF Stroke
    <3> QED  BY <3>1, <3>2, <3>3
  <2>3. posted' \in Seq(Message) /\ raw' = raw
    BY <1>1, <1>2, <2>1 DEF Stroke
  <2>4. strokes' \in Nat /\ UNCHANGED <<pipe, sent, handles, reports, asks, plugged>>
    BY <1>2 DEF Stroke, Machine, Types, MachineOK
  <2> QED  BY <2>2, <2>3, <2>4 DEF Types, MachineOK
<1>3. CASE AskAtTheTray
  <2>1. Asked(asks + 1) \in Message
    BY MessagesAreMade DEF Types, MachineOK, Handle
  <2> QED  BY <1>1, <1>3, <2>1 DEF AskAtTheTray, Machine, Types, MachineOK
<1>4. CASE SendAProbe \/ Tick \/ RunGoes
  <2>1. pipe' \in Nat /\ sent' \in Nat
    BY <1>4 DEF SendAProbe, Tick, RunGoes, machine, Types, MachineOK
  <2>2. UNCHANGED <<strokes, handles, reports, asks, plugged, lost, posted, raw>>
    BY <1>4 DEF SendAProbe, Tick, RunGoes, machine
  <2> QED  BY <2>1, <2>2 DEF Types, MachineOK
<1>5. ASSUME NEW m \in Mouse, PlugIn(m) PROVE MachineOK'
  <2>1. handles + 1 \in Handle
    BY <1>5 DEF PlugIn, Types, MachineOK, Handle
  <2>2. Arrival(handles + 1) \in Message
    BY <2>1, MessagesAreMade
  <2>3. plugged' \in [Mouse -> Handle]
    BY <1>5, <2>1 DEF PlugIn, Types, MachineOK
  <2> QED  BY <1>1, <1>5, <2>1, <2>2, <2>3 DEF PlugIn, Machine, Types, MachineOK
<1>6. ASSUME NEW m \in Mouse, Unplug(m) PROVE MachineOK'
  <2>1. plugged[m] \in Handle /\ 0 \in Handle
    BY <1>6 DEF Types, MachineOK, Handle
  <2>2. Change(plugged[m], 0) \in Message
    BY <2>1, MessagesAreMade
  <2>3. plugged' \in [Mouse -> Handle]
    BY <1>6, <2>1 DEF Unplug, Types, MachineOK
  <2> QED  BY <1>1, <1>6, <2>2, <2>3 DEF Unplug, Machine, Types, MachineOK
<1>7. ASSUME NEW m \in Mouse, Moves(m) PROVE MachineOK'
  <2>1. plugged[m] \in Handle
    BY <1>7 DEF Types, MachineOK
  <2> DEFINE said == Input(plugged[m], reports + 1)
  <2>2. said \in Message /\ said.kind = "Input"
    BY <2>1, MessagesAreMade DEF Types, MachineOK, Input
  <2> HIDE DEF said
  <2>3. raw' = Append(raw, said)
    BY <1>7 DEF Moves, said
  <2>4. raw' \in Seq(Message) /\ \A i \in 1..Len(raw') : raw'[i].kind = "Input"
    BY <2>2, <2>3 DEF Types, MachineOK
  <2> QED  BY <1>7, <2>4 DEF Moves, Machine, Types, MachineOK
<1> QED  BY <1>2, <1>3, <1>4, <1>5, <1>6, <1>7

(* What a turn puts on the stream, and what that leaves.                   *)
LEMMA DeliveredTypes ==
  ASSUME NEW E, stream \in Seq(E), gone \in BOOLEAN, NEW events \in Seq(E), Delivered(events)
  PROVE  stream' \in Seq(E) /\ (~gone => stream' = stream \o events)
  BY DEF Delivered

LEMMA ProbesTaken ==
  ASSUME pipe \in Nat
  PROVE  TakeProbes \in Seq(Happening) /\ Len(TakeProbes) = pipe
<1>1. Event(Probe, NoDevice) \in Happening
  BY NothingIsAMessage, HappeningsAreMade DEF Handle, NoDevice
<1> DEFINE probe == Event(Probe, NoDevice)
<1> HIDE DEF probe
<1>2. TakeProbes = [i \in 1..pipe |-> probe] /\ probe \in Happening
  BY <1>1 DEF TakeProbes, probe
<1> QED  BY <1>2

LEMMA ThreadTypes ==
  ASSUME Types,
         \/ StartReading \/ WillNotGo \/ TurnTheLoop \/ TakeWhatTheTurnProduced
         \/ NothingMoreToTurn \/ LetGoOfTheTurn
  PROVE  Types'
<1> USE DEF Setup, Loop
<1>1. CASE StartReading \/ WillNotGo
  <2>1. step' \in Setup \cup Loop \cup {"Ended"} /\ step \in Setup
    BY <1>1 DEF StartReading, WillNotGo, MakeAWindow, AskForTheMice, StartTheTimer,
                HookTheKeyboard, HookThePointer, Goes, Over
  <2>2. UNCHANGED <<machine, pipe, posted, raw, message, pending, named, arrived, stream, gone>>
    BY <1>1 DEF StartReading, WillNotGo, MakeAWindow, AskForTheMice, StartTheTimer,
                HookTheKeyboard, HookThePointer, Goes
  <2> QED  BY <2>1, <2>2 DEF Types, ThreadOK, MachineOK, machine
<1>2. CASE TurnTheLoop
  <2>1. /\ message' \in Message /\ posted' \in Seq(Message) /\ raw' \in Seq(Message)
        /\ \A i \in 1..Len(raw') : raw'[i].kind = "Input"
    <3>1. CASE posted # <<>> /\ message' = Head(posted) /\ posted' = Tail(posted) /\ raw' = raw
      BY <3>1, HeadsAndTails DEF Types, MachineOK
    <3>2. CASE raw # <<>> /\ message' = Head(raw) /\ raw' = Tail(raw) /\ posted' = posted
      BY <3>2, HeadsAndTails DEF Types, MachineOK
    <3>3. CASE message' = Timer /\ posted' = posted /\ raw' = raw
      BY <3>3, NothingIsAMessage DEF Types, MachineOK
    <3> QED  BY <1>2, <3>1, <3>2, <3>3 DEF TurnTheLoop
  <2>2. UNCHANGED <<machine, pipe, pending, named, arrived, stream, gone>> /\ step' = "Take"
    BY <1>2 DEF TurnTheLoop
  <2> QED  BY <2>1, <2>2 DEF Types, ThreadOK, MachineOK, machine
<1>3. CASE TakeWhatTheTurnProduced
  <2>1. UNCHANGED <<machine, pipe, message, named, posted, raw, stream, gone>> /\ step' = "Answer"
    BY <1>3 DEF TakeWhatTheTurnProduced
  <2>2. arrived' \in Seq(Message)
    <3>1. Append(arrived, message) \in Seq(Message) /\ arrived \in Seq(Message)
      BY DEF Types, ThreadOK
    <3> QED  BY <1>3, <3>1 DEF TakeWhatTheTurnProduced
  <2>3. NoteTheDevice(message) \in Seq(Handle)
    <3>1. message.at \in 0..Handles + 1
      BY DEF Types, ThreadOK, Message, Nobody
    <3>2. message.at # Nobody => Append(pending, message.at) \in Seq(Handle)
      BY <3>1 DEF Types, ThreadOK, Handle, Nobody
    <3> QED  BY <3>2 DEF NoteTheDevice, FromADevice, CameFrom, Types, ThreadOK
  <2>4. pending' \in Seq(Handle)
    BY <1>3, <2>3 DEF TakeWhatTheTurnProduced, Types, ThreadOK
  <2> QED  BY <2>1, <2>2, <2>4 DEF Types, ThreadOK, MachineOK, machine
<1>4. CASE NothingMoreToTurn
  <2>1. UNCHANGED <<machine, pipe, message, pending, named, arrived, posted, raw, stream, gone>>
        /\ step' = "Answer"
    BY <1>4 DEF NothingMoreToTurn
  <2> QED  BY <2>1 DEF Types, ThreadOK, MachineOK, machine
<1>5. CASE LetGoOfTheTurn
  <2>1. UNCHANGED <<machine, pipe, pending, named, arrived, posted, raw, stream, gone>>
    BY <1>5 DEF LetGoOfTheTurn
  <2>2. /\ step' \in {"Wait", "Ended"} /\ (step' = "Wait" => message' = NoMessage)
        /\ message' \in {message, NoMessage}
    BY <1>5 DEF LetGoOfTheTurn, Over
  <2> QED  BY <2>1, <2>2, NothingIsAMessage DEF Types, ThreadOK, MachineOK, machine
<1> QED  BY <1>1, <1>2, <1>3, <1>4, <1>5

-----------------------------------------------------------------------------
(* The numbers: what the loop was told of, in the order it was told, is    *)
(* what has one.  Nothing that waits for a number has one or waits twice,  *)
(* and what is put down and named is named by then.                        *)

NumbersInv ==
  /\ devices = [n \in 1..Len(named) |-> [at |-> named[n], id |-> n]]
  /\ \A i, j \in 1..Len(named) : named[i] = named[j] => i = j
  /\ \A i, j \in 1..Len(pending) : pending[i] = pending[j] => i = j
  /\ \A i \in 1..Len(pending), j \in 1..Len(named) : pending[i] # named[j]

ArrivedInv ==
  /\ step \notin {"Answer", "Number"} => pending = <<>>
  /\ step \notin {"Answer", "Number", "Drain"} => arrived = <<>>
  /\ \A i \in 1..Len(arrived) : arrived[i].at # Nobody =>
       Contains(named, arrived[i].at) \/ Contains(pending, arrived[i].at)

(* An event that a device said is under its number, and came after it was  *)
(* found; and while the run is there, what has a number was found.         *)
FoundIn(events, i, h, n) == \E j \in 1..i : events[j] = Found(h, n)
Attributed(events, i) ==
  LET e == events[i]
  IN  \/ e.at = Nobody /\ e.device = NoDevice
      \/ /\ e.device \in 1..Len(named) /\ e.at = named[e.device]
         /\ FoundIn(events, i, e.at, e.device)

StreamInv ==
  /\ \A i \in 1..Len(stream) : Attributed(stream, i)
  /\ ~gone => \A n \in 1..Len(named) : FoundIn(stream, Len(stream), named[n], n)

LEMMA NumberedByName ==
  ASSUME named \in Seq(Handle), NumbersInv, NEW h
  PROVE  /\ Numbered(h) <=> Contains(named, h)
         /\ Numbered(h) => NumberOf(h) \in 1..Len(named) /\ named[NumberOf(h)] = h
<1>1. ToSet(devices) = {[at |-> named[n], id |-> n] : n \in 1..Len(named)}
  BY DEF ToSet, NumbersInv
<1>2. Numbered(h) <=> Contains(named, h)
  <2>1. ASSUME NEW n \in 1..Len(named), named[n] = h PROVE Numbered(h)
    <3>1. [at |-> named[n], id |-> n] \in ToSet(devices)
      BY <1>1
    <3> QED  BY <2>1, <3>1 DEF Numbered
  <2>2. ASSUME NEW d \in ToSet(devices), d.at = h PROVE Contains(named, h)
    BY <1>1, <2>2 DEF Contains
  <2> QED  BY <2>1, <2>2 DEF Numbered, Contains
<1>3. ASSUME Numbered(h) PROVE NumberOf(h) \in 1..Len(named) /\ named[NumberOf(h)] = h
  <2> DEFINE d == CHOOSE e \in ToSet(devices) : e.at = h
  <2>1. d \in ToSet(devices) /\ d.at = h
    BY <1>3 DEF Numbered
  <2>2. NumberOf(h) = d.id
    BY DEF NumberOf
  <2> HIDE DEF d
  <2> QED  BY <1>1, <2>1, <2>2
<1> QED  BY <1>2, <1>3

LEMMA StreamGrows ==
  ASSUME named \in Seq(Handle), NEW s \in Seq(Happening), NEW u \in Seq(Happening),
         \A i \in 1..Len(s) : Attributed(s, i),
         \A k \in 1..Len(u) :
           \/ u[k].at = Nobody /\ u[k].device = NoDevice
           \/ /\ u[k].device \in 1..Len(named) /\ u[k].at = named[u[k].device]
              /\ \/ u[k] = Found(u[k].at, u[k].device)
                 \/ FoundIn(s, Len(s), u[k].at, u[k].device)
  PROVE  /\ \A i \in 1..Len(s \o u) : Attributed(s \o u, i)
         /\ \A h, n : FoundIn(s, Len(s), h, n) => FoundIn(s \o u, Len(s \o u), h, n)
<1> DEFINE t == s \o u
<1>1. t \in Seq(Happening) /\ Len(t) = Len(s) + Len(u)
  OBVIOUS
<1>2. \A i \in 1..Len(s) : t[i] = s[i]
  OBVIOUS
<1>3. \A k \in 1..Len(u) : t[Len(s) + k] = u[k]
  OBVIOUS
<1> HIDE DEF t
<1>4. \A h, n : \A i \in 1..Len(s) : FoundIn(s, i, h, n) => FoundIn(t, i, h, n)
  BY <1>2 DEF FoundIn
<1>5. ASSUME NEW i \in 1..Len(s) PROVE Attributed(t, i)
  BY <1>2, <1>4, <1>5 DEF Attributed
<1>7. ASSUME NEW k \in 1..Len(u) PROVE Attributed(t, Len(s) + k)
  <2>1. Len(s) + k \in 1..Len(t) /\ Len(s) + k >= Len(s) /\ t[Len(s) + k] = u[k]
    BY <1>1, <1>3
  <2>2. u[k] = Found(u[k].at, u[k].device) => FoundIn(t, Len(s) + k, u[k].at, u[k].device)
    BY <2>1 DEF FoundIn
  <2>3. CASE u[k].at = Nobody /\ u[k].device = NoDevice
    BY <2>1, <2>3 DEF Attributed
  <2>4. CASE /\ u[k].device \in 1..Len(named) /\ u[k].at = named[u[k].device]
             /\ \/ u[k] = Found(u[k].at, u[k].device)
                \/ FoundIn(s, Len(s), u[k].at, u[k].device)
    <3>1. FoundIn(t, Len(s) + k, u[k].at, u[k].device)
      <4>1. \A h, n : FoundIn(s, Len(s), h, n) => FoundIn(t, Len(s) + k, h, n)
        BY <1>2 DEF FoundIn
      <4> QED  BY <2>2, <2>4, <4>1
    <3> QED  BY <2>1, <2>4, <3>1 DEF Attributed
  <2> QED  BY <2>3, <2>4
<1>8. \A i \in 1..Len(t) : i \in 1..Len(s) \/ \E k \in 1..Len(u) : i = Len(s) + k
  <2>1. ASSUME NEW i \in 1..Len(t), i \notin 1..Len(s)
        PROVE  \E k \in 1..Len(u) : i = Len(s) + k
    <3>1. Len(s) \in Nat /\ Len(u) \in Nat
      OBVIOUS
    <3>2. i - Len(s) \in 1..Len(u) /\ i = Len(s) + (i - Len(s))
      BY <1>1, <2>1, <3>1
    <3> QED  BY <3>2
  <2> QED  BY <2>1
<1>9. \A h, n : FoundIn(s, Len(s), h, n) => FoundIn(t, Len(t), h, n)
  BY <1>1, <1>2 DEF FoundIn
<1> QED  BY <1>5, <1>7, <1>8, <1>9 DEF t

RunInv == Types /\ NumbersInv /\ ArrivedInv /\ StreamInv

LEMMA RunAtFirst == Init => RunInv
<1> SUFFICES ASSUME Init PROVE RunInv
  OBVIOUS
<1>1. NumbersInv
  BY DEF Init, NumbersInv
<1>2. ArrivedInv /\ StreamInv
  BY DEF Init, ArrivedInv, StreamInv
<1> QED  BY <1>1, <1>2, TypesAtFirst DEF RunInv

(* A step that names nothing and delivers nothing.                         *)
LEMMA NothingNamed ==
  ASSUME RunInv, UNCHANGED <<devices, named, pending, stream>>, gone => gone'
  PROVE  NumbersInv' /\ StreamInv'
<1>1. NumbersInv'
  BY DEF RunInv, NumbersInv
<1>2. \A i \in 1..Len(stream') : Attributed(stream, i)'
  BY DEF RunInv, StreamInv, Attributed, FoundIn
<1>3. ~gone' => \A n \in 1..Len(named') : FoundIn(stream, Len(stream), named[n], n)'
  BY DEF RunInv, StreamInv, FoundIn
<1> QED  BY <1>1, <1>2, <1>3 DEF StreamInv

(* A step that does not put down either.                                   *)
LEMMA NothingPutDown ==
  ASSUME RunInv, Types', UNCHANGED <<devices, named, pending, arrived, stream>>, gone => gone',
         \/ step' = step
         \/ step \notin {"Answer", "Number", "Drain"} /\ step' # "Number"
         \/ step = "Answer" /\ step' = "Number"
  PROVE  RunInv'
<1>1. ArrivedInv'
  BY DEF RunInv, ArrivedInv
<1> QED  BY <1>1, NothingNamed DEF RunInv

LEMMA RunOfTheMachine ==
  ASSUME RunInv,
         \/ StartReading \/ WillNotGo \/ TurnTheLoop \/ NothingMoreToTurn \/ LetGoOfTheTurn
         \/ Stroke \/ AskAtTheTray \/ SendAProbe \/ Tick \/ RunGoes
         \/ \E m \in Mouse : PlugIn(m) \/ Unplug(m) \/ Moves(m)
  PROVE  RunInv'
<1>1. Types'
  BY ThreadTypes, MachineTypes DEF RunInv
<1>2. CASE StartReading \/ WillNotGo
  BY <1>1, <1>2, NothingPutDown
  DEF StartReading, WillNotGo, MakeAWindow, AskForTheMice, StartTheTimer, HookTheKeyboard,
      HookThePointer, Goes, Over
<1>3. CASE TurnTheLoop \/ NothingMoreToTurn \/ LetGoOfTheTurn
  BY <1>1, <1>3, NothingPutDown DEF TurnTheLoop, NothingMoreToTurn, LetGoOfTheTurn, Over
<1>4. CASE \/ Stroke \/ AskAtTheTray \/ SendAProbe \/ Tick \/ RunGoes
           \/ \E m \in Mouse : PlugIn(m) \/ Unplug(m) \/ Moves(m)
  BY <1>1, <1>4, NothingPutDown
  DEF Stroke, AskAtTheTray, SendAProbe, Tick, RunGoes, PlugIn, Unplug, Moves, Machine, thread
<1> QED  BY <1>2, <1>3, <1>4

LEMMA RunTakes == RunInv /\ TakeWhatTheTurnProduced => RunInv'
<1> SUFFICES ASSUME RunInv, TakeWhatTheTurnProduced PROVE RunInv'
  OBVIOUS
<1>1. Types'
  BY ThreadTypes DEF RunInv
<1>2. /\ UNCHANGED <<devices, named, stream, gone>> /\ step = "Take" /\ step' = "Answer"
      /\ pending = <<>> /\ arrived = <<>>
  BY DEF TakeWhatTheTurnProduced, RunInv, ArrivedInv
<1>3. /\ pending' = <<>> \/ /\ pending' = <<message.at>> /\ ~Numbered(message.at)
      /\ \/ arrived' = <<>>
         \/ /\ arrived' = <<message>>
            /\ \/ message.at = Nobody \/ Numbered(message.at) \/ pending' = <<message.at>>
  BY <1>2 DEF TakeWhatTheTurnProduced, NoteTheDevice, FromADevice, CameFrom, Contains
<1>4. Numbered(message.at) <=> Contains(named, message.at)
  BY NumberedByName DEF RunInv, Types, ThreadOK
<1>5. ArrivedInv'
  BY <1>2, <1>3, <1>4 DEF ArrivedInv, Contains
<1>6. NumbersInv'
  BY <1>2, <1>3, <1>4 DEF RunInv, NumbersInv, Contains
<1>7. StreamInv'
  <2>1. \A i \in 1..Len(stream') : Attributed(stream, i)'
    BY <1>2 DEF RunInv, StreamInv, Attributed, FoundIn
  <2>2. ~gone' => \A n \in 1..Len(named') : FoundIn(stream, Len(stream), named[n], n)'
    BY <1>2 DEF RunInv, StreamInv, FoundIn
  <2> QED  BY <2>1, <2>2 DEF StreamInv
<1> QED  BY <1>1, <1>5, <1>6, <1>7 DEF RunInv

LEMMA RunAnswers == RunInv /\ AnswerProbes => RunInv'
<1> SUFFICES ASSUME RunInv, AnswerProbes PROVE RunInv'
  OBVIOUS
<1>1. /\ UNCHANGED <<machine, posted, raw, message, devices, named, pending, arrived, gone>>
      /\ step = "Answer" /\ step' = "Number" /\ pipe' \in {0, pipe}
  BY DEF AnswerProbes
<1>2. CASE stream' = stream
  <2>1. Types'
    BY <1>1, <1>2 DEF RunInv, Types, ThreadOK, MachineOK, machine, Setup, Loop
  <2> QED  BY <1>1, <1>2, <2>1, NothingPutDown
<1>3. CASE ~gone /\ stream' = stream \o TakeProbes
  <2>1. TakeProbes \in Seq(Happening) /\ Len(TakeProbes) = pipe
    BY ProbesTaken DEF RunInv, Types, MachineOK
  <2>2. \A k \in 1..Len(TakeProbes) :
          TakeProbes[k].at = Nobody /\ TakeProbes[k].device = NoDevice
    BY <2>1 DEF TakeProbes, Event, Probe
  <2> DEFINE u == TakeProbes
  <2> HIDE DEF u
  <2>3. u \in Seq(Happening) /\ stream' = stream \o u
        /\ \A k \in 1..Len(u) : u[k].at = Nobody /\ u[k].device = NoDevice
    BY <1>3, <2>1, <2>2 DEF u
  <2>4. stream' \in Seq(Happening)
    BY <2>3 DEF RunInv, Types, ThreadOK
  <2>5. /\ \A i \in 1..Len(stream') : Attributed(stream', i)
        /\ \A h, n : FoundIn(stream, Len(stream), h, n) => FoundIn(stream', Len(stream'), h, n)
    BY <2>3, StreamGrows DEF RunInv, Types, ThreadOK, StreamInv
  <2>6. StreamInv'
    <3>1. \A i \in 1..Len(stream') : Attributed(stream, i)'
      BY <1>1, <2>5 DEF Attributed, FoundIn
    <3>2. ~gone' => \A n \in 1..Len(named') : FoundIn(stream, Len(stream), named[n], n)'
      BY <1>1, <2>5 DEF RunInv, StreamInv, FoundIn
    <3> QED  BY <3>1, <3>2 DEF StreamInv
  <2>7. Types'
    BY <1>1, <2>4 DEF RunInv, Types, ThreadOK, MachineOK, machine, Setup, Loop
  <2>8. NumbersInv' /\ ArrivedInv'
    BY <1>1 DEF RunInv, NumbersInv, ArrivedInv
  <2> QED  BY <2>6, <2>7, <2>8 DEF RunInv
<1> QED  BY <1>2, <1>3 DEF AnswerProbes, Delivered

(* What is delivered one at a time.                                        *)
LEMMA OneMore ==
  ASSUME RunInv, NEW e \in Happening, Delivered(<<e>>),
         named' \in Seq(Handle), Len(named') >= Len(named), gone' = gone,
         \A n \in 1..Len(named) : named'[n] = named[n],
         ~gone => \/ e.at = Nobody /\ e.device = NoDevice
                 \/ /\ e.device \in 1..Len(named') /\ e.at = named'[e.device]
                    /\ \/ e = Found(e.at, e.device)
                       \/ FoundIn(stream, Len(stream), e.at, e.device),
         ~gone => \A n \in 1..Len(named') : n > Len(named) => e = Found(named'[n], n)
  PROVE  StreamInv' /\ stream' \in Seq(Happening)
<1>1. stream \in Seq(Happening) /\ named \in Seq(Handle)
      /\ \A i \in 1..Len(stream) : Attributed(stream, i)
  BY DEF RunInv, Types, ThreadOK, StreamInv
<1>2. ASSUME NEW i \in 1..Len(stream)
      PROVE  \/ stream[i].at = Nobody /\ stream[i].device = NoDevice
             \/ /\ stream[i].device \in 1..Len(named')
                /\ stream[i].at = named'[stream[i].device]
                /\ FoundIn(stream, i, stream[i].at, stream[i].device)
  <2>1. CASE stream[i].at = Nobody /\ stream[i].device = NoDevice
    BY <2>1
  <2>2. CASE /\ stream[i].device \in 1..Len(named) /\ stream[i].at = named[stream[i].device]
             /\ FoundIn(stream, i, stream[i].at, stream[i].device)
    <3>1. stream[i].device \in 1..Len(named')
      BY <1>1, <2>2
    <3> QED  BY <2>2, <3>1
  <2> QED  BY <1>1, <2>1, <2>2 DEF Attributed
<1>3. CASE gone
  <2>1. stream' = stream
    BY <1>3 DEF Delivered
  <2>2. \A i \in 1..Len(stream') : Attributed(stream, i)'
    BY <1>2, <2>1 DEF Attributed, FoundIn
  <2> QED  BY <1>1, <1>3, <2>1, <2>2 DEF StreamInv
<1>4. CASE ~gone
  <2>1. stream' = stream \o <<e>>
    BY <1>4 DEF Delivered
  <2>2. /\ stream' \in Seq(Happening) /\ Len(stream') = Len(stream) + 1
        /\ stream'[Len(stream) + 1] = e /\ Len(stream) \in Nat
        /\ \A i \in 1..Len(stream) : stream'[i] = stream[i]
    BY <1>1, <2>1
  <2>3. \A h, n : \A i \in 1..Len(stream) : FoundIn(stream, i, h, n) => FoundIn(stream', i, h, n)
    BY <2>2 DEF FoundIn
  <2>4. \A h, n : FoundIn(stream, Len(stream), h, n) => FoundIn(stream', Len(stream'), h, n)
    BY <2>2 DEF FoundIn
  <2>5. ASSUME NEW i \in 1..Len(stream) PROVE Attributed(stream, i)'
    <3>1. stream'[i] = stream[i]
      BY <2>2
    <3>2. \A h, n : FoundIn(stream, i, h, n) => FoundIn(stream', i, h, n)
      BY <2>3
    <3>3. \/ stream'[i].at = Nobody /\ stream'[i].device = NoDevice
          \/ /\ stream'[i].device \in 1..Len(named')
             /\ stream'[i].at = named'[stream'[i].device]
             /\ FoundIn(stream', i, stream'[i].at, stream'[i].device)
      BY <1>2, <3>1, <3>2
    <3> QED  BY <3>3 DEF Attributed, FoundIn
  <2>6. e = Found(e.at, e.device) => FoundIn(stream', Len(stream'), e.at, e.device)
    BY <2>2 DEF FoundIn
  <2>7. \/ e.at = Nobody /\ e.device = NoDevice
        \/ /\ e.device \in 1..Len(named') /\ e.at = named'[e.device]
           /\ FoundIn(stream', Len(stream'), e.at, e.device)
    BY <1>4, <2>4, <2>6
  <2>8. \A i \in 1..Len(stream') : i \in 1..Len(stream) \/ i = Len(stream')
    BY <2>2
  <2>9. \A i \in 1..Len(stream') : Attributed(stream, i)'
    BY <2>2, <2>5, <2>7, <2>8 DEF Attributed, FoundIn
  <2>10. ASSUME NEW n \in 1..Len(named') PROVE FoundIn(stream', Len(stream'), named'[n], n)
    <3>1. CASE n > Len(named)
      BY <1>4, <2>2, <3>1 DEF FoundIn
    <3>2. CASE n \in 1..Len(named)
      BY <1>4, <2>4, <3>2 DEF RunInv, StreamInv
    <3> QED  BY <1>1, <3>1, <3>2
  <2>11. \A n \in 1..Len(named') : FoundIn(stream, Len(stream), named[n], n)'
    BY <2>10 DEF FoundIn
  <2> QED  BY <2>2, <2>9, <2>11 DEF StreamInv
<1> QED  BY <1>3, <1>4

LEMMA RunNumbers == RunInv /\ RelayDevices => RunInv'
<1> SUFFICES ASSUME RunInv, RelayDevices PROVE RunInv'
  OBVIOUS
<1>1. /\ UNCHANGED <<machine, posted, raw, message, pipe, arrived, gone>>
      /\ step = "Number" /\ step' \in {"Number", "Drain"}
  BY DEF RelayDevices, NextDevice
<1>2. CASE pending = <<>> /\ step' = "Drain" /\ UNCHANGED <<devices, pending, named, stream, reading>>
  <2>1. Types'
    BY <1>1, <1>2 DEF RunInv, Types, ThreadOK, MachineOK, machine, Setup, Loop
  <2>2. ArrivedInv'
    BY <1>1, <1>2 DEF RunInv, ArrivedInv
  <2> QED  BY <1>1, <1>2, <2>1, <2>2, NothingNamed DEF RunInv
<1>3. CASE NextDevice
  <2> DEFINE h == Head(pending)  e == Found(h, Offer)
  <2>1. /\ pending # <<>> /\ step' = "Number" /\ pending' = Tail(pending)
        /\ devices' = Append(devices, [at |-> h, id |-> Offer])
    BY <1>1, <1>3 DEF NextDevice
  <2>2. /\ h \in Handle /\ pending \in Seq(Handle) /\ pending' \in Seq(Handle)
        /\ h = pending[1] /\ Len(pending) > 0 /\ Len(pending') = Len(pending) - 1
        /\ named \in Seq(Handle)
        /\ \A i \in 1..Len(pending') : pending'[i] = pending[i + 1]
    BY <2>1 DEF RunInv, Types, ThreadOK
  <2>3. ~Contains(named, h)
    BY <2>2 DEF RunInv, NumbersInv, Contains
  <2>4. named' = Append(named, h) /\ Delivered(<<e>>)
    BY <1>3, <2>3 DEF NextDevice
  <2>5. /\ named' \in Seq(Handle) /\ Len(named') = Len(named) + 1 /\ named'[Len(named) + 1] = h
        /\ Len(named) \in Nat
        /\ \A n \in 1..Len(named) : named'[n] = named[n]
    BY <2>2, <2>4
  <2>6. e \in Happening /\ e.at = h /\ e.device = Len(named) + 1
        /\ e = Found(e.at, e.device)
    BY <2>2, <2>5, NothingIsAMessage, HappeningsAreMade DEF Found, Offer
  <2>7. StreamInv' /\ stream' \in Seq(Happening)
    <3> HIDE DEF e
    <3>1. e.device \in 1..Len(named') /\ e.at = named'[e.device]
      BY <2>5, <2>6
    <3>2. \A n \in 1..Len(named') : n > Len(named) => e = Found(named'[n], n)
      BY <2>5, <2>6
    <3> QED  BY <1>1, <2>4, <2>5, <2>6, <3>1, <3>2, OneMore
  <2>8. Types'
    BY <1>1, <2>1, <2>2, <2>5, <2>7 DEF RunInv, Types, ThreadOK, MachineOK, machine, Setup, Loop
  <2>9. NumbersInv'
    <3>1. devices' = [n \in 1..Len(named') |-> [at |-> named'[n], id |-> n]]
      <4> DEFINE numbered(n) == [at |-> named'[n], id |-> n]
      <4>1. numbered(Len(named) + 1) = [at |-> h, id |-> Offer]
        BY <2>5 DEF Offer
      <4>2. devices = [n \in 1..Len(named) |-> numbered(n)]
        BY <2>5 DEF RunInv, NumbersInv
      <4> HIDE DEF numbered
      <4>3. Append(devices, numbered(Len(named) + 1))
              = [n \in 1..Len(named) + 1 |-> numbered(n)]
        BY <2>5, <4>2
      <4>4. devices' = [n \in 1..Len(named') |-> numbered(n)]
        BY <2>1, <2>5, <4>1, <4>3
      <4> QED  BY <4>4 DEF numbered
    <3>2. \A i, j \in 1..Len(named') : named'[i] = named'[j] => i = j
      <4>1. \A i \in 1..Len(named') : i \in 1..Len(named) \/ i = Len(named) + 1
        BY <2>5
      <4>2. \A i \in 1..Len(named) : named[i] # h
        BY <2>3 DEF Contains
      <4> QED  BY <2>5, <4>1, <4>2 DEF RunInv, NumbersInv
    <3>3. \A i \in 1..Len(pending') : i + 1 \in 1..Len(pending) /\ i + 1 # 1
      BY <2>2
    <3>4. 1 \in 1..Len(pending)
      BY <2>2
    <3>5. \A i, j \in 1..Len(pending') : pending'[i] = pending'[j] => i = j
      <4>1. ASSUME NEW i \in 1..Len(pending'), NEW j \in 1..Len(pending'), pending'[i] = pending'[j]
            PROVE  i = j
        <5>1. i + 1 = j + 1
          BY <2>2, <3>3, <4>1 DEF RunInv, NumbersInv
        <5> QED  BY <5>1
      <4> QED  BY <4>1
    <3>6. \A i \in 1..Len(pending'), j \in 1..Len(named') : pending'[i] # named'[j]
      <4>1. ASSUME NEW i \in 1..Len(pending'), NEW j \in 1..Len(named')
            PROVE  pending'[i] # named'[j]
        <5>1. pending'[i] # h
          BY <2>2, <3>3, <3>4, <4>1 DEF RunInv, NumbersInv
        <5>2. j \in 1..Len(named) \/ j = Len(named) + 1
          BY <2>5
        <5>3. j \in 1..Len(named) => pending[i + 1] # named[j]
          BY <3>3, <4>1 DEF RunInv, NumbersInv
        <5>4. j \in 1..Len(named) => pending'[i] # named'[j]
          BY <2>2, <2>5, <4>1, <5>3
        <5>5. j = Len(named) + 1 => pending'[i] # named'[j]
          BY <2>5, <5>1
        <5> QED  BY <5>2, <5>4, <5>5
      <4> QED  BY <4>1
    <3> QED  BY <3>1, <3>2, <3>5, <3>6 DEF NumbersInv
  <2>10. ArrivedInv'
    <3>1. \A x : Contains(named, x) \/ x = h => Contains(named', x)
      BY <2>5 DEF Contains
    <3>2. ASSUME NEW x, Contains(pending, x) PROVE x = h \/ Contains(pending', x)
      <4>1. PICK i \in 1..Len(pending) : pending[i] = x
        BY <3>2 DEF Contains
      <4>2. CASE i = 1
        BY <2>2, <4>1, <4>2
      <4>3. CASE i # 1
        <5>1. i - 1 \in 1..Len(pending') /\ (i - 1) + 1 = i
          BY <2>2, <4>3
        <5>2. pending'[i - 1] = x
          BY <2>2, <4>1, <5>1
        <5> QED  BY <5>1, <5>2 DEF Contains
      <4> QED  BY <4>2, <4>3
    <3>3. \A i \in 1..Len(arrived') : arrived'[i].at # Nobody =>
            Contains(named', arrived'[i].at) \/ Contains(pending', arrived'[i].at)
      BY <1>1, <3>1, <3>2 DEF RunInv, ArrivedInv
    <3>4. step' = "Number"
      BY <2>1
    <3> QED  BY <3>3, <3>4 DEF ArrivedInv, Contains
  <2> QED  BY <2>7, <2>8, <2>9, <2>10 DEF RunInv
<1> QED  BY <1>2, <1>3 DEF RelayDevices

(* What is delivered of what was put down.                                 *)
LEMMA AnEvent ==
  ASSUME RunInv, arrived # <<>>, Nameable(Head(arrived))
  PROVE  LET m == Head(arrived)  e == AsAnEvent(m)
         IN  /\ m \in Message /\ e \in Happening
             /\ e.kind = m.kind /\ e.at = m.at /\ e.nth = m.nth
             /\ \/ e.at = Nobody /\ e.device = NoDevice
                \/ e.device \in 1..Len(named) /\ e.at = named[e.device]
<1> DEFINE m == Head(arrived)  e == AsAnEvent(m)
<1>1. m \in Message
  BY HeadsAndTails DEF RunInv, Types, ThreadOK
<1>2. 0 \in Handle
  BY DEF Handle
<1>3. CASE m.at = Nobody
  <2>1. e = Event(m, NoDevice) /\ NoDevice \in Nat
    BY <1>3 DEF AsAnEvent, FromADevice, NoDevice
  <2>2. e \in Happening
    BY <1>1, <1>2, <2>1, HappeningsAreMade
  <2> QED  BY <1>1, <1>3, <2>1, <2>2 DEF Event
<1>4. CASE m.at # Nobody
  <2>1. Numbered(m.at)
    BY <1>4 DEF Nameable, FromADevice
  <2>2. NumberOf(m.at) \in 1..Len(named) /\ named[NumberOf(m.at)] = m.at
    BY <2>1, NumberedByName DEF RunInv, Types, ThreadOK
  <2>3. e = Event(m, NumberOf(m.at))
    BY <1>4, <2>1 DEF AsAnEvent, FromADevice
  <2>4. NumberOf(m.at) \in Nat
    BY <2>2
  <2>5. e \in Happening
    BY <1>1, <1>2, <2>3, <2>4, HappeningsAreMade
  <2> QED  BY <1>1, <2>2, <2>3, <2>5 DEF Event
<1> QED  BY <1>1, <1>3, <1>4

LEMMA RunDrains == RunInv /\ DrainArrivals => RunInv'
<1> SUFFICES ASSUME RunInv, DrainArrivals PROVE RunInv'
  OBVIOUS
<1>1. /\ UNCHANGED <<machine, posted, raw, message, pipe, pending, devices, named, gone>>
      /\ step = "Drain" /\ pending = <<>>
  BY DEF DrainArrivals, RunInv, ArrivedInv
<1>2. CASE arrived # <<>> /\ Nameable(Head(arrived))
  <2> DEFINE e == AsAnEvent(Head(arrived))
  <2>1. arrived' = Tail(arrived) /\ Delivered(<<e>>) /\ step' = step
    BY <1>2 DEF DrainArrivals
  <2>2. /\ e \in Happening
        /\ \/ e.at = Nobody /\ e.device = NoDevice
           \/ e.device \in 1..Len(named) /\ e.at = named[e.device]
    BY <1>2, AnEvent
  <2> HIDE DEF e
  <2>3. arrived' \in Seq(Message) /\ Len(arrived') = Len(arrived) - 1
        /\ \A i \in 1..Len(arrived') : i + 1 \in 1..Len(arrived) /\ arrived'[i] = arrived[i + 1]
    BY <1>2, <2>1 DEF RunInv, Types, ThreadOK
  <2>4. StreamInv' /\ stream' \in Seq(Happening)
    <3>1. named' \in Seq(Handle) /\ Len(named') = Len(named) /\ named' = named
          /\ Len(named) \in Nat
      BY <1>1 DEF RunInv, Types, ThreadOK
    <3>2. ~gone => \A n \in 1..Len(named) : FoundIn(stream, Len(stream), named[n], n)
      BY DEF RunInv, StreamInv
    <3> QED  BY <1>1, <2>1, <2>2, <3>1, <3>2, OneMore
  <2>5. Types'
    BY <1>1, <2>1, <2>3, <2>4 DEF RunInv, Types, ThreadOK, MachineOK, machine, Setup, Loop
  <2>6. NumbersInv' /\ ArrivedInv'
    <3>1. NumbersInv'
      BY <1>1 DEF RunInv, NumbersInv
    <3> QED  BY <1>1, <2>1, <2>3, <3>1 DEF RunInv, ArrivedInv, Contains
  <2> QED  BY <2>4, <2>5, <2>6 DEF RunInv
<1>3. CASE ~(arrived # <<>> /\ Nameable(Head(arrived)))
  <2>1. step' = "LetGo" /\ UNCHANGED <<arrived, stream, reading>>
    BY <1>3 DEF DrainArrivals
  <2>2. arrived = <<>>
    <3> SUFFICES ASSUME arrived # <<>> PROVE FALSE
      OBVIOUS
    <3>1. 1 \in 1..Len(arrived) /\ Head(arrived) = arrived[1]
      BY DEF RunInv, Types, ThreadOK
    <3>2. arrived[1].at # Nobody => Contains(named, arrived[1].at)
      BY <1>1, <3>1 DEF RunInv, ArrivedInv, Contains
    <3>3. Contains(named, arrived[1].at) => Numbered(arrived[1].at)
      BY NumberedByName DEF RunInv, Types, ThreadOK
    <3> QED  BY <1>3, <3>1, <3>2, <3>3 DEF Nameable, FromADevice
  <2>3. Types'
    BY <1>1, <2>1 DEF RunInv, Types, ThreadOK, MachineOK, machine, Setup, Loop
  <2>4. ArrivedInv'
    BY <1>1, <2>1, <2>2 DEF ArrivedInv
  <2> QED  BY <1>1, <2>1, <2>3, <2>4, NothingNamed DEF RunInv
<1> QED  BY <1>2, <1>3

LEMMA RunStep == RunInv /\ [Next]_vars => RunInv'
<1> SUFFICES ASSUME RunInv, [Next]_vars PROVE RunInv'
  OBVIOUS
<1>1. CASE UNCHANGED vars
  <2>1. Types'
    BY <1>1 DEF vars, thread, machine, RunInv, Types, ThreadOK, MachineOK
  <2> QED  BY <1>1, <2>1, NothingPutDown DEF vars, thread
<1> QED  BY <1>1, RunOfTheMachine, RunTakes, RunAnswers, RunNumbers, RunDrains DEF Next, Turn

LEMMA NamedOnceAndFirst == RunInv => NamedFirst
<1> SUFFICES ASSUME RunInv PROVE NamedFirst
  OBVIOUS
<1>1. \A j \in 1..Len(stream) : Attributed(stream, j)
  BY DEF RunInv, StreamInv
<1>2. \A j \in 1..Len(stream) :
        \/ stream[j].at = Nobody /\ stream[j].device = 0
        \/ stream[j].device \in 1..Len(named) /\ stream[j].at = named[stream[j].device]
  BY <1>1 DEF Attributed, NoDevice
<1>3. ASSUME NEW i \in 1..Len(stream), stream[i].at # Nobody
      PROVE  \E j \in 1..i : stream[j] = Found(stream[i].at, stream[i].device)
  BY <1>1, <1>3 DEF Attributed, FoundIn
<1>4. ASSUME NEW i \in 1..Len(stream), stream[i].at # Nobody, NEW j \in 1..Len(stream)
      PROVE  stream[j].at = stream[i].at <=> stream[j].device = stream[i].device
  <2>1. stream[i].device \in 1..Len(named) /\ stream[i].at = named[stream[i].device]
    BY <1>2, <1>4
  <2> QED  BY <1>2, <1>4, <2>1 DEF RunInv, NumbersInv
<1>5. DOMAIN stream = 1..Len(stream)
  BY DEF RunInv, Types, ThreadOK
<1> QED  BY <1>3, <1>4, <1>5 DEF NamedFirst

-----------------------------------------------------------------------------
(* The answers the supervisor is owed.                                     *)

LEMMA ProbesAppended ==
  ASSUME NEW s \in Seq(Happening), NEW e \in Happening, e.kind # "Probe"
  PROVE  ProbesIn(s \o <<e>>) = ProbesIn(s)
<1> DEFINE t == s \o <<e>>
<1>1. /\ DOMAIN t = 1..(Len(s) + 1) /\ DOMAIN s = 1..Len(s) /\ Len(s) \in Nat
      /\ t[Len(s) + 1] = e /\ \A i \in 1..Len(s) : t[i] = s[i]
  OBVIOUS
<1> HIDE DEF t
<1>2. ProbesIn(t) = ProbesIn(s)
  BY <1>1 DEF ProbesIn
<1> QED  BY <1>2 DEF t

LEMMA ProbesAnswered ==
  ASSUME NEW s \in Seq(Happening), pipe \in Nat
  PROVE  Cardinality(ProbesIn(s \o TakeProbes)) = Cardinality(ProbesIn(s)) + pipe
<1> DEFINE u == TakeProbes  t == s \o u  more == Len(s) + 1..Len(s) + pipe
<1>1. u \in Seq(Happening) /\ Len(u) = pipe
  BY ProbesTaken
<1>2. \A k \in 1..pipe : u[k].kind = "Probe"
  BY DEF TakeProbes, Event, Probe
<1> HIDE DEF u
<1>3. /\ DOMAIN t = 1..(Len(s) + pipe) /\ DOMAIN s = 1..Len(s) /\ Len(s) \in Nat
      /\ \A i \in 1..Len(s) : t[i] = s[i]
  BY <1>1
<1>4. \A k \in 1..pipe : t[Len(s) + k] = u[k]
  BY <1>1
<1> HIDE DEF t
<1>5. \A i \in more : t[i].kind = "Probe"
  <2>1. ASSUME NEW i \in more PROVE t[i].kind = "Probe"
    <3>1. i - Len(s) \in 1..pipe /\ Len(s) + (i - Len(s)) = i
      BY <1>3
    <3>2. t[i] = u[i - Len(s)]
      BY <1>4, <3>1
    <3> QED  BY <1>2, <3>1, <3>2
  <2> QED  BY <2>1
<1>6. ProbesIn(t) = ProbesIn(s) \cup more
  <2>1. \A i \in 1..(Len(s) + pipe) : i \in 1..Len(s) \/ i \in more
    BY <1>3
  <2>2. \A i \in more : i \in 1..(Len(s) + pipe)
    BY <1>3
  <2>3. \A i \in 1..Len(s) : i \in 1..(Len(s) + pipe)
    BY <1>3
  <2> QED  BY <1>3, <1>5, <2>1, <2>2, <2>3 DEF ProbesIn
<1>7. IsFiniteSet(ProbesIn(s)) /\ Cardinality(ProbesIn(s)) \in Nat
  <2>1. ProbesIn(s) \subseteq 1..Len(s)
    BY <1>3 DEF ProbesIn
  <2>2. IsFiniteSet(1..Len(s))
    BY <1>3, FS_Interval
  <2>3. IsFiniteSet(ProbesIn(s))
    BY <2>1, <2>2, FS_Subset
  <2> QED  BY <2>3, FS_CardinalityType
<1>8. IsFiniteSet(more) /\ Cardinality(more) = pipe
  BY <1>3, FS_Interval
<1>9. ProbesIn(s) \cap more = {}
  BY <1>3 DEF ProbesIn
<1>10. Cardinality(ProbesIn(s) \cup more)
         = Cardinality(ProbesIn(s)) + Cardinality(more) - Cardinality(ProbesIn(s) \cap more)
  BY <1>7, <1>8, FS_Union
<1>11. Cardinality({}) = 0
  BY FS_EmptySet
<1>12. Cardinality(ProbesIn(t)) = Cardinality(ProbesIn(s)) + pipe
  <2> HIDE DEF more
  <2>1. Cardinality(ProbesIn(s)) + pipe - 0 = Cardinality(ProbesIn(s)) + pipe
    BY <1>7
  <2> QED  BY <1>6, <1>8, <1>9, <1>10, <1>11, <2>1
<1> QED  BY <1>12 DEF t, u

LEMMA AnswersStep == RunInv /\ AnswersOwed /\ [Next]_vars => AnswersOwed'
<1> SUFFICES ASSUME RunInv, AnswersOwed, [Next]_vars, ~gone' PROVE AnswersOwed'
  BY DEF AnswersOwed
<1>1. stream \in Seq(Happening) /\ pipe \in Nat /\ sent \in Nat
  BY DEF RunInv, Types, ThreadOK, MachineOK
<1>2. CASE UNCHANGED <<stream, pipe, sent, gone>>
  BY <1>2 DEF AnswersOwed, ProbesIn
<1>3. CASE SendAProbe
  <2>1. UNCHANGED <<stream, gone>> /\ pipe' = pipe + 1 /\ sent' = sent + 1
    BY <1>3 DEF SendAProbe
  <2>2. Cardinality(ProbesIn(stream)) + pipe = sent
    BY <2>1 DEF AnswersOwed
  <2>3. ProbesIn(stream)' = ProbesIn(stream)
    BY <2>1 DEF ProbesIn
  <2>4. Cardinality(ProbesIn(stream)) \in Nat
    <3>1. ProbesIn(stream) \subseteq 1..Len(stream)
      BY <1>1 DEF ProbesIn
    <3>2. IsFiniteSet(1..Len(stream))
      BY <1>1, FS_Interval
    <3>3. IsFiniteSet(ProbesIn(stream))
      BY <3>1, <3>2, FS_Subset
    <3> QED  BY <3>3, FS_CardinalityType
  <2>5. Cardinality(ProbesIn(stream)) + pipe' = sent'
    BY <1>1, <2>1, <2>2, <2>4
  <2> QED  BY <2>3, <2>5 DEF AnswersOwed
<1>4. CASE AnswerProbes
  <2>1. gone' = gone /\ sent' = sent
    BY <1>4 DEF AnswerProbes, machine
  <2>2. CASE message = Timer
    <3>1. stream' = stream \o TakeProbes /\ pipe' = 0
      BY <1>4, <2>1, <2>2 DEF AnswerProbes, Delivered
    <3>2. Cardinality(ProbesIn(stream')) = Cardinality(ProbesIn(stream)) + pipe
      BY <1>1, <3>1, ProbesAnswered
    <3>3. Cardinality(ProbesIn(stream)) + pipe = sent
      BY <2>1 DEF AnswersOwed
    <3>4. Cardinality(ProbesIn(stream')) + pipe' = sent'
      BY <1>1, <2>1, <3>1, <3>2, <3>3
    <3> QED  BY <3>4 DEF AnswersOwed, ProbesIn
  <2>3. CASE message # Timer
    BY <1>2, <1>4, <2>1, <2>3 DEF AnswerProbes
  <2> QED  BY <2>2, <2>3
<1>5. ASSUME NEW e \in Happening, e.kind # "Probe", Delivered(<<e>>), UNCHANGED <<pipe, sent, gone>>
      PROVE  AnswersOwed'
  <2>1. stream' = stream \o <<e>>
    BY <1>5 DEF Delivered
  <2>2. ProbesIn(stream') = ProbesIn(stream)
    BY <1>1, <1>5, <2>1, ProbesAppended
  <2>3. Cardinality(ProbesIn(stream')) + pipe' = sent'
    BY <1>5, <2>2 DEF AnswersOwed
  <2> QED  BY <2>3 DEF AnswersOwed, ProbesIn
<1>6. CASE RelayDevices
  <2>1. UNCHANGED <<pipe, sent, gone>>
    BY <1>6 DEF RelayDevices, machine
  <2>2. ASSUME NextDevice, ~Contains(named, Head(pending)) PROVE AnswersOwed'
    <3> DEFINE e == Found(Head(pending), Offer)
    <3>1. Delivered(<<e>>) /\ Head(pending) \in Handle
      BY <2>2 DEF NextDevice, RunInv, Types, ThreadOK
    <3>2. Offer \in Nat
      BY DEF Offer, RunInv, Types, ThreadOK
    <3>3. e \in Happening /\ e.kind # "Probe"
      BY <3>1, <3>2, NothingIsAMessage, HappeningsAreMade DEF Found
    <3> QED  BY <1>5, <2>1, <3>1, <3>3
  <2> QED  BY <1>2, <1>6, <2>1, <2>2 DEF RelayDevices, NextDevice
<1>7. CASE DrainArrivals
  <2>1. UNCHANGED <<pipe, sent, gone>>
    BY <1>7 DEF DrainArrivals, machine
  <2>2. ASSUME arrived # <<>>, Nameable(Head(arrived)) PROVE AnswersOwed'
    <3> DEFINE e == AsAnEvent(Head(arrived))
    <3>1. Delivered(<<e>>)
      BY <1>7, <2>2 DEF DrainArrivals
    <3>2. e \in Happening /\ e.kind \in Kinds
      BY <2>2, AnEvent DEF Message
    <3>3. e.kind # "Probe"
      BY <3>2 DEF Kinds
    <3> QED  BY <1>5, <2>1, <3>1, <3>2, <3>3
  <2> QED  BY <1>2, <1>7, <2>1, <2>2 DEF DrainArrivals
<1>8. CASE \/ StartReading \/ WillNotGo \/ TurnTheLoop \/ TakeWhatTheTurnProduced
           \/ NothingMoreToTurn \/ LetGoOfTheTurn
  <2>1. UNCHANGED <<stream, pipe, sent, gone>>
    BY <1>8 DEF StartReading, MakeAWindow, AskForTheMice, StartTheTimer, HookTheKeyboard,
        HookThePointer, Goes, WillNotGo, TurnTheLoop, TakeWhatTheTurnProduced,
        NothingMoreToTurn, LetGoOfTheTurn, machine
  <2> QED  BY <1>2, <2>1
<1>9. CASE Stroke \/ AskAtTheTray \/ Tick \/ RunGoes
           \/ \E m \in Mouse : PlugIn(m) \/ Unplug(m) \/ Moves(m)
  <2>1. UNCHANGED <<stream, pipe, sent, gone>>
    BY <1>9 DEF Stroke, AskAtTheTray, Tick, RunGoes, PlugIn, Unplug, Moves, Machine, machine
  <2> QED  BY <1>2, <2>1
<1>10. CASE UNCHANGED vars
  BY <1>2, <1>10 DEF vars, machine
<1> QED  BY <1>3, <1>4, <1>6, <1>7, <1>8, <1>9, <1>10 DEF Next, Turn

-----------------------------------------------------------------------------
(* The strokes.                                                            *)

StrokesIn(s) == {s[i].nth : i \in {i \in DOMAIN s : IsKey(s[i])}}
InOrder(s) ==
  \A i, j \in {i \in DOMAIN s : IsKey(s[i])} : i < j => s[i].nth < s[j].nth
Before(A, B) == \A a \in A, b \in B : a < b

LEMMA StrokesJoined ==
  ASSUME NEW S, NEW s \in Seq(S), NEW t \in Seq(S)
  PROVE  /\ StrokesIn(s \o t) = StrokesIn(s) \cup StrokesIn(t)
         /\ InOrder(s \o t) <=> /\ InOrder(s) /\ InOrder(t)
                                /\ Before(StrokesIn(s), StrokesIn(t))
<1> DEFINE r == s \o t  n == Len(s)  k == Len(t)
<1>1. n \in Nat /\ k \in Nat /\ DOMAIN s = 1..n /\ DOMAIN t = 1..k /\ DOMAIN r = 1..(n + k)
  OBVIOUS
<1>2. \A i \in 1..n : r[i] = s[i] /\ i \in 1..(n + k)
  OBVIOUS
<1>3. \A i \in 1..k : r[n + i] = t[i] /\ n + i \in 1..(n + k)
  OBVIOUS
<1> HIDE DEF r, n, k
<1>4. ASSUME NEW i \in 1..(n + k), i \notin 1..n PROVE i - n \in 1..k /\ n + (i - n) = i
  BY <1>1, <1>4
<1>5. \A i \in 1..(n + k) : i \notin 1..n => r[i] = t[i - n]
  BY <1>3, <1>4
<1>6. StrokesIn(r) = StrokesIn(s) \cup StrokesIn(t)
  <2>1. ASSUME NEW i \in 1..(n + k), IsKey(r[i])
        PROVE  r[i].nth \in StrokesIn(s) \cup StrokesIn(t)
    <3>1. CASE i \in 1..n
      BY <1>1, <1>2, <2>1, <3>1 DEF StrokesIn
    <3>2. CASE i \notin 1..n
      BY <1>1, <1>4, <1>5, <2>1, <3>2 DEF StrokesIn
    <3> QED  BY <3>1, <3>2
  <2>2. ASSUME NEW i \in 1..n, IsKey(s[i]) PROVE s[i].nth \in StrokesIn(r)
    BY <1>1, <1>2, <2>2 DEF StrokesIn
  <2>3. ASSUME NEW i \in 1..k, IsKey(t[i]) PROVE t[i].nth \in StrokesIn(r)
    BY <1>1, <1>3, <2>3 DEF StrokesIn
  <2>4. StrokesIn(r) \subseteq StrokesIn(s) \cup StrokesIn(t)
    BY <1>1, <2>1 DEF StrokesIn
  <2>5. StrokesIn(s) \subseteq StrokesIn(r) /\ StrokesIn(t) \subseteq StrokesIn(r)
    BY <1>1, <2>2, <2>3 DEF StrokesIn
  <2> QED  BY <2>4, <2>5
<1>7. ASSUME InOrder(r) PROVE InOrder(s) /\ InOrder(t) /\ Before(StrokesIn(s), StrokesIn(t))
  <2>1. InOrder(s)
    BY <1>1, <1>2, <1>7 DEF InOrder
  <2>2. InOrder(t)
    <3>1. ASSUME NEW i \in 1..k, NEW j \in 1..k, IsKey(t[i]), IsKey(t[j]), i < j
          PROVE  t[i].nth < t[j].nth
      <4>1. n + i < n + j
        BY <1>1, <3>1
      <4>2. n + i \in DOMAIN r /\ n + j \in DOMAIN r /\ r[n + i] = t[i] /\ r[n + j] = t[j]
        BY <1>1, <1>3
      <4> QED  BY <1>7, <3>1, <4>1, <4>2 DEF InOrder
    <3> QED  BY <1>1, <3>1 DEF InOrder
  <2>3. ASSUME NEW i \in 1..n, NEW j \in 1..k, IsKey(s[i]), IsKey(t[j])
        PROVE  s[i].nth < t[j].nth
    <3>1. i < n + j
      BY <1>1
    <3>2. i \in DOMAIN r /\ n + j \in DOMAIN r /\ r[i] = s[i] /\ r[n + j] = t[j]
      BY <1>1, <1>2, <1>3
    <3> QED  BY <1>7, <2>3, <3>1, <3>2 DEF InOrder
  <2> QED  BY <1>1, <2>1, <2>2, <2>3 DEF Before, StrokesIn
<1>8. ASSUME InOrder(s), InOrder(t), Before(StrokesIn(s), StrokesIn(t)) PROVE InOrder(r)
  <2> SUFFICES ASSUME NEW i \in 1..(n + k), NEW j \in 1..(n + k), IsKey(r[i]), IsKey(r[j]), i < j
               PROVE  r[i].nth < r[j].nth
    BY <1>1 DEF InOrder
  <2>1. CASE i \in 1..n /\ j \in 1..n
    BY <1>1, <1>2, <1>8, <2>1 DEF InOrder
  <2>2. CASE i \in 1..n /\ j \notin 1..n
    <3>1. r[i].nth \in StrokesIn(s)
      BY <1>1, <1>2, <2>2 DEF StrokesIn
    <3>2. r[j].nth \in StrokesIn(t)
      BY <1>1, <1>4, <1>5, <2>2 DEF StrokesIn
    <3> QED  BY <1>8, <3>1, <3>2 DEF Before
  <2>3. CASE i \notin 1..n /\ j \notin 1..n
    <3>1. i - n \in 1..k /\ j - n \in 1..k /\ i - n < j - n
      BY <1>1, <1>4, <2>3
    <3>2. r[i] = t[i - n] /\ r[j] = t[j - n]
      BY <1>5, <2>3
    <3> QED  BY <1>1, <1>8, <3>1, <3>2 DEF InOrder
  <2>4. i \notin 1..n => j \notin 1..n
    BY <1>1
  <2> QED  BY <2>1, <2>2, <2>3, <2>4
<1> QED  BY <1>6, <1>7, <1>8 DEF r

LEMMA OneStroke ==
  ASSUME NEW e
  PROVE  /\ StrokesIn(<<e>>) = IF IsKey(e) THEN {e.nth} ELSE {}
         /\ InOrder(<<e>>)
         /\ StrokesIn(<<>>) = {} /\ InOrder(<<>>)
<1> DEFINE s == <<e>>
<1>1. DOMAIN s = {1} /\ s[1] = e
  OBVIOUS
<1> HIDE DEF s
<1>2. StrokesIn(s) = (IF IsKey(e) THEN {e.nth} ELSE {}) /\ InOrder(s)
  <2>1. StrokesIn(s) = (IF IsKey(e) THEN {e.nth} ELSE {})
    BY <1>1 DEF StrokesIn
  <2>2. \A i, j \in DOMAIN s : ~(i < j)
    BY <1>1
  <2> QED  BY <2>1, <2>2 DEF InOrder
<1>3. StrokesIn(<<>>) = {} /\ InOrder(<<>>)
  BY DEF StrokesIn, InOrder
<1> QED  BY <1>2, <1>3 DEF s

(* The four a stroke passes through, the last first.                       *)
InHand == IF step = "Take" THEN <<message>> ELSE <<>>

OneAfterAnother(a, b, c, d) ==
  /\ InOrder(a) /\ InOrder(b) /\ InOrder(c) /\ InOrder(d)
  /\ Before(StrokesIn(a), StrokesIn(b)) /\ Before(StrokesIn(a), StrokesIn(c))
  /\ Before(StrokesIn(a), StrokesIn(d)) /\ Before(StrokesIn(b), StrokesIn(c))
  /\ Before(StrokesIn(b), StrokesIn(d)) /\ Before(StrokesIn(c), StrokesIn(d))
AllOf(a, b, c, d) == StrokesIn(a) \cup StrokesIn(b) \cup StrokesIn(c) \cup StrokesIn(d)

StrokesInv ==
  ~gone /\ step # "Ended" =>
    /\ AllOf(stream, arrived, InHand, posted) = (1..strokes) \ lost
    /\ OneAfterAnother(stream, arrived, InHand, posted)

LEMMA FourJoined ==
  ASSUME NEW S, NEW a \in Seq(S), NEW b \in Seq(S), NEW c \in Seq(S), NEW d \in Seq(S)
  PROVE  /\ StrokesIn(a \o b \o c \o d) = AllOf(a, b, c, d)
         /\ InOrder(a \o b \o c \o d) <=> OneAfterAnother(a, b, c, d)
<1>1. a \o b \in Seq(S) /\ (a \o b) \o c \in Seq(S)
  OBVIOUS
<1>2. /\ StrokesIn(a \o b) = StrokesIn(a) \cup StrokesIn(b)
      /\ InOrder(a \o b) <=> InOrder(a) /\ InOrder(b) /\ Before(StrokesIn(a), StrokesIn(b))
  BY StrokesJoined
<1>3. /\ StrokesIn((a \o b) \o c) = StrokesIn(a \o b) \cup StrokesIn(c)
      /\ InOrder((a \o b) \o c)
           <=> InOrder(a \o b) /\ InOrder(c) /\ Before(StrokesIn(a \o b), StrokesIn(c))
  BY <1>1, StrokesJoined
<1>4. /\ StrokesIn(((a \o b) \o c) \o d) = StrokesIn((a \o b) \o c) \cup StrokesIn(d)
      /\ InOrder(((a \o b) \o c) \o d)
           <=> /\ InOrder((a \o b) \o c) /\ InOrder(d)
               /\ Before(StrokesIn((a \o b) \o c), StrokesIn(d))
  BY <1>1, StrokesJoined
<1>5. \A A, B, C : Before(A \cup B, C) <=> Before(A, C) /\ Before(B, C)
  BY DEF Before
<1>6. StrokesIn(a \o b \o c \o d) = AllOf(a, b, c, d)
  BY <1>2, <1>3, <1>4 DEF AllOf
<1>7. Before(StrokesIn(a \o b), StrokesIn(c))
        <=> Before(StrokesIn(a), StrokesIn(c)) /\ Before(StrokesIn(b), StrokesIn(c))
  BY <1>2, <1>5
<1>8. Before(StrokesIn((a \o b) \o c), StrokesIn(d))
        <=> /\ Before(StrokesIn(a), StrokesIn(d)) /\ Before(StrokesIn(b), StrokesIn(d))
            /\ Before(StrokesIn(c), StrokesIn(d))
  <2>1. StrokesIn((a \o b) \o c) = (StrokesIn(a) \cup StrokesIn(b)) \cup StrokesIn(c)
    BY <1>2, <1>3
  <2> QED  BY <2>1 DEF Before
<1>9. InOrder(a \o b \o c \o d) <=> OneAfterAnother(a, b, c, d)
  BY <1>2, <1>3, <1>4, <1>7, <1>8 DEF OneAfterAnother
<1> QED  BY <1>6, <1>9

LEMMA WhatIsOnTheWay == RunInv => (StrokesInv <=> KeysInOrder)
<1> SUFFICES ASSUME RunInv PROVE StrokesInv <=> KeysInOrder
  OBVIOUS
<1> DEFINE Item == Happening \cup Message
<1>1. stream \in Seq(Item)
  BY DEF RunInv, Types, ThreadOK
<1>2. arrived \in Seq(Item) /\ posted \in Seq(Item)
  BY DEF RunInv, Types, ThreadOK, MachineOK
<1>3. InHand \in Seq(Item)
  <2>1. message \in Item
    BY DEF RunInv, Types, ThreadOK
  <2> HIDE DEF Item
  <2> QED  BY <2>1 DEF InHand
<1> HIDE DEF Item
<1>4. OnTheWay = stream \o arrived \o InHand \o posted
  BY DEF OnTheWay, InHand
<1>5. /\ StrokesIn(OnTheWay) = AllOf(stream, arrived, InHand, posted)
      /\ InOrder(OnTheWay) <=> OneAfterAnother(stream, arrived, InHand, posted)
  BY <1>1, <1>2, <1>3, <1>4, FourJoined
<1>6. KeysInOrder <=> (~gone /\ step # "Ended" =>
        StrokesIn(OnTheWay) = (1..strokes) \ lost /\ InOrder(OnTheWay))
  BY DEF KeysInOrder, StrokesIn, InOrder
<1> QED  BY <1>5, <1>6 DEF StrokesInv

LEMMA NoStrokes ==
  ASSUME NEW S, NEW s \in Seq(S), NEW t \in Seq(S), \A k \in 1..Len(t) : ~IsKey(t[k])
  PROVE  StrokesIn(s \o t) = StrokesIn(s) /\ (InOrder(s \o t) <=> InOrder(s))
<1>1. StrokesIn(t) = {} /\ InOrder(t)
  BY DEF StrokesIn, InOrder
<1>2. /\ StrokesIn(s \o t) = StrokesIn(s) \cup StrokesIn(t)
      /\ InOrder(s \o t) <=> InOrder(s) /\ InOrder(t) /\ Before(StrokesIn(s), StrokesIn(t))
  BY StrokesJoined
<1>3. Before(StrokesIn(s), {})
  BY DEF Before
<1> HIDE DEF StrokesIn, InOrder
<1> QED  BY <1>1, <1>2, <1>3

LEMMA StrokesSame ==
  ASSUME StrokesInv, UNCHANGED <<strokes, lost>>, ~gone, step # "Ended",
         AllOf(stream', arrived', InHand', posted') = AllOf(stream, arrived, InHand, posted),
         OneAfterAnother(stream, arrived, InHand, posted)
           => OneAfterAnother(stream', arrived', InHand', posted')
  PROVE  StrokesInv'
<1>1. AllOf(stream', arrived', InHand', posted') = (1..strokes') \ lost'
  BY DEF StrokesInv
<1>2. OneAfterAnother(stream', arrived', InHand', posted')
  BY DEF StrokesInv
<1>3. AllOf(stream, arrived, InHand, posted)' = AllOf(stream', arrived', InHand', posted')
  BY DEF AllOf, StrokesIn
<1>4. OneAfterAnother(stream, arrived, InHand, posted)'
        <=> OneAfterAnother(stream', arrived', InHand', posted')
  BY DEF OneAfterAnother, StrokesIn, InOrder, Before
<1> QED  BY <1>1, <1>2, <1>3, <1>4 DEF StrokesInv

(* The queues, while the loop waits: a stroke posted is the last there is, *)
(* and one there is no room for is lost and known to be.                   *)
LEMMA StrokesPosted ==
  ASSUME RunInv, StrokesInv, ~gone,
         \/ Stroke \/ AskAtTheTray \/ SendAProbe \/ Tick
         \/ \E m \in Mouse : PlugIn(m) \/ Unplug(m) \/ Moves(m)
  PROVE  StrokesInv'
<1>1. /\ step = "Wait" /\ step' = "Wait" /\ UNCHANGED <<stream, arrived, gone>>
      /\ InHand = <<>> /\ InHand' = <<>>
  BY DEF Stroke, AskAtTheTray, SendAProbe, Tick, PlugIn, Unplug, Moves, Machine, thread, InHand
<1>2. posted \in Seq(Message) /\ strokes \in Nat /\ lost \subseteq 1..strokes
  BY DEF RunInv, Types, MachineOK
<1>3. ASSUME NEW m \in Message, Post(m)
      PROVE  \/ Len(posted) < Room /\ posted' = posted \o <<m>>
             \/ ~(Len(posted) < Room) /\ posted' = posted
  <2>1. Append(posted, m) = posted \o <<m>>
    BY <1>2
  <2> QED  BY <1>3, <2>1 DEF Post
<1>4. ASSUME NEW m \in Message, Post(m), ~IsKey(m)
      PROVE  StrokesIn(posted') = StrokesIn(posted) /\ (InOrder(posted') <=> InOrder(posted))
  <2>1. <<m>> \in Seq(Message) /\ \A k \in 1..Len(<<m>>) : ~IsKey(<<m>>[k])
    BY <1>4
  <2>2. /\ StrokesIn(posted \o <<m>>) = StrokesIn(posted)
        /\ InOrder(posted \o <<m>>) <=> InOrder(posted)
    BY <1>2, <2>1, NoStrokes
  <2> QED  BY <1>3, <1>4, <2>2
<1>5. ASSUME StrokesIn(posted') = StrokesIn(posted), InOrder(posted') <=> InOrder(posted),
             UNCHANGED <<strokes, lost>>
      PROVE  StrokesInv'
  BY <1>1, <1>5, StrokesSame DEF AllOf, OneAfterAnother
<1>6. CASE Stroke
  <2> DEFINE n == strokes + 1
  <2>1. /\ strokes' = n /\ n \in Nat /\ n \notin 1..strokes /\ n \notin lost
        /\ \A k \in 1..strokes : k < n
        /\ 1..n = (1..strokes) \cup {n}
    BY <1>2, <1>6 DEF Stroke
  <2>2. Key(n) \in Message /\ StrokesIn(<<Key(n)>>) = {n} /\ InOrder(<<Key(n)>>)
    <3>1. 0 \in Handle
      BY DEF Handle
    <3>2. Key(n) \in Message /\ IsKey(Key(n)) /\ Key(n).nth = n
      BY <2>1, <3>1, MessagesAreMade DEF Key, IsKey
    <3> QED  BY <3>2, OneStroke
  <2>3. /\ AllOf(stream, arrived, InHand, posted) = (1..strokes) \ lost
        /\ OneAfterAnother(stream, arrived, InHand, posted)
    BY <1>1 DEF StrokesInv
  <2>4. Post(Key(n)) /\ lost' = IF Len(posted) < Room THEN lost ELSE lost \cup {n}
    BY <1>6 DEF Stroke
  <2> HIDE DEF n
  <2>5. CASE Len(posted) < Room
    <3>1. posted' = posted \o <<Key(n)>> /\ lost' = lost
      BY <1>3, <2>2, <2>4, <2>5
    <3>2. /\ StrokesIn(posted') = StrokesIn(posted) \cup {n}
          /\ InOrder(posted') <=> InOrder(posted) /\ Before(StrokesIn(posted), {n})
      <4>1. <<Key(n)>> \in Seq(Message)
        BY <2>2
      <4> DEFINE t == <<Key(n)>>
      <4>2. t \in Seq(Message) /\ posted' = posted \o t /\ StrokesIn(t) = {n} /\ InOrder(t)
        BY <2>2, <3>1, <4>1
      <4> HIDE DEF t
      <4>3. /\ StrokesIn(posted \o t) = StrokesIn(posted) \cup StrokesIn(t)
            /\ InOrder(posted \o t)
                 <=> InOrder(posted) /\ InOrder(t) /\ Before(StrokesIn(posted), StrokesIn(t))
        BY <1>2, <4>2, StrokesJoined
      <4> QED  BY <4>2, <4>3
    <3>3. \A A : A \subseteq 1..strokes => Before(A, {n})
      BY <2>1 DEF Before
    <3>4. \A A, B, C : Before(A, B \cup C) <=> Before(A, B) /\ Before(A, C)
      BY DEF Before
    <3>5. AllOf(stream, arrived, InHand, posted') = (1..strokes') \ lost'
      BY <2>1, <2>3, <3>1, <3>2 DEF AllOf
    <3>6. OneAfterAnother(stream, arrived, InHand, posted')
      <4>1. /\ Before(StrokesIn(stream), {n}) /\ Before(StrokesIn(arrived), {n})
            /\ Before(StrokesIn(InHand), {n}) /\ Before(StrokesIn(posted), {n})
        BY <2>3, <3>3 DEF AllOf
      <4> QED  BY <2>3, <3>2, <3>4, <4>1 DEF OneAfterAnother
    <3> QED  BY <1>1, <3>5, <3>6
             DEF StrokesInv, AllOf, OneAfterAnother, StrokesIn, InOrder, Before
  <2>6. CASE ~(Len(posted) < Room)
    <3>1. posted' = posted /\ lost' = lost \cup {n}
      BY <1>3, <2>2, <2>4, <2>6
    <3>2. (1..strokes') \ lost' = (1..strokes) \ lost
      BY <2>1, <3>1
    <3> QED  BY <1>1, <2>3, <3>1, <3>2
             DEF StrokesInv, AllOf, OneAfterAnother, StrokesIn, InOrder, Before
  <2> QED  BY <2>5, <2>6
<1>7. CASE SendAProbe \/ Tick \/ \E m \in Mouse : Moves(m)
  BY <1>5, <1>7 DEF SendAProbe, Tick, Moves, machine
<1>8. CASE AskAtTheTray
  <2>1. Asked(asks + 1) \in Message /\ ~IsKey(Asked(asks + 1))
    BY MessagesAreMade DEF RunInv, Types, MachineOK, Asked, IsKey
  <2> QED  BY <1>4, <1>5, <1>8, <2>1 DEF AskAtTheTray
<1>9. ASSUME NEW m \in Mouse, PlugIn(m) PROVE StrokesInv'
  <2>1. handles + 1 \in Handle
    BY <1>9 DEF PlugIn, RunInv, Types, MachineOK, Handle
  <2>2. Arrival(handles + 1) \in Message /\ ~IsKey(Arrival(handles + 1))
    BY <2>1, MessagesAreMade DEF Arrival, IsKey
  <2> QED  BY <1>4, <1>5, <1>9, <2>2 DEF PlugIn
<1>10. ASSUME NEW m \in Mouse, Unplug(m) PROVE StrokesInv'
  <2>1. Change(plugged[m], 0) \in Message /\ ~IsKey(Change(plugged[m], 0))
    BY MessagesAreMade DEF RunInv, Types, MachineOK, Change, IsKey
  <2> QED  BY <1>4, <1>5, <1>10, <2>1 DEF Unplug
<1> QED  BY <1>6, <1>7, <1>8, <1>9, <1>10

(* Off the queue into the hand: the first of those posted.                 *)
LEMMA StrokesTurned ==
  ASSUME RunInv, StrokesInv, ~gone, TurnTheLoop PROVE StrokesInv'
<1>1. /\ UNCHANGED <<strokes, lost, stream, arrived, gone>> /\ step = "Wait" /\ step' = "Take"
      /\ InHand = <<>> /\ InHand' = <<message'>>
  BY DEF TurnTheLoop, machine, InHand
<1>2. posted \in Seq(Message) /\ raw \in Seq(Message)
  BY DEF RunInv, Types, MachineOK
<1>3. /\ StrokesIn(<<message'>>) = IF IsKey(message') THEN {message'.nth} ELSE {}
      /\ InOrder(<<message'>>) /\ StrokesIn(<<>>) = {} /\ InOrder(<<>>)
  BY OneStroke
<1>4. CASE posted # <<>> /\ message' = Head(posted) /\ posted' = Tail(posted)
  <2> DEFINE a == <<message'>>  b == posted'
  <2>1. a \in Seq(Message) /\ b \in Seq(Message) /\ posted = a \o b
    BY <1>2, <1>4
  <2> HIDE DEF a, b
  <2>2. /\ StrokesIn(posted) = StrokesIn(a) \cup StrokesIn(b)
        /\ InOrder(posted) <=> InOrder(a) /\ InOrder(b) /\ Before(StrokesIn(a), StrokesIn(b))
    BY <2>1, StrokesJoined
  <2>3. \A A, B, C : Before(A, B \cup C) <=> Before(A, B) /\ Before(A, C)
    BY DEF Before
  <2>4. AllOf(stream, arrived, a, b) = AllOf(stream, arrived, <<>>, posted)
    BY <1>3, <2>2 DEF AllOf
  <2>5. OneAfterAnother(stream, arrived, <<>>, posted) => OneAfterAnother(stream, arrived, a, b)
    BY <2>2, <2>3 DEF OneAfterAnother
  <2>6. AllOf(stream', arrived', InHand', posted') = AllOf(stream, arrived, InHand, posted)
    BY <1>1, <2>4 DEF a, b
  <2>7. OneAfterAnother(stream, arrived, InHand, posted)
          => OneAfterAnother(stream', arrived', InHand', posted')
    BY <1>1, <2>5 DEF a, b
  <2> QED  BY <1>1, <2>6, <2>7, StrokesSame
<1>5. CASE posted' = posted /\ ~IsKey(message')
  <2>1. StrokesIn(InHand') = {} /\ InOrder(InHand')
    BY <1>1, <1>3, <1>5
  <2>2. AllOf(stream', arrived', InHand', posted') = AllOf(stream, arrived, InHand, posted)
    BY <1>1, <1>3, <1>5, <2>1 DEF AllOf
  <2>3. OneAfterAnother(stream, arrived, InHand, posted)
          => OneAfterAnother(stream', arrived', InHand', posted')
    BY <1>1, <1>3, <1>5, <2>1 DEF OneAfterAnother, Before
  <2> QED  BY <1>1, <2>2, <2>3, StrokesSame
<1>6. raw # <<>> => ~IsKey(Head(raw))
  <2>1. raw # <<>> => 1 \in 1..Len(raw) /\ Head(raw) = raw[1]
    BY <1>2
  <2> QED  BY <2>1 DEF RunInv, Types, MachineOK, IsKey
<1>7. ~IsKey(Timer)
  BY DEF IsKey, Timer
<1> QED  BY <1>4, <1>5, <1>6, <1>7 DEF TurnTheLoop

(* Out of the hand onto what was put down, after what is there.            *)
LEMMA StrokesTaken ==
  ASSUME RunInv, StrokesInv, ~gone, TakeWhatTheTurnProduced PROVE StrokesInv'
<1>1. /\ UNCHANGED <<strokes, lost, stream, posted, gone>> /\ step = "Take" /\ step' = "Answer"
      /\ InHand = <<message>> /\ InHand' = <<>>
  BY DEF TakeWhatTheTurnProduced, machine, InHand
<1>2. arrived \in Seq(Message) /\ message \in Message
  BY DEF RunInv, Types, ThreadOK
<1>3. /\ StrokesIn(<<message>>) = IF IsKey(message) THEN {message.nth} ELSE {}
      /\ InOrder(<<message>>) /\ StrokesIn(<<>>) = {} /\ InOrder(<<>>)
  BY OneStroke
<1> DEFINE c == <<message>>
<1>4. CASE arrived' = Append(arrived, message)
  <2>1. c \in Seq(Message) /\ arrived' = arrived \o c
    BY <1>2, <1>4
  <2> HIDE DEF c
  <2>2. /\ StrokesIn(arrived') = StrokesIn(arrived) \cup StrokesIn(c)
        /\ InOrder(arrived') <=> /\ InOrder(arrived) /\ InOrder(c)
                                /\ Before(StrokesIn(arrived), StrokesIn(c))
    BY <1>2, <2>1, StrokesJoined
  <2>3. AllOf(stream, arrived', <<>>, posted) = AllOf(stream, arrived, c, posted)
    BY <1>3, <2>2 DEF AllOf
  <2>4. OneAfterAnother(stream, arrived, c, posted)
          => OneAfterAnother(stream, arrived', <<>>, posted)
    BY <1>3, <2>2 DEF OneAfterAnother, Before
  <2>5. AllOf(stream', arrived', InHand', posted') = AllOf(stream, arrived, InHand, posted)
    BY <1>1, <2>3 DEF c
  <2>6. OneAfterAnother(stream, arrived, InHand, posted)
          => OneAfterAnother(stream', arrived', InHand', posted')
    BY <1>1, <2>4 DEF c
  <2> QED  BY <1>1, <2>5, <2>6, StrokesSame
<1>5. CASE arrived' = arrived /\ (Says(message) => message.kind = "Input")
  <2>1. StrokesIn(InHand) = {} /\ StrokesIn(InHand') = {} /\ InOrder(InHand')
    BY <1>1, <1>3, <1>5 DEF IsKey, Says
  <2>2. AllOf(stream', arrived', InHand', posted') = AllOf(stream, arrived, InHand, posted)
    BY <1>1, <1>5, <2>1 DEF AllOf
  <2>3. OneAfterAnother(stream, arrived, InHand, posted)
          => OneAfterAnother(stream', arrived', InHand', posted')
    BY <1>1, <1>5, <2>1 DEF OneAfterAnother, Before
  <2> QED  BY <1>1, <2>2, <2>3, StrokesSame
<1> QED  BY <1>4, <1>5 DEF TakeWhatTheTurnProduced

(* What is put on the stream that is no stroke, with nothing in hand.      *)
LEMMA NoStrokeDelivered ==
  ASSUME RunInv, StrokesInv, ~gone, UNCHANGED <<strokes, lost, arrived, posted>>,
         step # "Ended", InHand' = InHand,
         NEW events \in Seq(Happening), \A k \in 1..Len(events) : ~IsKey(events[k]),
         Delivered(events)
  PROVE  StrokesInv'
<1>1. stream \in Seq(Happening) /\ stream' = stream \o events
  BY DEF RunInv, Types, ThreadOK, Delivered
<1>2. StrokesIn(stream') = StrokesIn(stream) /\ (InOrder(stream') <=> InOrder(stream))
  BY <1>1, NoStrokes
<1>3. AllOf(stream', arrived', InHand', posted') = AllOf(stream, arrived, InHand, posted)
  BY <1>2 DEF AllOf
<1>4. OneAfterAnother(stream, arrived, InHand, posted)
        => OneAfterAnother(stream', arrived', InHand', posted')
  BY <1>2 DEF OneAfterAnother
<1> QED  BY <1>3, <1>4, StrokesSame

LEMMA NothingOfStrokes ==
  ASSUME StrokesInv, UNCHANGED <<strokes, lost, stream, arrived, posted>>, ~gone, step # "Ended",
         InHand' = InHand
  PROVE  StrokesInv'
<1>1. AllOf(stream', arrived', InHand', posted') = AllOf(stream, arrived, InHand, posted)
  BY DEF AllOf
<1>2. OneAfterAnother(stream, arrived, InHand, posted)
        => OneAfterAnother(stream', arrived', InHand', posted')
  BY DEF OneAfterAnother
<1> QED  BY <1>1, <1>2, StrokesSame

(* Off what was put down onto the stream, the first of it first.           *)
LEMMA StrokesDrained ==
  ASSUME RunInv, StrokesInv, ~gone, DrainArrivals PROVE StrokesInv'
<1>1. /\ UNCHANGED <<strokes, lost, posted, gone>> /\ step = "Drain" /\ step' # "Take"
      /\ InHand = <<>> /\ InHand' = <<>>
  BY DEF DrainArrivals, machine, InHand
<1>2. CASE arrived # <<>> /\ Nameable(Head(arrived))
  <2> DEFINE m == <<Head(arrived)>>  e == <<AsAnEvent(Head(arrived))>>
  <2>1. arrived' = Tail(arrived) /\ Delivered(e)
    BY <1>2 DEF DrainArrivals
  <2>2. AsAnEvent(Head(arrived)) \in Happening /\ StrokesIn(e) = StrokesIn(m) /\ InOrder(e)
    <3>1. /\ AsAnEvent(Head(arrived)) \in Happening
          /\ IsKey(AsAnEvent(Head(arrived))) <=> IsKey(Head(arrived))
          /\ AsAnEvent(Head(arrived)).nth = Head(arrived).nth
      BY <1>2, AnEvent DEF IsKey
    <3> QED  BY <3>1, OneStroke
  <2>3. e \in Seq(Happening) /\ stream' = stream \o e /\ stream \in Seq(Happening)
    BY <2>1, <2>2 DEF Delivered, RunInv, Types, ThreadOK
  <2>4. arrived \in Seq(Message)
    BY DEF RunInv, Types, ThreadOK
  <2>5. m \in Seq(Message) /\ arrived' \in Seq(Message) /\ arrived = m \o arrived'
    BY <1>2, <2>1, <2>4
  <2> HIDE DEF m, e
  <2>6. /\ StrokesIn(stream') = StrokesIn(stream) \cup StrokesIn(m)
        /\ InOrder(stream') <=> InOrder(stream) /\ Before(StrokesIn(stream), StrokesIn(m))
    BY <2>2, <2>3, StrokesJoined
  <2>7. /\ StrokesIn(arrived) = StrokesIn(m) \cup StrokesIn(arrived')
        /\ InOrder(arrived) <=> /\ InOrder(m) /\ InOrder(arrived')
                               /\ Before(StrokesIn(m), StrokesIn(arrived'))
    BY <2>5, StrokesJoined
  <2>8. \A A, B, C : /\ Before(A, B \cup C) <=> Before(A, B) /\ Before(A, C)
                     /\ Before(A \cup B, C) <=> Before(A, C) /\ Before(B, C)
    BY DEF Before
  <2>9. AllOf(stream', arrived', <<>>, posted) = AllOf(stream, arrived, <<>>, posted)
    BY <2>6, <2>7 DEF AllOf
  <2>10. OneAfterAnother(stream, arrived, <<>>, posted)
           => OneAfterAnother(stream', arrived', <<>>, posted)
    <3> SUFFICES ASSUME OneAfterAnother(stream, arrived, <<>>, posted)
                 PROVE  OneAfterAnother(stream', arrived', <<>>, posted)
      OBVIOUS
    <3> DEFINE S == StrokesIn(stream)  M == StrokesIn(m)  A == StrokesIn(arrived')
               D == StrokesIn(posted)
    <3>1. /\ InOrder(stream) /\ InOrder(m) /\ InOrder(arrived') /\ Before(M, A)
          /\ Before(S, M \cup A) /\ Before(S, D) /\ Before(M \cup A, D)
          /\ InOrder(<<>>) /\ InOrder(posted) /\ StrokesIn(<<>>) = {}
      BY <2>7, OneStroke DEF OneAfterAnother
    <3>2. /\ Before(S, M) /\ Before(S, A) /\ Before(M, D) /\ Before(A, D)
          /\ Before(S \cup M, A) /\ Before(S \cup M, D)
          /\ \A X : Before(X, {}) /\ Before({}, X)
      BY <3>1 DEF Before
    <3>3. StrokesIn(stream') = S \cup M /\ InOrder(stream')
      BY <2>6, <3>1, <3>2
    <3> HIDE DEF S, M
    <3> QED  BY <3>1, <3>2, <3>3 DEF OneAfterAnother
  <2>11. AllOf(stream', arrived', InHand', posted') = AllOf(stream, arrived, InHand, posted)
    BY <1>1, <2>9
  <2>12. OneAfterAnother(stream, arrived, InHand, posted)
           => OneAfterAnother(stream', arrived', InHand', posted')
    BY <1>1, <2>10
  <2> QED  BY <1>1, <2>11, <2>12, StrokesSame
<1>3. CASE UNCHANGED <<arrived, stream>>
  BY <1>1, <1>3, NothingOfStrokes
<1> QED  BY <1>2, <1>3 DEF DrainArrivals

LEMMA StrokesStep == RunInv /\ StrokesInv /\ [Next]_vars => StrokesInv'
<1> SUFFICES ASSUME RunInv, StrokesInv, [Next]_vars, ~gone', step' # "Ended" PROVE StrokesInv'
  BY DEF StrokesInv
<1>1. CASE \/ Stroke \/ AskAtTheTray \/ SendAProbe \/ Tick
           \/ \E m \in Mouse : PlugIn(m) \/ Unplug(m) \/ Moves(m)
  <2>1. gone' = gone
    BY <1>1 DEF Stroke, AskAtTheTray, SendAProbe, Tick, PlugIn, Unplug, Moves, Machine
  <2> QED  BY <1>1, <2>1, StrokesPosted
<1>2. CASE TurnTheLoop \/ TakeWhatTheTurnProduced \/ DrainArrivals
  <2>1. gone' = gone
    BY <1>2 DEF TurnTheLoop, TakeWhatTheTurnProduced, DrainArrivals
  <2> QED  BY <1>2, <2>1, StrokesTurned, StrokesTaken, StrokesDrained
<1>3. CASE StartReading \/ NothingMoreToTurn \/ LetGoOfTheTurn
  <2>1. /\ UNCHANGED <<strokes, lost, stream, arrived, posted, gone>>
        /\ step \notin {"Take", "Ended"} /\ step' # "Take"
    BY <1>3 DEF StartReading, MakeAWindow, AskForTheMice, StartTheTimer, HookTheKeyboard,
        HookThePointer, Goes, NothingMoreToTurn, LetGoOfTheTurn, Over, machine
  <2>2. InHand' = InHand
    BY <2>1 DEF InHand
  <2> QED  BY <2>1, <2>2, NothingOfStrokes
<1>4. CASE AnswerProbes
  <2>1. /\ UNCHANGED <<strokes, lost, arrived, posted, gone>> /\ step = "Answer"
        /\ InHand' = InHand
    BY <1>4 DEF AnswerProbes, machine, InHand
  <2>2. CASE Delivered(TakeProbes)
    <3> DEFINE u == TakeProbes
    <3>1. u \in Seq(Happening) /\ Len(u) = pipe
      BY ProbesTaken DEF RunInv, Types, MachineOK
    <3>2. \A k \in 1..pipe : ~IsKey(u[k])
      BY DEF TakeProbes, Event, Probe, IsKey
    <3> HIDE DEF u
    <3>3. Delivered(u) /\ \A k \in 1..Len(u) : ~IsKey(u[k])
      BY <2>2, <3>1, <3>2 DEF u
    <3> QED  BY <2>1, <3>1, <3>3, NoStrokeDelivered
  <2>3. CASE UNCHANGED stream
    BY <2>1, <2>3, NothingOfStrokes
  <2> QED  BY <1>4, <2>2, <2>3 DEF AnswerProbes
<1>5. CASE RelayDevices
  <2>1. /\ UNCHANGED <<strokes, lost, arrived, posted, gone>> /\ step = "Number"
        /\ InHand' = InHand
    BY <1>5 DEF RelayDevices, NextDevice, machine, InHand
  <2>2. ASSUME NextDevice, ~Contains(named, Head(pending)) PROVE StrokesInv'
    <3> DEFINE e == Found(Head(pending), Offer)  u == <<e>>
    <3>1. Delivered(u) /\ Head(pending) \in Handle
      BY <2>2 DEF NextDevice, RunInv, Types, ThreadOK
    <3>2. Offer \in Nat
      BY DEF Offer, RunInv, Types, ThreadOK
    <3>3. e \in Happening /\ ~IsKey(e)
      BY <3>1, <3>2, NothingIsAMessage, HappeningsAreMade DEF Found, IsKey
    <3> HIDE DEF e
    <3>4. u \in Seq(Happening) /\ \A k \in 1..Len(u) : ~IsKey(u[k])
      BY <3>3
    <3> HIDE DEF u
    <3> QED  BY <2>1, <3>1, <3>4, NoStrokeDelivered
  <2>3. CASE UNCHANGED stream
    BY <2>1, <2>3, NothingOfStrokes
  <2> QED  BY <1>5, <2>2, <2>3 DEF RelayDevices, NextDevice
<1>6. CASE WillNotGo \/ RunGoes
  BY <1>6 DEF WillNotGo, Over, RunGoes
<1>7. CASE UNCHANGED vars
  <2>1. UNCHANGED <<strokes, lost, stream, arrived, posted, gone, step, message>>
    BY <1>7 DEF vars, thread, machine
  <2>2. InHand' = InHand
    BY <2>1 DEF InHand
  <2> QED  BY <2>1, <2>2, NothingOfStrokes
<1> QED  BY <1>1, <1>2, <1>3, <1>4, <1>5, <1>6, <1>7 DEF Next, Turn

-----------------------------------------------------------------------------
(* What happened reaches the run, and all of it: no stroke the queue took  *)
(* is lost, doubled or overtaken; what a device said comes after it was    *)
(* found and under its own number alone; the supervisor is owed as many    *)
(* answers as it asked for; and nothing put down is left for a later turn. *)
THEOREM NothingIsLostOnTheWay == Spec => []HandedOn
<1> DEFINE Inv == HooksInv /\ RunInv /\ StrokesInv /\ AnswersOwed
<1>1. Init => Inv
  <2> SUFFICES ASSUME Init PROVE StrokesInv /\ AnswersOwed
    BY HooksAtFirst, RunAtFirst
  <2>1. /\ stream = <<>> /\ arrived = <<>> /\ InHand = <<>> /\ posted = <<>>
        /\ strokes = 0 /\ lost = {} /\ pipe = 0 /\ sent = 0
    BY DEF Init, InHand
  <2>2. StrokesIn(<<>>) = {} /\ InOrder(<<>>)
    BY OneStroke
  <2>3. StrokesInv
    BY <2>1, <2>2 DEF StrokesInv, AllOf, OneAfterAnother, Before
  <2>4. ProbesIn(stream) = {}
    BY <2>1 DEF ProbesIn
  <2>5. Cardinality(ProbesIn(stream)) = 0
    BY <2>4, FS_EmptySet
  <2> QED  BY <2>1, <2>3, <2>5 DEF AnswersOwed
<1>2. Inv /\ [Next]_vars => Inv'
  BY HooksStep, RunStep, StrokesStep, AnswersStep
<1>3. Inv => HandedOn
  <2> SUFFICES ASSUME HooksInv, RunInv, StrokesInv, AnswersOwed PROVE HandedOn
    OBVIOUS
  <2>1. KeysInOrder /\ NamedFirst
    BY WhatIsOnTheWay, NamedOnceAndFirst
  <2>2. step = "Wait" => arrived = <<>> /\ pending = <<>>
    BY DEF RunInv, ArrivedInv
  <2>3. TypeOK
    <3>1. \A h \in ToSet(pending) : h \in 0..Handles
      BY DEF RunInv, Types, ThreadOK, Handle, ToSet
    <3>2. \A d \in ToSet(devices) : d.at \in 0..Handles /\ d.id \in 1..Len(devices)
      <4>1. devices = [n \in 1..Len(named) |-> [at |-> named[n], id |-> n]]
            /\ named \in Seq(0..Handles)
        BY DEF RunInv, NumbersInv, Types, ThreadOK, Handle
      <4>2. Len(devices) = Len(named) /\ DOMAIN devices = 1..Len(named)
        BY <4>1
      <4> QED  BY <4>1, <4>2 DEF ToSet
    <3>3. \A e \in ToSet(stream) : e.device \in 0..Len(named)
      BY DEF RunInv, StreamInv, Attributed, NoDevice, Types, ThreadOK, ToSet
    <3>4. hooks \subseteq {"Keyboard", "Pointer"}
      BY DEF HooksInv
    <3> QED  BY <3>1, <3>2, <3>3, <3>4 DEF TypeOK, RunInv, Types, ThreadOK
  <2> QED  BY <2>1, <2>2, <2>3 DEF HandedOn
<1> QED  BY <1>1, <1>2, <1>3, PTL DEF Spec

-----------------------------------------------------------------------------
(* Counting up, and a sequence made by appending.                          *)

(* Some numbers have a least.                                              *)
LEMMA LeastOfSome ==
  ASSUME NEW T \in SUBSET Nat, T # {}
  PROVE  \E n \in T : \A m \in T : n <= m
<1>1. PICK n \in T : \A m \in T : ~(<<m, n>> \in OpToRel(<, Nat))
  <2>1. IsWellFoundedOn(OpToRel(<, Nat), Nat)
    BY NatLessThanWellFounded
  <2> QED  BY <2>1, WFMin
<1>2. \A m \in T : ~(m < n)
  BY <1>1 DEF OpToRel
<1> QED  BY <1>2

(* What holds of the first and of whatever follows one it holds of, in a   *)
(* run of numbers, holds of all of them: P is the set of those it does.    *)
LEMMA CountUp ==
  ASSUME NEW N \in Nat, NEW P \in SUBSET (0..N), 0 \in P,
         \A n \in 1..N : n - 1 \in P => n \in P
  PROVE  \A n \in 0..N : n \in P
<1> DEFINE missing == {n \in Nat : n \in 0..N /\ n \notin P}
<1> SUFFICES ASSUME missing # {} PROVE FALSE
  OBVIOUS
<1>1. PICK n \in missing : \A k \in missing : n <= k
  <2>1. missing \in SUBSET Nat
    OBVIOUS
  <2> HIDE DEF missing
  <2> QED  BY <2>1, LeastOfSome
<1>2. n # 0 /\ n \in 0..N /\ n \notin P
  BY <1>1
<1>3. n \in 1..N /\ n - 1 \in 0..N /\ n - 1 \in Nat /\ ~(n <= n - 1)
  BY <1>2
<1>4. n - 1 \in P
  BY <1>1, <1>3
<1> QED  BY <1>2, <1>3, <1>4

(* A set of sequences that has the empty one, and with each one all it     *)
(* becomes by one more, has them all.                                      *)
LEMMA ByAppending ==
  ASSUME NEW R, NEW G, <<>> \in G, \A s \in Seq(R), r \in R : s \in G => Append(s, r) \in G
  PROVE  \A s \in Seq(R) : s \in G
<1> SUFFICES ASSUME NEW s \in Seq(R) PROVE s \in G
  OBVIOUS
<1> DEFINE P == {n \in 0..Len(s) : SubSeq(s, 1, n) \in G}
<1>1. 0 \in P
  <2>1. SubSeq(s, 1, 0) = <<>> /\ 0 \in 0..Len(s)
    OBVIOUS
  <2> QED  BY <2>1
<1>2. ASSUME NEW n \in 1..Len(s), n - 1 \in P PROVE n \in P
  <2>1. SubSeq(s, 1, n) = Append(SubSeq(s, 1, n - 1), s[n])
    OBVIOUS
  <2>2. SubSeq(s, 1, n - 1) \in Seq(R) /\ s[n] \in R /\ n \in 0..Len(s)
    OBVIOUS
  <2>3. SubSeq(s, 1, n) \in G
    BY <1>2, <2>1, <2>2
  <2> QED  BY <2>2, <2>3
<1>3. Len(s) \in P
  <2> HIDE DEF P
  <2>1. P \in SUBSET (0..Len(s)) /\ Len(s) \in Nat /\ Len(s) \in 0..Len(s)
    BY DEF P
  <2>2. \A n \in 0..Len(s) : n \in P
    BY <1>1, <1>2, <2>1, CountUp
  <2> QED  BY <2>1, <2>2
<1>4. SubSeq(s, 1, Len(s)) = s
  OBVIOUS
<1> QED  BY <1>3, <1>4

(* A step for each number there is takes a value through them all.         *)
StepsOf(S, start, N, F) == start \in S /\ N \in Nat /\ F \in [1..N -> [S -> S]]
Walks(S, start, N, F) ==
  \E f \in [0..N -> S] : f[0] = start /\ \A n \in 1..N : f[n] = F[n][f[n - 1]]

LEMMA Steps ==
  ASSUME NEW S, NEW start, NEW N, NEW F, StepsOf(S, start, N, F)
  PROVE  Walks(S, start, N, F)
<1> start \in S /\ N \in Nat /\ F \in [1..N -> [S -> S]]
  BY DEF StepsOf
<1> DEFINE Is(m, f) == f[0] = start /\ \A n \in 1..m : f[n] = F[n][f[n - 1]]
           P == {m \in 0..N : \E f \in [0..m -> S] : Is(m, f)}
<1>1. 0 \in P
  <2> DEFINE f == [n \in 0..0 |-> start]
  <2>1. f \in [0..0 -> S] /\ Is(0, f) /\ 0 \in 0..N
    OBVIOUS
  <2> HIDE DEF f
  <2> QED  BY <2>1
<1>2. ASSUME NEW m \in 1..N, m - 1 \in P PROVE m \in P
  <2>1. PICK f \in [0..m - 1 -> S] : Is(m - 1, f)
    BY <1>2
  <2> DEFINE g == [n \in 0..m |-> IF n = m THEN F[m][f[m - 1]] ELSE f[n]]
  <2>2. g \in [0..m -> S]
    <3>1. F[m][f[m - 1]] \in S
      <4>1. m - 1 \in 0..m - 1 /\ f[m - 1] \in S /\ F[m] \in [S -> S]
        OBVIOUS
      <4> QED  BY <4>1
    <3>2. \A n \in 0..m : n # m => n \in 0..m - 1
      OBVIOUS
    <3> QED  BY <3>1, <3>2
  <2>3. Is(m, g)
    <3>1. g[0] = start
      BY <2>1
    <3>2. ASSUME NEW n \in 1..m PROVE g[n] = F[n][g[n - 1]]
      <4>1. n - 1 \in 0..m /\ n - 1 # m /\ g[n - 1] = f[n - 1]
        OBVIOUS
      <4>2. CASE n = m
        BY <4>1, <4>2
      <4>3. CASE n # m
        <5>1. n \in 1..m - 1 /\ n \in 0..m
          BY <4>3
        <5> QED  BY <2>1, <4>1, <4>3, <5>1
      <4> QED  BY <4>2, <4>3
    <3> QED  BY <3>1, <3>2
  <2> HIDE DEF g, Is
  <2> QED  BY <2>2, <2>3
<1>3. N \in P
  <2> HIDE DEF P
  <2>1. P \in SUBSET (0..N) /\ N \in 0..N
    BY DEF P
  <2>2. \A n \in 0..N : n \in P
    BY <1>1, <1>2, <2>1, CountUp
  <2> QED  BY <2>1, <2>2
<1> QED  BY <1>3 DEF Walks

(* And two that start together and stay together are together throughout.  *)
KeepUp(f, g, N) ==
  N \in Nat /\ f[0] = g[0] /\ \A n \in 1..N : f[n - 1] = g[n - 1] => f[n] = g[n]
Agree(f, g, N) == \A n \in 0..N : f[n] = g[n]

LEMMA Together ==
  ASSUME NEW f, NEW g, NEW N, KeepUp(f, g, N)
  PROVE  Agree(f, g, N)
<1> N \in Nat /\ f[0] = g[0] /\ \A n \in 1..N : f[n - 1] = g[n - 1] => f[n] = g[n]
  BY DEF KeepUp
<1> DEFINE P == {n \in 0..N : f[n] = g[n]}
<1>1. 0 \in P /\ \A n \in 1..N : n - 1 \in P => n \in P
  OBVIOUS
<1>2. \A n \in 0..N : n \in P
  <2> HIDE DEF P
  <2>1. P \in SUBSET (0..N)
    BY DEF P
  <2> QED  BY <1>1, <2>1, CountUp
<1> QED  BY <1>2 DEF Agree

-----------------------------------------------------------------------------
(* Adding up.                                                              *)

LEMMA SummingIs ==
  ASSUME NEW s \in Seq(Int)
  PROVE  /\ Summing(s) \in [0..Len(s) -> Int]
         /\ Summing(s)[0] = 0
         /\ \A n \in 1..Len(s) : Summing(s)[n] = Summing(s)[n - 1] + s[n]
<1> DEFINE Rec(g) == g = [n \in 0..Len(s) |-> IF n = 0 THEN 0 ELSE g[n - 1] + s[n]]
           F == [n \in 1..Len(s) |-> [v \in Int |-> v + s[n]]]
<1>1. F \in [1..Len(s) -> [Int -> Int]] /\ 0 \in Int /\ Len(s) \in Nat
  OBVIOUS
<1>2. PICK f \in [0..Len(s) -> Int] :
        f[0] = 0 /\ \A n \in 1..Len(s) : n - 1 \in 0..Len(s) /\ f[n] = f[n - 1] + s[n]
  <2>1. PICK f \in [0..Len(s) -> Int] :
          f[0] = 0 /\ \A n \in 1..Len(s) : f[n] = F[n][f[n - 1]]
    <3> HIDE DEF F
    <3>1. StepsOf(Int, 0, Len(s), F)
      BY <1>1 DEF StepsOf
    <3>2. Walks(Int, 0, Len(s), F)
      BY <3>1, Steps
    <3> QED  BY <3>2 DEF Walks
  <2>2. ASSUME NEW n \in 1..Len(s) PROVE n - 1 \in 0..Len(s) /\ f[n] = f[n - 1] + s[n]
    <3>1. n - 1 \in 0..Len(s) /\ f[n - 1] \in Int
      OBVIOUS
    <3> QED  BY <2>1, <3>1
  <2> QED  BY <2>1, <2>2
<1>3. Rec(f)
  <2>1. ASSUME NEW n \in 0..Len(s) PROVE f[n] = IF n = 0 THEN 0 ELSE f[n - 1] + s[n]
    <3>1. n = 0 \/ (n \in 1..Len(s) /\ n - 1 \in 0..Len(s))
      OBVIOUS
    <3> QED  BY <1>2, <3>1
  <2> QED  BY <1>2, <2>1
<1>4. Rec(Summing(s))
  <2>1. Summing(s) = CHOOSE g : Rec(g)
    BY DEF Summing
  <2> HIDE DEF Rec
  <2> QED  BY <1>3, <2>1
<1> DEFINE h == Summing(s)
<1>5. h = [n \in 0..Len(s) |-> IF n = 0 THEN 0 ELSE h[n - 1] + s[n]]
  BY <1>4
<1> HIDE DEF h
<1>6. h[0] = 0 /\ \A n \in 1..Len(s) : n \in 0..Len(s) /\ h[n] = h[n - 1] + s[n]
  <2>1. 0 \in 0..Len(s) /\ \A n \in 1..Len(s) : n \in 0..Len(s) /\ n # 0
    OBVIOUS
  <2> QED  BY <1>5, <2>1
<1>7. \A n \in 1..Len(s) : h[n - 1] = f[n - 1] => h[n] = f[n]
  BY <1>2, <1>6
<1>8. KeepUp(h, f, Len(s))
  BY <1>1, <1>2, <1>6, <1>7 DEF KeepUp
<1>9. \A n \in 0..Len(s) : h[n] = f[n]
  BY <1>8, Together DEF Agree
<1> QED  BY <1>5, <1>6, <1>9 DEF h

LEMMA SumOn ==
  /\ SumUp(<<>>) = 0
  /\ \A s \in Seq(Int), d \in Int : SumUp(s) \in Int /\ SumUp(Append(s, d)) = SumUp(s) + d
<1>1. SumUp(<<>>) = 0
  <2>1. <<>> \in Seq(Int) /\ Len(<<>>) = 0
    OBVIOUS
  <2> QED  BY <2>1, SummingIs DEF SumUp
<1>2. ASSUME NEW s \in Seq(Int), NEW d \in Int
      PROVE  SumUp(s) \in Int /\ SumUp(Append(s, d)) = SumUp(s) + d
  <2> DEFINE t == Append(s, d)
  <2>1. t \in Seq(Int) /\ Len(t) = Len(s) + 1 /\ t[Len(s) + 1] = d /\ Len(s) \in Nat
    OBVIOUS
  <2>2. \A n \in 1..Len(s) : t[n] = s[n] /\ n \in 1..Len(t)
    OBVIOUS
  <2> HIDE DEF t
  <2>3. \A n \in 0..Len(s) : Summing(s)[n] = Summing(t)[n]
    <3>2. Summing(s)[0] = Summing(t)[0]
      BY <2>1, SummingIs
    <3>1. \A n \in 1..Len(s) :
            Summing(s)[n - 1] = Summing(t)[n - 1] => Summing(s)[n] = Summing(t)[n]
      BY <2>1, <2>2, SummingIs
    <3>3. KeepUp(Summing(s), Summing(t), Len(s))
      BY <2>1, <3>1, <3>2 DEF KeepUp
    <3> QED  BY <3>3, Together DEF Agree
  <2>4. Summing(t)[Len(s) + 1] = Summing(t)[Len(s)] + d
    <3>1. Len(s) + 1 \in 1..Len(t) /\ (Len(s) + 1) - 1 = Len(s)
      BY <2>1
    <3> QED  BY <2>1, <3>1, SummingIs
  <2>5. Len(s) \in 0..Len(s) /\ Summing(s)[Len(s)] \in Int
    BY SummingIs
  <2>6. SumUp(s) \in Int /\ SumUp(t) = SumUp(s) + d
    BY <2>1, <2>3, <2>4, <2>5 DEF SumUp
  <2> QED  BY <2>6 DEF t
<1> QED  BY <1>1, <1>2

-----------------------------------------------------------------------------
(* What a wheel has turned.                                                *)

LEMMA ClicksAndRest ==
  ASSUME NEW a \in Int
  PROVE  /\ Clicks(a) \in Int /\ Kept(a) \in Int
         /\ a = WHEEL_DELTA * Clicks(a) + Kept(a)
         /\ Size(Kept(a)) < WHEEL_DELTA
         /\ IF a >= 0 THEN Kept(a) >= 0 ELSE Kept(a) <= 0
<1>1. CASE a >= 0
  BY <1>1 DEF Clicks, Kept, WHEEL_DELTA, Size
<1>2. CASE a < 0
  <2>1. -a \in Nat /\ (-a) \div 120 \in Int /\ (-a) % 120 \in 0..119
    BY <1>2
  <2>2. -a = (120 * ((-a) \div 120)) + ((-a) % 120)
    BY <1>2
  <2> QED  BY <1>2, <2>1, <2>2 DEF Clicks, Kept, WHEEL_DELTA, Size
<1> QED  BY <1>1, <1>2

-----------------------------------------------------------------------------
(* What the reports of a mouse may be, and those the machines make.        *)

Wheel == {"vertical", "horizontal"}
IsAMouseReport(mouse) ==
  /\ mouse.absolute \in BOOLEAN
  /\ mouse.down \in SUBSET Buttons /\ mouse.up \in SUBSET Buttons
  /\ mouse.dx \in Int /\ mouse.dy \in Int
  /\ mouse.data \in Nat /\ mouse.data < 65536
  /\ \A wheel \in Wheel : Size(TurnOf(wheel, mouse)) <= 127 * WHEEL_DELTA
Said == [motion : [Axis -> Int], buttons : SUBSET Buttons]
Told ==
  [pointing : [buttons : SUBSET Buttons, vertical : Int, horizontal : Int],
   last : SUBSET Buttons, out : Seq(Said)]
Sending == [buttons : SUBSET Buttons, out : Seq(Said)]

LEMMA MotionTyped ==
  ASSUME NEW dx \in Int, NEW dy \in Int, NEW v \in Int, NEW h \in Int
  PROVE  /\ Motion(dx, dy, v, h) \in [Axis -> Int]
         /\ Motion(dx, dy, v, h)["dx"] = dx
         /\ Motion(dx, dy, v, h)["dy"] = dy
         /\ Motion(dx, dy, v, h)["vertical_wheel"] = v
         /\ Motion(dx, dy, v, h)["horizontal_wheel"] = h
  BY DEF Motion, Axis

LEMMA TurnTyped ==
  ASSUME NEW mouse, IsAMouseReport(mouse)
  PROVE  \A wheel \in Wheel : TurnOf(wheel, mouse) \in Int
<1>1. mouse.data \in Nat
  BY DEF IsAMouseReport
<1>2. AsI16(mouse.data) \in Int
  BY <1>1 DEF AsI16
<1> QED  BY <1>2 DEF TurnOf

LEMMA ReportTyped ==
  ASSUME NEW p \in [buttons : SUBSET Buttons, vertical : Int, horizontal : Int],
         NEW mouse, IsAMouseReport(mouse)
  PROVE  /\ Report(p, mouse).pointing \in [buttons : SUBSET Buttons, vertical : Int, horizontal : Int]
         /\ Report(p, mouse).report \in Said
         /\ \A wheel \in Wheel : TurnOf(wheel, mouse) \in Int
<1>1. \A wheel \in Wheel : TurnOf(wheel, mouse) \in Int
  BY TurnTyped
<1>2. "vertical" \in Wheel /\ "horizontal" \in Wheel
  BY DEF Wheel
<1> DEFINE v == p.vertical + TurnOf("vertical", mouse)
           h == p.horizontal + TurnOf("horizontal", mouse)
           dx == IF mouse.absolute THEN 0 ELSE mouse.dx
           dy == IF mouse.absolute THEN 0 ELSE mouse.dy
           b == Transitions(p.buttons, mouse)
<1>3. v \in Int /\ h \in Int
  BY <1>1, <1>2
<1>4. dx \in Int /\ dy \in Int /\ b \in SUBSET Buttons
  <2>1. mouse.dx \in Int /\ mouse.dy \in Int /\ mouse.down \in SUBSET Buttons
    BY DEF IsAMouseReport
  <2>2. dx \in Int /\ dy \in Int
    BY <2>1
  <2>3. b \in SUBSET Buttons
    BY <2>1 DEF Transitions
  <2> QED  BY <2>2, <2>3
<1>5. Report(p, mouse) =
        [pointing |-> [buttons |-> b, vertical |-> Kept(v), horizontal |-> Kept(h)],
         report |-> [motion |-> Motion(dx, dy, Clicks(v), Clicks(h)), buttons |-> b]]
  BY DEF Report, Reported
<1> HIDE DEF v, h, dx, dy, b
<1>6. Motion(dx, dy, Clicks(v), Clicks(h)) \in [Axis -> Int] /\ Kept(v) \in Int /\ Kept(h) \in Int
  BY <1>3, <1>4, ClicksAndRest, MotionTyped
<1> QED  BY <1>1, <1>4, <1>5, <1>6 DEF Said

LEMMA RelayTyped ==
  /\ Unplugged \in Told
  /\ \A told \in Told : \A mouse : IsAMouseReport(mouse) => Relay(told, mouse) \in Told
<1>1. Unplugged \in Told
  BY DEF Unplugged, AtRest, Told
<1>2. ASSUME NEW told \in Told, NEW mouse, IsAMouseReport(mouse) PROVE Relay(told, mouse) \in Told
  <2>1. told.pointing \in [buttons : SUBSET Buttons, vertical : Int, horizontal : Int]
    BY DEF Told
  <2> DEFINE made == Report(told.pointing, mouse)
  <2>2. /\ made.pointing \in [buttons : SUBSET Buttons, vertical : Int, horizontal : Int]
        /\ made.report \in Said
    BY <1>2, <2>1, ReportTyped
  <2>3. Relay(told, mouse) =
          [pointing |-> made.pointing, last |-> made.report.buttons,
           out |-> told.out \o (IF News(made.report, told.last) THEN <<made.report>> ELSE <<>>)]
    BY DEF Relay
  <2> HIDE DEF made
  <2>4. told.out \in Seq(Said) /\ made.report.buttons \in SUBSET Buttons
    BY <2>2 DEF Told, Said
  <2>5. told.out \o (IF News(made.report, told.last) THEN <<made.report>> ELSE <<>>) \in Seq(Said)
    BY <2>2, <2>4
  <2> QED  BY <2>2, <2>3, <2>4, <2>5 DEF Told
<1> QED  BY <1>1, <1>2

(* What the output is sent is a report, and what it remembers the buttons. *)
LEMMA InjectTyped ==
  ASSUME NEW inverted
  PROVE  /\ Fresh \in Sending
         /\ \A state \in Sending, said \in Said : Inject(inverted, state, said) \in Sending
<1>1. Fresh \in Sending
  BY DEF Fresh, Sending
<1>2. ASSUME NEW state \in Sending, NEW said \in Said
      PROVE  Inject(inverted, state, said) \in Sending
  <2> DEFINE tuned == Reported(Apply(inverted, said.motion), said.buttons)
  <2>1. tuned \in Said
    BY DEF Said, Reported, Apply
  <2>2. PointingReport(tuned) \in Said
    BY <2>1 DEF Said, PointingReport, Reported, Saturate, Clamped
  <2>3. Inject(inverted, state, said) =
          IF News(tuned, state.buttons)
          THEN [buttons |-> tuned.buttons, out |-> Append(state.out, PointingReport(tuned))]
          ELSE state
    BY DEF Inject
  <2> HIDE DEF tuned
  <2>4. state.out \in Seq(Said) /\ tuned.buttons \in SUBSET Buttons
    BY <2>1 DEF Said, Sending
  <2>5. Append(state.out, PointingReport(tuned)) \in Seq(Said)
    BY <2>2, <2>4
  <2> QED  BY <2>3, <2>4, <2>5 DEF Sending
<1> QED  BY <1>1, <1>2

LEMMA RelayingIs ==
  ASSUME NEW R, \A m \in R : IsAMouseReport(m), NEW s \in Seq(R)
  PROVE  /\ Relaying(s) \in [0..Len(s) -> Told]
         /\ Relaying(s)[0] = Unplugged
         /\ \A n \in 1..Len(s) : Relaying(s)[n] = Relay(Relaying(s)[n - 1], s[n])
<1> DEFINE Rec(g) == g = [n \in 0..Len(s) |-> IF n = 0 THEN Unplugged ELSE Relay(g[n - 1], s[n])]
           F == [n \in 1..Len(s) |-> [v \in Told |-> Relay(v, s[n])]]
<1>1. Len(s) \in Nat /\ Unplugged \in Told
  BY RelayTyped
<1>2. F \in [1..Len(s) -> [Told -> Told]]
  <2>1. \A n \in 1..Len(s) : s[n] \in R
    OBVIOUS
  <2> QED  BY <2>1, RelayTyped
<1>3. PICK f \in [0..Len(s) -> Told] :
        f[0] = Unplugged /\ \A n \in 1..Len(s) : n - 1 \in 0..Len(s) /\ f[n] = Relay(f[n - 1], s[n])
  <2>1. PICK f \in [0..Len(s) -> Told] :
          f[0] = Unplugged /\ \A n \in 1..Len(s) : f[n] = F[n][f[n - 1]]
    <3> HIDE DEF F
    <3>1. StepsOf(Told, Unplugged, Len(s), F)
      BY <1>1, <1>2 DEF StepsOf
    <3>2. Walks(Told, Unplugged, Len(s), F)
      BY <3>1, Steps
    <3> QED  BY <3>2 DEF Walks
  <2>2. ASSUME NEW n \in 1..Len(s)
        PROVE  n - 1 \in 0..Len(s) /\ f[n] = Relay(f[n - 1], s[n])
    <3>1. n - 1 \in 0..Len(s) /\ f[n - 1] \in Told
      OBVIOUS
    <3> QED  BY <2>1, <3>1
  <2> QED  BY <2>1, <2>2
<1>4. Rec(f)
  <2>1. ASSUME NEW n \in 0..Len(s) PROVE f[n] = IF n = 0 THEN Unplugged ELSE Relay(f[n - 1], s[n])
    <3>1. n = 0 \/ n \in 1..Len(s)
      OBVIOUS
    <3> QED  BY <1>3, <3>1
  <2> QED  BY <2>1
<1>5. Rec(Relaying(s))
  <2>1. Relaying(s) = CHOOSE g : Rec(g)
    BY DEF Relaying
  <2> HIDE DEF Rec
  <2> QED  BY <1>4, <2>1
<1> DEFINE h == Relaying(s)
<1>6. h = [n \in 0..Len(s) |-> IF n = 0 THEN Unplugged ELSE Relay(h[n - 1], s[n])]
  BY <1>5
<1> HIDE DEF h
<1>7. h[0] = Unplugged /\ \A n \in 1..Len(s) : h[n] = Relay(h[n - 1], s[n])
  <2>1. 0 \in 0..Len(s) /\ \A n \in 1..Len(s) : n \in 0..Len(s) /\ n # 0
    OBVIOUS
  <2> QED  BY <1>6, <2>1
<1>8. KeepUp(h, f, Len(s))
  BY <1>1, <1>3, <1>7 DEF KeepUp
<1>9. \A n \in 0..Len(s) : h[n] = f[n]
  BY <1>8, Together DEF Agree
<1> QED  BY <1>6, <1>7, <1>9 DEF h

LEMMA RelayOn ==
  ASSUME NEW R, \A m \in R : IsAMouseReport(m), NEW s \in Seq(R), NEW r \in R
  PROVE  /\ Relaying(<<>>)[0] = Unplugged
         /\ Relaying(s)[Len(s)] \in Told
         /\ Relaying(Append(s, r))[Len(s) + 1] = Relay(Relaying(s)[Len(s)], r)
<1> DEFINE t == Append(s, r)
<1>1. t \in Seq(R) /\ Len(t) = Len(s) + 1 /\ t[Len(s) + 1] = r /\ Len(s) \in 0..Len(s)
  OBVIOUS
<1>2. \A n \in 1..Len(s) : t[n] = s[n] /\ n \in 1..Len(t)
  OBVIOUS
<1>3. <<>> \in Seq(R) /\ Len(s) \in Nat
  OBVIOUS
<1> HIDE DEF t
<1>4. KeepUp(Relaying(s), Relaying(t), Len(s))
  <2>1. Relaying(s)[0] = Relaying(t)[0]
    BY <1>1, RelayingIs
  <2>2. \A n \in 1..Len(s) :
          Relaying(s)[n - 1] = Relaying(t)[n - 1] => Relaying(s)[n] = Relaying(t)[n]
    BY <1>1, <1>2, RelayingIs
  <2> QED  BY <1>3, <2>1, <2>2 DEF KeepUp
<1>5. Relaying(s)[Len(s)] = Relaying(t)[Len(s)]
  BY <1>1, <1>4, Together DEF Agree
<1>6. Relaying(t)[Len(s) + 1] = Relay(Relaying(t)[Len(s)], r)
  <2>1. Len(s) + 1 \in 1..Len(t) /\ (Len(s) + 1) - 1 = Len(s)
    BY <1>1, <1>3
  <2> QED  BY <1>1, <2>1, RelayingIs
<1>7. Relaying(s)[Len(s)] \in Told
  BY <1>1, RelayingIs
<1>8. Relaying(<<>>)[0] = Unplugged
  BY <1>3, RelayingIs
<1> QED  BY <1>5, <1>6, <1>7, <1>8 DEF t

LEMMA InjectingIs ==
  ASSUME NEW s \in Seq(Said), NEW inverted
  PROVE  /\ Injecting(inverted, s) \in [0..Len(s) -> Sending]
         /\ Injecting(inverted, s)[0] = Fresh
         /\ \A n \in 1..Len(s) : Injecting(inverted, s)[n] = Inject(inverted, Injecting(inverted, s)[n - 1], s[n])
<1> DEFINE Rec(g) == g = [n \in 0..Len(s) |-> IF n = 0 THEN Fresh ELSE Inject(inverted, g[n - 1], s[n])]
           F == [n \in 1..Len(s) |-> [v \in Sending |-> Inject(inverted, v, s[n])]]
<1>1. Len(s) \in Nat /\ Fresh \in Sending
  BY InjectTyped
<1>2. F \in [1..Len(s) -> [Sending -> Sending]]
  <2>1. \A n \in 1..Len(s) : s[n] \in Said
    OBVIOUS
  <2> QED  BY <2>1, InjectTyped
<1>3. PICK f \in [0..Len(s) -> Sending] :
        f[0] = Fresh /\ \A n \in 1..Len(s) : n - 1 \in 0..Len(s) /\ f[n] = Inject(inverted, f[n - 1], s[n])
  <2>1. PICK f \in [0..Len(s) -> Sending] :
          f[0] = Fresh /\ \A n \in 1..Len(s) : f[n] = F[n][f[n - 1]]
    <3> HIDE DEF F
    <3>1. StepsOf(Sending, Fresh, Len(s), F)
      BY <1>1, <1>2 DEF StepsOf
    <3>2. Walks(Sending, Fresh, Len(s), F)
      BY <3>1, Steps
    <3> QED  BY <3>2 DEF Walks
  <2>2. ASSUME NEW n \in 1..Len(s)
        PROVE  n - 1 \in 0..Len(s) /\ f[n] = Inject(inverted, f[n - 1], s[n])
    <3>1. n - 1 \in 0..Len(s) /\ f[n - 1] \in Sending
      OBVIOUS
    <3> QED  BY <2>1, <3>1
  <2> QED  BY <2>1, <2>2
<1>4. Rec(f)
  <2>1. ASSUME NEW n \in 0..Len(s) PROVE f[n] = IF n = 0 THEN Fresh ELSE Inject(inverted, f[n - 1], s[n])
    <3>1. n = 0 \/ n \in 1..Len(s)
      OBVIOUS
    <3> QED  BY <1>3, <3>1
  <2> QED  BY <2>1
<1>5. Rec(Injecting(inverted, s))
  <2>1. Injecting(inverted, s) = CHOOSE g : Rec(g)
    BY DEF Injecting
  <2> HIDE DEF Rec
  <2> QED  BY <1>4, <2>1
<1> DEFINE h == Injecting(inverted, s)
<1>6. h = [n \in 0..Len(s) |-> IF n = 0 THEN Fresh ELSE Inject(inverted, h[n - 1], s[n])]
  BY <1>5
<1> HIDE DEF h
<1>7. h[0] = Fresh /\ \A n \in 1..Len(s) : h[n] = Inject(inverted, h[n - 1], s[n])
  <2>1. 0 \in 0..Len(s) /\ \A n \in 1..Len(s) : n \in 0..Len(s) /\ n # 0
    OBVIOUS
  <2> QED  BY <1>6, <2>1
<1>8. KeepUp(h, f, Len(s))
  BY <1>1, <1>3, <1>7 DEF KeepUp
<1>9. \A n \in 0..Len(s) : h[n] = f[n]
  BY <1>8, Together DEF Agree
<1> QED  BY <1>6, <1>7, <1>9 DEF h

LEMMA InjectOn ==
  ASSUME NEW s \in Seq(Said), NEW r \in Said, NEW inverted
  PROVE  /\ Injecting(inverted, <<>>)[0] = Fresh
         /\ Injecting(inverted, s)[Len(s)] \in Sending
         /\ Injecting(inverted, Append(s, r))[Len(s) + 1] = Inject(inverted, Injecting(inverted, s)[Len(s)], r)
<1> DEFINE t == Append(s, r)
<1>1. t \in Seq(Said) /\ Len(t) = Len(s) + 1 /\ t[Len(s) + 1] = r /\ Len(s) \in 0..Len(s)
  OBVIOUS
<1>2. \A n \in 1..Len(s) : t[n] = s[n] /\ n \in 1..Len(t)
  OBVIOUS
<1>3. <<>> \in Seq(Said) /\ Len(s) \in Nat
  OBVIOUS
<1> HIDE DEF t
<1>4. KeepUp(Injecting(inverted, s), Injecting(inverted, t), Len(s))
  <2>1. Injecting(inverted, s)[0] = Injecting(inverted, t)[0]
    BY <1>1, InjectingIs
  <2>2. \A n \in 1..Len(s) :
          Injecting(inverted, s)[n - 1] = Injecting(inverted, t)[n - 1] => Injecting(inverted, s)[n] = Injecting(inverted, t)[n]
    BY <1>1, <1>2, InjectingIs
  <2> QED  BY <1>3, <2>1, <2>2 DEF KeepUp
<1>5. Injecting(inverted, s)[Len(s)] = Injecting(inverted, t)[Len(s)]
  BY <1>1, <1>4, Together DEF Agree
<1>6. Injecting(inverted, t)[Len(s) + 1] = Inject(inverted, Injecting(inverted, t)[Len(s)], r)
  <2>1. Len(s) + 1 \in 1..Len(t) /\ (Len(s) + 1) - 1 = Len(s)
    BY <1>1, <1>3
  <2> QED  BY <1>1, <2>1, InjectingIs
<1>7. Injecting(inverted, s)[Len(s)] \in Sending
  BY <1>1, InjectingIs
<1>8. Injecting(inverted, <<>>)[0] = Fresh
  BY <1>3, InjectingIs
<1> QED  BY <1>5, <1>6, <1>7, <1>8 DEF t

-----------------------------------------------------------------------------
(* One report more, at each of the places it is counted.                   *)

LEMMA HeldOn ==
  ASSUME NEW R, NEW s \in Seq(R), NEW r \in R, r.down \subseteq Buttons
  PROVE  /\ Held(<<>>) = {}
         /\ Held(s) \in SUBSET Buttons
         /\ Held(Append(s, r)) = Transitions(Held(s), r)
<1>1. Held(<<>>) = {}
  BY DEF Held, Downs
<1>2. Held(Append(s, r)) \subseteq Transitions(Held(s), r)
  <2> DEFINE t == Append(s, r)
  <2>1. /\ DOMAIN t = 1..Len(s) + 1 /\ DOMAIN s = 1..Len(s) /\ t[Len(s) + 1] = r
        /\ Len(s) \in Nat /\ \A i \in 1..Len(s) : t[i] = s[i]
    OBVIOUS
  <2> HIDE DEF t
  <2>2. SUFFICES ASSUME NEW b \in Held(t) PROVE b \in Transitions(Held(s), r)
    BY DEF t
  <2>3. PICK i \in 1..Len(s) + 1 : b \in t[i].down /\ \A j \in Ups(t, b) : j < i
    BY <2>1, <2>2 DEF Held, Downs
  <2>4. b \in Buttons /\ b \notin r.up
    <3>1. b \in r.up => Len(s) + 1 \in Ups(t, b)
      BY <2>1 DEF Ups
    <3> QED  BY <2>1, <2>2, <2>3, <3>1 DEF Held
  <2>5. CASE i = Len(s) + 1
    BY <2>1, <2>3, <2>4, <2>5 DEF Transitions
  <2>6. CASE i # Len(s) + 1
    <3>1. i \in 1..Len(s) /\ i \in Downs(s, b)
      BY <2>1, <2>3, <2>6 DEF Downs
    <3>2. \A j \in Ups(s, b) : j \in Ups(t, b)
      BY <2>1 DEF Ups
    <3>3. b \in Held(s)
      BY <2>3, <2>4, <3>1, <3>2 DEF Held
    <3> QED  BY <2>4, <3>3 DEF Transitions
  <2> QED  BY <2>5, <2>6
<1>3. Transitions(Held(s), r) \subseteq Held(Append(s, r))
  <2> DEFINE t == Append(s, r)
  <2>1. /\ DOMAIN t = 1..Len(s) + 1 /\ DOMAIN s = 1..Len(s) /\ t[Len(s) + 1] = r
        /\ Len(s) \in Nat /\ \A i \in 1..Len(s) : t[i] = s[i]
    OBVIOUS
  <2> HIDE DEF t
  <2>2. SUFFICES ASSUME NEW b \in Transitions(Held(s), r) PROVE b \in Held(t)
    BY DEF t
  <2>3. b \notin r.up /\ b \in Buttons /\ (b \in Held(s) \/ b \in r.down)
    BY <2>2 DEF Transitions, Held
  <2>4. \A j \in Ups(t, b) : j \in Ups(s, b) /\ j \in 1..Len(s)
    <3> SUFFICES ASSUME NEW j \in Ups(t, b) PROVE j \in Ups(s, b) /\ j \in 1..Len(s)
      OBVIOUS
    <3>1. j \in 1..Len(s) + 1 /\ b \in t[j].up
      BY <2>1 DEF Ups
    <3>2. j \in 1..Len(s)
      BY <2>1, <2>3, <3>1
    <3> QED  BY <2>1, <3>1, <3>2 DEF Ups
  <2>5. CASE b \in Held(s)
    <3>1. PICK i \in Downs(s, b) : \A j \in Ups(s, b) : j < i
      BY <2>5 DEF Held
    <3>2. i \in Downs(t, b)
      BY <2>1 DEF Downs
    <3> QED  BY <2>3, <2>4, <3>1, <3>2 DEF Held
  <2>6. CASE b \in r.down
    <3>1. Len(s) + 1 \in Downs(t, b)
      BY <2>1, <2>6 DEF Downs
    <3>2. \A j \in Ups(t, b) : j < Len(s) + 1
      BY <2>1, <2>4
    <3> QED  BY <2>3, <3>1, <3>2 DEF Held
  <2> QED  BY <2>3, <2>5, <2>6
<1>4. Held(s) \in SUBSET Buttons
  BY DEF Held
<1> QED  BY <1>1, <1>2, <1>3, <1>4

(* The sum of what f makes of each.                                        *)
Along(f, s) == [i \in DOMAIN s |-> f[s[i]]]

LEMMA SaturateTyped == \A n \in Int : Saturate(n) \in Int /\ (Saturate(n) = 0 <=> n = 0)
  BY DEF Saturate, Clamped

LEMMA SumAlong ==
  ASSUME NEW R, NEW f \in [R -> Int], NEW s \in Seq(R), NEW r \in R
  PROVE  /\ SumUp(Along(f, <<>>)) = 0
         /\ SumUp(Along(f, s)) \in Int
         /\ SumUp(Along(f, Append(s, r))) = SumUp(Along(f, s)) + f[r]
<1>1. Along(f, <<>>) = <<>>
  BY DEF Along
<1>2. Along(f, s) \in Seq(Int) /\ f[r] \in Int
  <2>1. \A i \in 1..Len(s) : s[i] \in R
    OBVIOUS
  <2>2. \A i \in 1..Len(s) : f[s[i]] \in Int
    BY <2>1
  <2>3. Along(f, s) = [i \in 1..Len(s) |-> f[s[i]]] /\ Len(s) \in Nat
    BY DEF Along
  <2>4. Along(f, s) \in [1..Len(s) -> Int]
    BY <2>2, <2>3
  <2> QED  BY <2>3, <2>4
<1>3. Along(f, Append(s, r)) = Append(Along(f, s), f[r])
  <2> DEFINE t == Append(s, r)
  <2>1. DOMAIN t = 1..Len(s) + 1 /\ DOMAIN s = 1..Len(s) /\ Len(s) \in Nat
    OBVIOUS
  <2>2. \A i \in 1..Len(s) + 1 : t[i] = IF i = Len(s) + 1 THEN r ELSE s[i]
    OBVIOUS
  <2> HIDE DEF t
  <2>3. Along(f, t) = [i \in 1..Len(s) + 1 |-> f[t[i]]]
    BY <2>1 DEF Along
  <2>4. Len(Along(f, s)) = Len(s) /\ \A i \in 1..Len(s) : Along(f, s)[i] = f[s[i]]
    BY <2>1 DEF Along
  <2>5. Append(Along(f, s), f[r]) =
          [i \in 1..Len(s) + 1 |-> IF i = Len(s) + 1 THEN f[r] ELSE Along(f, s)[i]]
    BY <1>2, <2>4
  <2>6. \A i \in 1..Len(s) + 1 :
          f[t[i]] = IF i = Len(s) + 1 THEN f[r] ELSE Along(f, s)[i]
    <3>1. \A i \in 1..Len(s) + 1 : i # Len(s) + 1 => i \in 1..Len(s)
      BY <2>1
    <3> QED  BY <2>2, <2>4, <3>1
  <2>7. Along(f, t) = Append(Along(f, s), f[r])
    BY <2>3, <2>5, <2>6
  <2> QED  BY <2>7 DEF t
<1> QED  BY <1>1, <1>2, <1>3, SumOn

LEMMA TravelledOn ==
  ASSUME NEW axis \in Axis, NEW out \in Seq(Said), NEW x \in Said
  PROVE  /\ Travelled(<<>>, axis) = 0
         /\ Travelled(out, axis) \in Int
         /\ Travelled(Append(out, x), axis) = Travelled(out, axis) + x.motion[axis]
<1> DEFINE f == [said \in Said |-> said.motion[axis]]
<1>1. f \in [Said -> Int] /\ f[x] = x.motion[axis]
  BY DEF Said
<1>2. \A o \in Seq(Said) : Travelled(o, axis) = SumUp(Along(f, o))
  <2> SUFFICES ASSUME NEW o \in Seq(Said) PROVE Travelled(o, axis) = SumUp(Along(f, o))
    OBVIOUS
  <2>1. \A i \in DOMAIN o : o[i] \in Said /\ f[o[i]] = o[i].motion[axis]
    OBVIOUS
  <2> HIDE DEF f
  <2>2. Along(f, o) = [i \in DOMAIN o |-> o[i].motion[axis]]
    BY <2>1 DEF Along
  <2> QED  BY <2>2 DEF Travelled
<1>3. <<>> \in Seq(Said) /\ Append(out, x) \in Seq(Said)
  OBVIOUS
<1> HIDE DEF f
<1>4. /\ SumUp(Along(f, <<>>)) = 0
      /\ SumUp(Along(f, out)) \in Int
      /\ SumUp(Along(f, Append(out, x))) = SumUp(Along(f, out)) + f[x]
  BY <1>1, SumAlong
<1> QED  BY <1>1, <1>2, <1>3, <1>4

LEMMA TurnedOn ==
  ASSUME NEW R, \A m \in R : IsAMouseReport(m), NEW wheel \in Wheel, NEW s \in Seq(R), NEW r \in R
  PROVE  /\ Turned(<<>>, wheel) = 0
         /\ Turned(s, wheel) \in Int
         /\ Turned(Append(s, r), wheel) = Turned(s, wheel) + TurnOf(wheel, r)
<1> DEFINE f == [m \in R |-> TurnOf(wheel, m)]
<1>1. f \in [R -> Int] /\ f[r] = TurnOf(wheel, r)
  BY TurnTyped
<1>2. \A o \in Seq(R) : Turned(o, wheel) = SumUp(Along(f, o))
  <2> SUFFICES ASSUME NEW o \in Seq(R) PROVE Turned(o, wheel) = SumUp(Along(f, o))
    OBVIOUS
  <2>1. \A i \in DOMAIN o : o[i] \in R /\ f[o[i]] = TurnOf(wheel, o[i])
    OBVIOUS
  <2> HIDE DEF f
  <2>2. Along(f, o) = [i \in DOMAIN o |-> TurnOf(wheel, o[i])]
    BY <2>1 DEF Along
  <2> QED  BY <2>2 DEF Turned
<1>3. <<>> \in Seq(R) /\ Append(s, r) \in Seq(R)
  OBVIOUS
<1> HIDE DEF f
<1>4. /\ SumUp(Along(f, <<>>)) = 0
      /\ SumUp(Along(f, s)) \in Int
      /\ SumUp(Along(f, Append(s, r))) = SumUp(Along(f, s)) + f[r]
  BY <1>1, SumAlong
<1> QED  BY <1>1, <1>2, <1>3, <1>4

LEMMA MovedOn ==
  ASSUME NEW R, \A m \in R : IsAMouseReport(m), NEW s \in Seq(R), NEW r \in R
  PROVE  /\ Moved(<<>>) = 0
         /\ Moved(s) \in Int
         /\ Moved(Append(s, r)) = Moved(s) + (IF r.absolute THEN 0 ELSE Saturate(r.dx))
<1> DEFINE f == [m \in R |-> (IF m.absolute THEN 0 ELSE Saturate(m.dx))]
<1>1. f \in [R -> Int] /\ f[r] = (IF r.absolute THEN 0 ELSE Saturate(r.dx))
  BY SaturateTyped DEF IsAMouseReport
<1>2. \A o \in Seq(R) : Moved(o) = SumUp(Along(f, o))
  <2> SUFFICES ASSUME NEW o \in Seq(R) PROVE Moved(o) = SumUp(Along(f, o))
    OBVIOUS
  <2>1. \A i \in DOMAIN o : o[i] \in R /\ f[o[i]] = (IF o[i].absolute THEN 0 ELSE Saturate(o[i].dx))
    OBVIOUS
  <2> HIDE DEF f
  <2>2. Along(f, o) = [i \in DOMAIN o |-> (IF o[i].absolute THEN 0 ELSE Saturate(o[i].dx))]
    BY <2>1 DEF Along
  <2> QED  BY <2>2 DEF Moved
<1>3. <<>> \in Seq(R) /\ Append(s, r) \in Seq(R)
  OBVIOUS
<1> HIDE DEF f
<1>4. /\ SumUp(Along(f, <<>>)) = 0
      /\ SumUp(Along(f, s)) \in Int
      /\ SumUp(Along(f, Append(s, r))) = SumUp(Along(f, s)) + f[r]
  BY <1>1, SumAlong
<1> QED  BY <1>1, <1>2, <1>3, <1>4

-----------------------------------------------------------------------------
(* What one report comes to, here and at the other machine.                *)

LEMMA ReportSays ==
  ASSUME NEW p \in [buttons : SUBSET Buttons, vertical : Int, horizontal : Int],
         Size(p.vertical) < WHEEL_DELTA, Size(p.horizontal) < WHEEL_DELTA,
         NEW mouse, IsAMouseReport(mouse)
  PROVE  LET after == Report(p, mouse).pointing
             said == Report(p, mouse).report
         IN /\ after.buttons = Transitions(p.buttons, mouse)
            /\ said.buttons = Transitions(p.buttons, mouse)
            /\ said.motion["dx"] = IF mouse.absolute THEN 0 ELSE mouse.dx
            /\ p.vertical + TurnOf("vertical", mouse)
                 = WHEEL_DELTA * said.motion["vertical_wheel"] + after.vertical
            /\ p.horizontal + TurnOf("horizontal", mouse)
                 = WHEEL_DELTA * said.motion["horizontal_wheel"] + after.horizontal
            /\ Size(after.vertical) < WHEEL_DELTA /\ Size(after.horizontal) < WHEEL_DELTA
            /\ Size(said.motion["vertical_wheel"]) <= 127
            /\ Size(said.motion["horizontal_wheel"]) <= 127
<1> DEFINE v == p.vertical + TurnOf("vertical", mouse)
           h == p.horizontal + TurnOf("horizontal", mouse)
           dx == IF mouse.absolute THEN 0 ELSE mouse.dx
           dy == IF mouse.absolute THEN 0 ELSE mouse.dy
           b == Transitions(p.buttons, mouse)
<1>1. "vertical" \in Wheel /\ "horizontal" \in Wheel
  BY DEF Wheel
<1>2. /\ TurnOf("vertical", mouse) \in Int /\ TurnOf("horizontal", mouse) \in Int
      /\ Size(TurnOf("vertical", mouse)) <= 127 * WHEEL_DELTA
      /\ Size(TurnOf("horizontal", mouse)) <= 127 * WHEEL_DELTA
  BY <1>1, TurnTyped DEF IsAMouseReport
<1>3. v \in Int /\ h \in Int /\ Size(v) < 128 * WHEEL_DELTA /\ Size(h) < 128 * WHEEL_DELTA
  BY <1>2 DEF Size, WHEEL_DELTA
<1>4. dx \in Int /\ dy \in Int
  BY DEF IsAMouseReport
<1>5. Report(p, mouse) =
        [pointing |-> [buttons |-> b, vertical |-> Kept(v), horizontal |-> Kept(h)],
         report |-> [motion |-> Motion(dx, dy, Clicks(v), Clicks(h)), buttons |-> b]]
  BY DEF Report, Reported
<1> HIDE DEF v, h, dx, dy, b
<1>6. ASSUME NEW a \in Int, Size(a) < 128 * WHEEL_DELTA
      PROVE  /\ Clicks(a) \in Int /\ Kept(a) \in Int
             /\ a = WHEEL_DELTA * Clicks(a) + Kept(a)
             /\ Size(Kept(a)) < WHEEL_DELTA /\ Size(Clicks(a)) <= 127
  <2>1. /\ Clicks(a) \in Int /\ Kept(a) \in Int
        /\ a = WHEEL_DELTA * Clicks(a) + Kept(a)
        /\ Size(Kept(a)) < WHEEL_DELTA
        /\ IF a >= 0 THEN Kept(a) >= 0 ELSE Kept(a) <= 0
    BY ClicksAndRest
  <2>2. Size(Clicks(a)) <= 127
    BY <1>6, <2>1 DEF Size, WHEEL_DELTA
  <2> QED  BY <2>1, <2>2
<1>7. /\ Clicks(v) \in Int /\ Kept(v) \in Int /\ v = WHEEL_DELTA * Clicks(v) + Kept(v)
      /\ Size(Kept(v)) < WHEEL_DELTA /\ Size(Clicks(v)) <= 127
  BY <1>3, <1>6
<1>8. /\ Clicks(h) \in Int /\ Kept(h) \in Int /\ h = WHEEL_DELTA * Clicks(h) + Kept(h)
      /\ Size(Kept(h)) < WHEEL_DELTA /\ Size(Clicks(h)) <= 127
  BY <1>3, <1>6
<1> DEFINE m == Motion(dx, dy, Clicks(v), Clicks(h))
<1>9. m["dx"] = dx /\ m["vertical_wheel"] = Clicks(v) /\ m["horizontal_wheel"] = Clicks(h)
  BY DEF Motion
<1> HIDE DEF m
<1>10. Report(p, mouse).report = [motion |-> m, buttons |-> b]
  BY <1>5 DEF m
<1> QED  BY <1>5, <1>7, <1>8, <1>9, <1>10 DEF v, h, dx, b

WheelAxis == {"vertical_wheel", "horizontal_wheel"}
WayRound(inverted, axis, n) == IF axis \in inverted THEN -n ELSE n

(* A report with news is sent on with as much.                             *)
LEMMA InjectSays ==
  ASSUME NEW inverted \in SUBSET WheelAxis, NEW state \in Sending, NEW said \in Said,
         News(said, state.buttons)
  PROVE  \E x \in Said :
           /\ Inject(inverted, state, said)
                = [buttons |-> said.buttons, out |-> Append(state.out, x)]
           /\ x.buttons = said.buttons /\ News(x, state.buttons)
           /\ x.motion["dx"] = Saturate(said.motion["dx"])
           /\ \A axis \in WheelAxis : Size(said.motion[axis]) <= 127
                => x.motion[axis] = WayRound(inverted, axis, said.motion[axis])
<1> DEFINE turned == Apply(inverted, said.motion)
           tuned == Reported(turned, said.buttons)
           narrow == [axis \in Axis |-> Saturate(turned[axis])]
           x == Reported(narrow, said.buttons)
<1>1. said.motion \in [Axis -> Int] /\ said.buttons \in SUBSET Buttons
  BY DEF Said
<1>2. \A axis \in Axis : turned[axis] = WayRound(inverted, axis, said.motion[axis])
  BY DEF Apply, WayRound
<1>3. turned \in [Axis -> Int] /\ \A axis \in Axis : turned[axis] = 0 <=> said.motion[axis] = 0
  BY <1>1 DEF Apply
<1>4. tuned.motion = turned /\ tuned.buttons = said.buttons /\ x.motion = narrow /\ x.buttons = said.buttons
  BY DEF Reported
<1>5. PointingReport(tuned) = x
  BY <1>4 DEF PointingReport
<1>6. Inject(inverted, state, said) =
        IF News(tuned, state.buttons)
        THEN [buttons |-> said.buttons, out |-> Append(state.out, x)] ELSE state
  BY <1>4, <1>5 DEF Inject
<1> HIDE DEF turned
<1>7. narrow \in [Axis -> Int] /\ \A axis \in Axis : narrow[axis] = 0 <=> said.motion[axis] = 0
  BY <1>3, SaturateTyped
<1>8. x \in Said
  BY <1>1, <1>7 DEF Said, Reported
<1>9. News(tuned, state.buttons) <=> News(said, state.buttons)
  BY <1>3, <1>4 DEF News, IsStill
<1>10. News(x, state.buttons) <=> News(said, state.buttons)
  BY <1>4, <1>7 DEF News, IsStill
<1>11. x.motion["dx"] = Saturate(said.motion["dx"])
  <2>1. "dx" \in Axis /\ "dx" \notin inverted
    BY DEF Axis, WheelAxis
  <2> QED  BY <1>2, <1>4, <2>1 DEF WayRound
<1>12. ASSUME NEW axis \in WheelAxis, Size(said.motion[axis]) <= 127
       PROVE  x.motion[axis] = WayRound(inverted, axis, said.motion[axis])
  <2>1. axis \in Axis
    BY DEF Axis, WheelAxis
  <2>2. x.motion[axis] = Saturate(WayRound(inverted, axis, said.motion[axis]))
    BY <1>2, <1>4, <2>1
  <2>3. said.motion[axis] \in Int
    BY <1>1, <2>1
  <2> QED  BY <1>12, <2>2, <2>3 DEF WayRound, Saturate, Clamped, Size
<1> HIDE DEF narrow, x, tuned
<1> QED  BY <1>4, <1>6, <1>8, <1>9, <1>10, <1>11, <1>12

-----------------------------------------------------------------------------
(* A mouse at the other machine, however many reports it makes.            *)

ToldOf(mice) == Relaying(mice)[Len(mice)]
InjectionOf(inverted, seen) == Injecting(inverted, seen)[Len(seen)]
LastButtons(out) == IF out = <<>> THEN {} ELSE out[Len(out)].buttons

(* What is kept of the wheels is less than a click of each, and with it    *)
(* what the OS was told is what the hand did so far.                       *)
CarriedOn(inverted, mice, told, injection) ==
  /\ told.pointing.buttons = Held(mice) /\ told.last = Held(mice)
  /\ injection.buttons = Held(mice) /\ LastButtons(injection.out) = Held(mice)
  /\ Travelled(injection.out, "dx") = Moved(mice)
  /\ Turned(mice, "vertical")
       = WHEEL_DELTA * WayRound(inverted, "vertical_wheel", Travelled(injection.out, "vertical_wheel"))
         + told.pointing.vertical
  /\ Turned(mice, "horizontal")
       = WHEEL_DELTA * WayRound(inverted, "horizontal_wheel", Travelled(injection.out, "horizontal_wheel"))
         + told.pointing.horizontal
  /\ Size(told.pointing.vertical) < WHEEL_DELTA
  /\ Size(told.pointing.horizontal) < WHEEL_DELTA
  /\ \A i \in DOMAIN injection.out :
       News(injection.out[i], IF i = 1 THEN {} ELSE injection.out[i - 1].buttons)

LEMMA ToldOn ==
  ASSUME NEW R, \A m \in R : IsAMouseReport(m), NEW s \in Seq(R), NEW r \in R
  PROVE  /\ ToldOf(<<>>) = Unplugged
         /\ ToldOf(s) \in Told
         /\ ToldOf(Append(s, r)) = Relay(ToldOf(s), r)
<1>1. Len(<<>>) = 0 /\ Len(Append(s, r)) = Len(s) + 1
  OBVIOUS
<1> QED  BY <1>1, RelayOn DEF ToldOf

LEMMA InjectionOn ==
  ASSUME NEW inverted, NEW s \in Seq(Said), NEW r \in Said
  PROVE  /\ InjectionOf(inverted, <<>>) = Fresh
         /\ InjectionOf(inverted, s) \in Sending
         /\ InjectionOf(inverted, Append(s, r)) = Inject(inverted, InjectionOf(inverted, s), r)
<1>1. Len(<<>>) = 0 /\ Len(Append(s, r)) = Len(s) + 1
  OBVIOUS
<1> QED  BY <1>1, InjectOn DEF InjectionOf

(* A report that comes to nothing here leaves everything as it was.        *)
LEMMA NothingNew ==
  ASSUME NEW inverted \in SUBSET WheelAxis, NEW R, \A m \in R : IsAMouseReport(m),
         NEW s \in Seq(R), NEW r \in R, NEW told \in Told, NEW injection \in Sending,
         CarriedOn(inverted, s, told, injection),
         ~News(Report(told.pointing, r).report, told.last)
  PROVE  /\ Relay(told, r).out = told.out
         /\ CarriedOn(inverted, Append(s, r), Relay(told, r), injection)
<1> DEFINE p == told.pointing
           made == Report(p, r)
<1>0. IsAMouseReport(r) /\ r.down \subseteq Buttons
  BY DEF IsAMouseReport
<1>1. /\ p \in [buttons : SUBSET Buttons, vertical : Int, horizontal : Int]
      /\ told.out \in Seq(Said)
  BY DEF Told
<1>2. Size(p.vertical) < WHEEL_DELTA /\ Size(p.horizontal) < WHEEL_DELTA
  BY DEF CarriedOn
<1>3. Relay(told, r) =
        [pointing |-> made.pointing, last |-> made.report.buttons, out |-> told.out \o <<>>]
  BY DEF Relay
<1>4. told.out \o <<>> = told.out
  BY <1>1
<1>5. /\ made.pointing.buttons = Transitions(p.buttons, r)
      /\ made.report.buttons = Transitions(p.buttons, r)
      /\ made.report.motion["dx"] = IF r.absolute THEN 0 ELSE r.dx
      /\ p.vertical + TurnOf("vertical", r)
           = WHEEL_DELTA * made.report.motion["vertical_wheel"] + made.pointing.vertical
      /\ p.horizontal + TurnOf("horizontal", r)
           = WHEEL_DELTA * made.report.motion["horizontal_wheel"] + made.pointing.horizontal
      /\ Size(made.pointing.vertical) < WHEEL_DELTA
      /\ Size(made.pointing.horizontal) < WHEEL_DELTA
  BY <1>0, <1>1, <1>2, ReportSays
<1>6. /\ made.pointing \in [buttons : SUBSET Buttons, vertical : Int, horizontal : Int]
      /\ made.report \in Said
  BY <1>0, <1>1, ReportTyped
<1> HIDE DEF made
<1>7. made.report.buttons = told.last /\ \A axis \in Axis : made.report.motion[axis] = 0
  BY DEF News, IsStill, made
<1>8. /\ made.report.motion["dx"] = 0 /\ made.report.motion["vertical_wheel"] = 0
      /\ made.report.motion["horizontal_wheel"] = 0
  BY <1>7 DEF Axis
<1>9. Held(Append(s, r)) = Held(s)
  <2>1. Held(Append(s, r)) = Transitions(Held(s), r)
    BY <1>0, HeldOn
  <2> QED  BY <1>5, <1>7, <2>1 DEF CarriedOn
<1>10. Moved(Append(s, r)) = Moved(s)
  <2>1. (IF r.absolute THEN 0 ELSE Saturate(r.dx)) = 0
    BY <1>0, <1>5, <1>8, SaturateTyped DEF IsAMouseReport
  <2>2. Moved(Append(s, r)) = Moved(s) + (IF r.absolute THEN 0 ELSE Saturate(r.dx)) /\ Moved(s) \in Int
    BY MovedOn
  <2> QED  BY <2>1, <2>2
<1>11. "vertical" \in Wheel /\ "horizontal" \in Wheel
  BY DEF Wheel
<1>12. ASSUME NEW axis \in Axis PROVE WayRound(inverted, axis, Travelled(injection.out, axis)) \in Int
  <2>1. injection.out \in Seq(Said) /\ made.report \in Said
    BY <1>6 DEF Sending
  <2>2. Travelled(injection.out, axis) \in Int
    BY <2>1, TravelledOn
  <2> QED  BY <2>2 DEF WayRound
<1>13. "vertical_wheel" \in Axis /\ "horizontal_wheel" \in Axis
  BY DEF Axis
<1>14. /\ p.vertical \in Int /\ p.horizontal \in Int
       /\ made.pointing.vertical \in Int /\ made.pointing.horizontal \in Int
       /\ TurnOf("vertical", r) \in Int /\ TurnOf("horizontal", r) \in Int
  BY <1>0, <1>1, <1>6, <1>11, TurnTyped
<1> DEFINE next == Relay(told, r)
<1>15. /\ next.out = told.out /\ next.pointing = made.pointing /\ next.last = made.report.buttons
  BY <1>3, <1>4
<1>16. /\ next.pointing.buttons = Held(Append(s, r)) /\ next.last = Held(Append(s, r))
  BY <1>5, <1>7, <1>9, <1>15 DEF CarriedOn
<1>17. Turned(Append(s, r), "vertical")
         = WHEEL_DELTA * WayRound(inverted, "vertical_wheel", Travelled(injection.out, "vertical_wheel"))
           + next.pointing.vertical
  <2> DEFINE sum == WayRound(inverted, "vertical_wheel", Travelled(injection.out, "vertical_wheel"))
  <2>1. sum \in Int
    BY <1>12, <1>13
  <2>2. Turned(s, "vertical") \in Int
        /\ Turned(Append(s, r), "vertical") = Turned(s, "vertical") + TurnOf("vertical", r)
    BY <1>11, TurnedOn
  <2>3. Turned(s, "vertical") = WHEEL_DELTA * sum + p.vertical
    BY DEF CarriedOn
  <2>4. p.vertical + TurnOf("vertical", r) = made.pointing.vertical
    <3>1. p.vertical + TurnOf("vertical", r)
            = WHEEL_DELTA * made.report.motion["vertical_wheel"] + made.pointing.vertical
      BY <1>5 DEF made
    <3> QED  BY <1>8, <1>14, <3>1 DEF WHEEL_DELTA
  <2> HIDE DEF sum, p
  <2>5. Turned(s, "vertical") + TurnOf("vertical", r) = WHEEL_DELTA * sum + made.pointing.vertical
    BY <1>14, <2>1, <2>2, <2>3, <2>4 DEF WHEEL_DELTA
  <2> QED  BY <1>15, <2>2, <2>5 DEF sum
<1>18. Turned(Append(s, r), "horizontal")
         = WHEEL_DELTA * WayRound(inverted, "horizontal_wheel", Travelled(injection.out, "horizontal_wheel"))
           + next.pointing.horizontal
  <2> DEFINE sum == WayRound(inverted, "horizontal_wheel", Travelled(injection.out, "horizontal_wheel"))
  <2>1. sum \in Int
    BY <1>12, <1>13
  <2>2. Turned(s, "horizontal") \in Int
        /\ Turned(Append(s, r), "horizontal") = Turned(s, "horizontal") + TurnOf("horizontal", r)
    BY <1>11, TurnedOn
  <2>3. Turned(s, "horizontal") = WHEEL_DELTA * sum + p.horizontal
    BY DEF CarriedOn
  <2>4. p.horizontal + TurnOf("horizontal", r) = made.pointing.horizontal
    <3>1. p.horizontal + TurnOf("horizontal", r)
            = WHEEL_DELTA * made.report.motion["horizontal_wheel"] + made.pointing.horizontal
      BY <1>5 DEF made
    <3> QED  BY <1>8, <1>14, <3>1 DEF WHEEL_DELTA
  <2> HIDE DEF sum, p
  <2>5. Turned(s, "horizontal") + TurnOf("horizontal", r) = WHEEL_DELTA * sum + made.pointing.horizontal
    BY <1>14, <2>1, <2>2, <2>3, <2>4 DEF WHEEL_DELTA
  <2> QED  BY <1>15, <2>2, <2>5 DEF sum
<1> HIDE DEF next
<1>19. CarriedOn(inverted, Append(s, r), next, injection)
  BY <1>5, <1>9, <1>10, <1>15, <1>16, <1>17, <1>18 DEF CarriedOn
<1> QED  BY <1>15, <1>19 DEF next

(* And one that comes to something is the last the OS is told.             *)
LEMMA SomethingNew ==
  ASSUME NEW inverted \in SUBSET WheelAxis, NEW R, \A m \in R : IsAMouseReport(m),
         NEW s \in Seq(R), NEW r \in R, NEW told \in Told, NEW injection \in Sending,
         CarriedOn(inverted, s, told, injection),
         News(Report(told.pointing, r).report, told.last)
  PROVE  /\ Report(told.pointing, r).report \in Said
         /\ Relay(told, r).out = Append(told.out, Report(told.pointing, r).report)
         /\ CarriedOn(inverted, Append(s, r), Relay(told, r),
                      Inject(inverted, injection, Report(told.pointing, r).report))
<1> DEFINE p == told.pointing
           made == Report(p, r)
           said == made.report
           before == injection.out
<1>0. IsAMouseReport(r) /\ r.down \subseteq Buttons
  BY DEF IsAMouseReport
<1>1. /\ p \in [buttons : SUBSET Buttons, vertical : Int, horizontal : Int]
      /\ told.out \in Seq(Said) /\ before \in Seq(Said)
  BY DEF Told, Sending
<1>2. Size(p.vertical) < WHEEL_DELTA /\ Size(p.horizontal) < WHEEL_DELTA
  BY DEF CarriedOn
<1>3. Relay(told, r) =
        [pointing |-> made.pointing, last |-> said.buttons, out |-> told.out \o <<said>>]
  BY DEF Relay
<1>5. /\ made.pointing.buttons = Transitions(p.buttons, r)
      /\ said.buttons = Transitions(p.buttons, r)
      /\ said.motion["dx"] = IF r.absolute THEN 0 ELSE r.dx
      /\ p.vertical + TurnOf("vertical", r)
           = WHEEL_DELTA * said.motion["vertical_wheel"] + made.pointing.vertical
      /\ p.horizontal + TurnOf("horizontal", r)
           = WHEEL_DELTA * said.motion["horizontal_wheel"] + made.pointing.horizontal
      /\ Size(made.pointing.vertical) < WHEEL_DELTA
      /\ Size(made.pointing.horizontal) < WHEEL_DELTA
      /\ Size(said.motion["vertical_wheel"]) <= 127
      /\ Size(said.motion["horizontal_wheel"]) <= 127
  BY <1>0, <1>1, <1>2, ReportSays
<1>6. /\ made.pointing \in [buttons : SUBSET Buttons, vertical : Int, horizontal : Int]
      /\ said \in Said
  BY <1>0, <1>1, ReportTyped
<1>7. News(said, injection.buttons)
  BY DEF CarriedOn
<1> HIDE DEF made, said
<1>8. told.out \o <<said>> = Append(told.out, said)
  BY <1>1, <1>6
<1>9. PICK x \in Said :
        /\ Inject(inverted, injection, said) = [buttons |-> said.buttons, out |-> Append(before, x)]
        /\ x.buttons = said.buttons /\ News(x, injection.buttons)
        /\ x.motion["dx"] = Saturate(said.motion["dx"])
        /\ \A axis \in WheelAxis : Size(said.motion[axis]) <= 127
             => x.motion[axis] = WayRound(inverted, axis, said.motion[axis])
  BY <1>6, <1>7, InjectSays
<1>10. /\ x.motion["vertical_wheel"]
            = WayRound(inverted, "vertical_wheel", said.motion["vertical_wheel"])
       /\ x.motion["horizontal_wheel"]
            = WayRound(inverted, "horizontal_wheel", said.motion["horizontal_wheel"])
       /\ before \in Seq(Said)
  BY <1>1, <1>5, <1>9 DEF WheelAxis, said
<1>11. /\ "vertical" \in Wheel /\ "horizontal" \in Wheel
       /\ "vertical_wheel" \in Axis /\ "horizontal_wheel" \in Axis /\ "dx" \in Axis
  BY DEF Wheel, Axis
<1>12. /\ p.vertical \in Int /\ p.horizontal \in Int
       /\ made.pointing.vertical \in Int /\ made.pointing.horizontal \in Int
       /\ TurnOf("vertical", r) \in Int /\ TurnOf("horizontal", r) \in Int
  BY <1>0, <1>1, <1>6, <1>11, TurnTyped
<1> HIDE DEF before
<1>13. Held(Append(s, r)) = Transitions(Held(s), r) /\ p.buttons = Held(s)
  BY <1>0, HeldOn DEF CarriedOn
<1>14. Travelled(Append(before, x), "dx") = Moved(Append(s, r))
  <2>1. Travelled(Append(before, x), "dx") = Travelled(before, "dx") + x.motion["dx"]
    BY <1>9, <1>10, <1>11, TravelledOn
  <2>2. Moved(Append(s, r)) = Moved(s) + (IF r.absolute THEN 0 ELSE Saturate(r.dx))
    BY MovedOn
  <2>3. x.motion["dx"] = (IF r.absolute THEN 0 ELSE Saturate(r.dx))
    <3>1. Saturate(0) = 0
      BY SaturateTyped
    <3> QED  BY <1>5, <1>9, <3>1 DEF said
  <2> QED  BY <2>1, <2>2, <2>3 DEF CarriedOn, before
<1>15. Turned(Append(s, r), "vertical")
         = WHEEL_DELTA * WayRound(inverted, "vertical_wheel", Travelled(Append(before, x), "vertical_wheel"))
           + made.pointing.vertical
  <2> DEFINE sum == Travelled(before, "vertical_wheel")
             clicks == said.motion["vertical_wheel"]
  <2>1. /\ sum \in Int
        /\ Travelled(Append(before, x), "vertical_wheel") = sum + WayRound(inverted, "vertical_wheel", clicks)
    BY <1>9, <1>10, <1>11, TravelledOn
  <2>2. /\ Turned(s, "vertical") \in Int
        /\ Turned(Append(s, r), "vertical") = Turned(s, "vertical") + TurnOf("vertical", r)
    BY <1>11, TurnedOn
  <2>3. Turned(s, "vertical") = WHEEL_DELTA * WayRound(inverted, "vertical_wheel", sum) + p.vertical
    BY DEF CarriedOn, before
  <2>4. p.vertical + TurnOf("vertical", r) = WHEEL_DELTA * clicks + made.pointing.vertical
    BY <1>5 DEF made, said
  <2>5. clicks \in Int
    BY <1>6, <1>11 DEF Said
  <2> HIDE DEF sum, clicks, p
  <2>6. WayRound(inverted, "vertical_wheel", sum + WayRound(inverted, "vertical_wheel", clicks))
          = WayRound(inverted, "vertical_wheel", sum) + clicks
    BY <2>1, <2>5 DEF WayRound
  <2>7. WayRound(inverted, "vertical_wheel", sum) \in Int
    BY <2>1 DEF WayRound
  <2>8. Turned(s, "vertical") + TurnOf("vertical", r)
          = WHEEL_DELTA * (WayRound(inverted, "vertical_wheel", sum) + clicks) + made.pointing.vertical
    <3> DEFINE round == WayRound(inverted, "vertical_wheel", sum)
               whole == Turned(s, "vertical")
               more == TurnOf("vertical", r)
               kept == p.vertical
               left == made.pointing.vertical
    <3>1. /\ round \in Int /\ whole \in Int /\ more \in Int /\ kept \in Int /\ left \in Int
          /\ whole = WHEEL_DELTA * round + kept /\ kept + more = WHEEL_DELTA * clicks + left
      BY <1>12, <2>2, <2>3, <2>4, <2>7 DEF p
    <3> HIDE DEF round, whole, more, kept, left
    <3>2. whole + more = WHEEL_DELTA * (round + clicks) + left
      BY <2>5, <3>1 DEF WHEEL_DELTA
    <3> QED  BY <3>2 DEF round, whole, more, kept, left
  <2> QED  BY <2>1, <2>2, <2>6, <2>8
<1>16. Turned(Append(s, r), "horizontal")
         = WHEEL_DELTA * WayRound(inverted, "horizontal_wheel", Travelled(Append(before, x), "horizontal_wheel"))
           + made.pointing.horizontal
  <2> DEFINE sum == Travelled(before, "horizontal_wheel")
             clicks == said.motion["horizontal_wheel"]
  <2>1. /\ sum \in Int
        /\ Travelled(Append(before, x), "horizontal_wheel") = sum + WayRound(inverted, "horizontal_wheel", clicks)
    BY <1>9, <1>10, <1>11, TravelledOn
  <2>2. /\ Turned(s, "horizontal") \in Int
        /\ Turned(Append(s, r), "horizontal") = Turned(s, "horizontal") + TurnOf("horizontal", r)
    BY <1>11, TurnedOn
  <2>3. Turned(s, "horizontal") = WHEEL_DELTA * WayRound(inverted, "horizontal_wheel", sum) + p.horizontal
    BY DEF CarriedOn, before
  <2>4. p.horizontal + TurnOf("horizontal", r) = WHEEL_DELTA * clicks + made.pointing.horizontal
    BY <1>5 DEF made, said
  <2>5. clicks \in Int
    BY <1>6, <1>11 DEF Said
  <2> HIDE DEF sum, clicks, p
  <2>6. WayRound(inverted, "horizontal_wheel", sum + WayRound(inverted, "horizontal_wheel", clicks))
          = WayRound(inverted, "horizontal_wheel", sum) + clicks
    BY <2>1, <2>5 DEF WayRound
  <2>7. WayRound(inverted, "horizontal_wheel", sum) \in Int
    BY <2>1 DEF WayRound
  <2>8. Turned(s, "horizontal") + TurnOf("horizontal", r)
          = WHEEL_DELTA * (WayRound(inverted, "horizontal_wheel", sum) + clicks) + made.pointing.horizontal
    <3> DEFINE round == WayRound(inverted, "horizontal_wheel", sum)
               whole == Turned(s, "horizontal")
               more == TurnOf("horizontal", r)
               kept == p.horizontal
               left == made.pointing.horizontal
    <3>1. /\ round \in Int /\ whole \in Int /\ more \in Int /\ kept \in Int /\ left \in Int
          /\ whole = WHEEL_DELTA * round + kept /\ kept + more = WHEEL_DELTA * clicks + left
      BY <1>12, <2>2, <2>3, <2>4, <2>7 DEF p
    <3> HIDE DEF round, whole, more, kept, left
    <3>2. whole + more = WHEEL_DELTA * (round + clicks) + left
      BY <2>5, <3>1 DEF WHEEL_DELTA
    <3> QED  BY <3>2 DEF round, whole, more, kept, left
  <2> QED  BY <2>1, <2>2, <2>6, <2>8
<1> DEFINE after == Append(before, x)
<1>17. /\ Len(after) = Len(before) + 1 /\ after[Len(before) + 1] = x /\ Len(before) \in Nat
       /\ \A i \in 1..Len(before) : after[i] = before[i]
       /\ DOMAIN after = 1..Len(before) + 1 /\ DOMAIN before = 1..Len(before)
       /\ after # <<>>
  BY <1>10
<1> HIDE DEF after
<1>18. LastButtons(after) = said.buttons
  BY <1>9, <1>17 DEF LastButtons
<1>19. \A i \in DOMAIN after : News(after[i], IF i = 1 THEN {} ELSE after[i - 1].buttons)
  <2> SUFFICES ASSUME NEW i \in DOMAIN after
               PROVE  News(after[i], IF i = 1 THEN {} ELSE after[i - 1].buttons)
    OBVIOUS
  <2>1. CASE i \in 1..Len(before)
    <3>1. after[i] = before[i] /\ (i # 1 => after[i - 1] = before[i - 1])
      <4>1. i # 1 => i - 1 \in 1..Len(before)
        BY <1>17, <2>1
      <4> QED  BY <1>17, <2>1, <4>1
    <3>2. News(before[i], IF i = 1 THEN {} ELSE before[i - 1].buttons)
      BY <1>17, <2>1 DEF CarriedOn, before
    <3> QED  BY <3>1, <3>2
  <2>2. CASE i = Len(before) + 1
    <3>1. LastButtons(before) = injection.buttons
      BY DEF CarriedOn, before
    <3>2. CASE Len(before) = 0
      <4>1. before = <<>>
        BY <1>10, <3>2
      <4>2. injection.buttons = {}
        BY <3>1, <4>1 DEF LastButtons
      <4> QED  BY <1>9, <1>17, <2>2, <3>2, <4>2
    <3>3. CASE Len(before) # 0
      <4>1. before # <<>> /\ i # 1 /\ i - 1 = Len(before) /\ Len(before) \in 1..Len(before)
        BY <1>17, <2>2, <3>3
      <4>2. after[i - 1].buttons = injection.buttons
        BY <1>17, <3>1, <4>1 DEF LastButtons
      <4> QED  BY <1>9, <1>17, <2>2, <4>1, <4>2
    <3> QED  BY <3>2, <3>3
  <2> QED  BY <1>17, <2>1, <2>2
<1> DEFINE next == Relay(told, r)
           handed == Inject(inverted, injection, said)
<1>20. /\ next.pointing = made.pointing /\ next.last = said.buttons
       /\ next.out = Append(told.out, said)
       /\ handed.buttons = said.buttons /\ handed.out = after
  BY <1>3, <1>8, <1>9 DEF after
<1> HIDE DEF next, handed
<1>21. CarriedOn(inverted, Append(s, r), next, handed)
  <2>1. said.buttons = Held(Append(s, r)) /\ made.pointing.buttons = Held(Append(s, r))
    BY <1>5, <1>13 DEF said
  <2>2. Size(made.pointing.vertical) < WHEEL_DELTA /\ Size(made.pointing.horizontal) < WHEEL_DELTA
    BY <1>5
  <2> QED  BY <1>14, <1>15, <1>16, <1>18, <1>19, <1>20, <2>1, <2>2 DEF CarriedOn, after
<1> QED  BY <1>6, <1>20, <1>21 DEF next, handed, said, made

(* Whatever a mouse at the other machine does, for however long, and       *)
(* whichever way round the wheels are to turn: the OS is told the buttons  *)
(* that are down, the motion up to what a report holds, and every whole    *)
(* click, and no report it is sent is without news.                        *)
THEOREM TheHandIsCarried ==
  ASSUME NEW inverted \in SUBSET WheelAxis, NEW R, \A m \in R : IsAMouseReport(m),
         NEW mice \in Seq(R)
  PROVE  CarriesTheHand(inverted, mice)
<1> DEFINE Handed(s) == InjectionOf(inverted, ToldOf(s).out)
           G == {s \in Seq(R) : CarriedOn(inverted, s, ToldOf(s), Handed(s))}
<1>1. \A s \in Seq(R) : ToldOf(s) \in Told /\ ToldOf(s).out \in Seq(Said) /\ Handed(s) \in Sending
  <2> SUFFICES ASSUME NEW s \in Seq(R)
               PROVE  ToldOf(s) \in Told /\ ToldOf(s).out \in Seq(Said) /\ Handed(s) \in Sending
    OBVIOUS
  <2>1. ToldOf(s) \in Told
    BY RelayingIs DEF ToldOf
  <2>2. ToldOf(s).out \in Seq(Said)
    BY <2>1 DEF Told
  <2>3. Handed(s) \in Sending
    BY <2>2, InjectingIs DEF InjectionOf
  <2> QED  BY <2>1, <2>2, <2>3
<1>2. <<>> \in G
  <2>1. ToldOf(<<>>) = Unplugged /\ InjectionOf(inverted, <<>>) = Fresh
    <3>1. <<>> \in Seq(R) /\ <<>> \in Seq(Said) /\ Len(<<>>) = 0
      OBVIOUS
    <3> QED  BY <3>1, RelayingIs, InjectingIs DEF ToldOf, InjectionOf
  <2>2. Handed(<<>>) = Fresh
    BY <2>1 DEF Unplugged
  <2>3. Held(<<>>) = {} /\ \A axis : Travelled(<<>>, axis) = 0
    BY SumOn DEF Held, Downs, Travelled
  <2>4. Moved(<<>>) = 0 /\ \A wheel : Turned(<<>>, wheel) = 0
    BY SumOn DEF Moved, Turned
  <2>5. CarriedOn(inverted, <<>>, Unplugged, Fresh)
    <3>1. /\ Unplugged.pointing.buttons = {} /\ Unplugged.last = {}
          /\ Unplugged.pointing.vertical = 0 /\ Unplugged.pointing.horizontal = 0
          /\ Fresh.buttons = {} /\ Fresh.out = <<>>
      BY DEF Unplugged, AtRest, Fresh
    <3>2. LastButtons(<<>>) = {} /\ Size(0) < WHEEL_DELTA /\ DOMAIN <<>> = {}
      BY DEF LastButtons, Size, WHEEL_DELTA
    <3>3. \A axis : WHEEL_DELTA * WayRound(inverted, axis, Travelled(<<>>, axis)) + 0 = 0
      BY <2>3 DEF WayRound, WHEEL_DELTA
    <3> QED  BY <2>3, <2>4, <3>1, <3>2, <3>3 DEF CarriedOn
  <2> QED  BY <2>1, <2>2, <2>5
<1>3. ASSUME NEW s \in Seq(R), NEW r \in R, s \in G PROVE Append(s, r) \in G
  <2> DEFINE told == ToldOf(s)
             said == Report(told.pointing, r).report
  <2>1. /\ told \in Told /\ told.out \in Seq(Said) /\ Handed(s) \in Sending
        /\ CarriedOn(inverted, s, told, Handed(s))
        /\ ToldOf(Append(s, r)) = Relay(told, r)
    BY <1>1, <1>3, ToldOn
  <2>2. CASE ~News(said, told.last)
    <3>1. /\ Relay(told, r).out = told.out
          /\ CarriedOn(inverted, Append(s, r), Relay(told, r), Handed(s))
      BY <2>1, <2>2, NothingNew
    <3>2. Append(s, r) \in Seq(R)
      OBVIOUS
    <3> QED  BY <2>1, <3>1, <3>2
  <2>3. CASE News(said, told.last)
    <3>1. /\ said \in Said /\ Relay(told, r).out = Append(told.out, said)
          /\ CarriedOn(inverted, Append(s, r), Relay(told, r), Inject(inverted, Handed(s), said))
      BY <2>1, <2>3, SomethingNew
    <3>2. Handed(Append(s, r)) = Inject(inverted, Handed(s), said)
      BY <2>1, <3>1, InjectionOn
    <3>3. Append(s, r) \in Seq(R)
      OBVIOUS
    <3> QED  BY <2>1, <3>1, <3>2, <3>3
  <2> QED  BY <2>2, <2>3
<1>4. mice \in G
  <2> HIDE DEF G
  <2> QED  BY <1>2, <1>3, ByAppending
<1> DEFINE told == ToldOf(mice)
           injection == Handed(mice)
           out == injection.out
<1>5. /\ CarriedOn(inverted, mice, told, injection)
      /\ told \in Told /\ injection \in Sending
  BY <1>1, <1>4
<1>6. Injected(inverted, Relayed(mice)) = out
  BY DEF Injected, Relayed, ToldOf, InjectionOf
<1> HIDE DEF told, injection
<1>7. (IF out = <<>> THEN {} ELSE Last(out).buttons) = Held(mice)
  BY <1>5 DEF CarriedOn, LastButtons, Last
<1>8. Travelled(out, "dx") = Moved(mice)
  BY <1>5 DEF CarriedOn
<1>9. \A i \in DOMAIN out : News(out[i], IF i = 1 THEN {} ELSE out[i - 1].buttons)
  BY <1>5 DEF CarriedOn
<1>10. ASSUME NEW w \in {<<"vertical", "vertical_wheel">>, <<"horizontal", "horizontal_wheel">>}
       PROVE  Size(Turned(mice, w[1])
                - WHEEL_DELTA * WayRound(inverted, w[2], Travelled(out, w[2]))) < WHEEL_DELTA
  <2>1. out \in Seq(Said) /\ told.pointing \in [buttons : SUBSET Buttons, vertical : Int, horizontal : Int]
    BY <1>5 DEF Told, Sending
  <2>2. \A axis \in Axis : Travelled(out, axis) \in Int
    <3>1. NoMotion \in [Axis -> Int] /\ Reported(NoMotion, {}) \in Said
      BY DEF NoMotion, Reported, Said
    <3> QED  BY <2>1, <3>1, TravelledOn
  <2>3. /\ "vertical_wheel" \in Axis /\ "horizontal_wheel" \in Axis
    BY DEF Axis
  <2> DEFINE round(axis) == WayRound(inverted, axis, Travelled(out, axis))
  <2>4. round("vertical_wheel") \in Int /\ round("horizontal_wheel") \in Int
    BY <2>2, <2>3 DEF WayRound
  <2>5. /\ Turned(mice, "vertical") = WHEEL_DELTA * round("vertical_wheel") + told.pointing.vertical
        /\ Turned(mice, "horizontal") = WHEEL_DELTA * round("horizontal_wheel") + told.pointing.horizontal
        /\ Size(told.pointing.vertical) < WHEEL_DELTA /\ Size(told.pointing.horizontal) < WHEEL_DELTA
    BY <1>5 DEF CarriedOn
  <2> HIDE DEF round, out
  <2>6. /\ Turned(mice, "vertical") - WHEEL_DELTA * round("vertical_wheel") = told.pointing.vertical
        /\ Turned(mice, "horizontal") - WHEEL_DELTA * round("horizontal_wheel") = told.pointing.horizontal
    BY <2>1, <2>4, <2>5 DEF WHEEL_DELTA
  <2>7. \/ w[1] = "vertical" /\ w[2] = "vertical_wheel"
        \/ w[1] = "horizontal" /\ w[2] = "horizontal_wheel"
    OBVIOUS
  <2> QED  BY <2>5, <2>6, <2>7 DEF round
<1> HIDE DEF out
<1> QED  BY <1>6, <1>7, <1>8, <1>9, <1>10 DEF CarriesTheHand, WayRound

-----------------------------------------------------------------------------
(* A report taken apart, and put together again.                           *)

LEMMA WholeClicks ==
  ASSUME NEW n \in Int
  PROVE  Clicks(WHEEL_DELTA * n) = n /\ Kept(WHEEL_DELTA * n) = 0
<1> DEFINE a == WHEEL_DELTA * n
<1>1. a \in Int /\ a = 120 * n
  BY DEF WHEEL_DELTA
<1> HIDE DEF a
<1>2. /\ Clicks(a) \in Int /\ Kept(a) \in Int
      /\ a = WHEEL_DELTA * Clicks(a) + Kept(a) /\ Size(Kept(a)) < WHEEL_DELTA
  BY <1>1, ClicksAndRest
<1>3. Clicks(a) = n /\ Kept(a) = 0
  BY <1>1, <1>2 DEF WHEEL_DELTA, Size
<1> QED  BY <1>3 DEF a

(* A turn of a wheel goes through the sixteen bits there are for it.       *)
LEMMA TurnIsRead ==
  ASSUME NEW n \in Int, Size(n) <= 273
  PROVE  AsI16((n * WHEEL_DELTA) % 65536) = WHEEL_DELTA * n
<1> DEFINE a == n * WHEEL_DELTA
<1>1. a \in Int /\ a = WHEEL_DELTA * n /\ -32768 < a /\ a < 32768
  BY DEF WHEEL_DELTA, Size
<1> HIDE DEF a
<1>2. a % 65536 = IF a >= 0 THEN a ELSE a + 65536
  BY <1>1
<1>3. AsI16(a % 65536) = a
  BY <1>1, <1>2 DEF AsI16
<1> QED  BY <1>1, <1>3 DEF a

LEMMA TravelledFew ==
  ASSUME NEW x \in Said, NEW y \in Said, NEW axis \in Axis
  PROVE  /\ Travelled(<<x>>, axis) = x.motion[axis]
         /\ Travelled(<<x, y>>, axis) = x.motion[axis] + y.motion[axis]
<1> DEFINE a == x.motion[axis]
           b == y.motion[axis]
<1>1. a \in Int /\ b \in Int
  BY DEF Said
<1>2. [i \in DOMAIN <<x>> |-> <<x>>[i].motion[axis]] = <<a>>
  OBVIOUS
<1>3. [i \in DOMAIN <<x, y>> |-> <<x, y>>[i].motion[axis]] = <<a, b>>
  OBVIOUS
<1> HIDE DEF a, b
<1>4. SumUp(<<a>>) = a
  <2> DEFINE s == <<a>>
  <2>1. s \in Seq(Int) /\ Len(s) = 1 /\ s[1] = a
    BY <1>1
  <2> HIDE DEF s
  <2>2. Summing(s)[0] = 0 /\ Summing(s)[1] = Summing(s)[1 - 1] + s[1]
    BY <2>1, SummingIs
  <2>3. SumUp(s) = a
    BY <1>1, <2>1, <2>2 DEF SumUp
  <2> QED  BY <2>3 DEF s
<1>5. SumUp(<<a, b>>) = a + b
  <2> DEFINE s == <<a, b>>
  <2>1. s \in Seq(Int) /\ Len(s) = 2 /\ s[1] = a /\ s[2] = b
    BY <1>1
  <2> HIDE DEF s
  <2>2. /\ Summing(s)[0] = 0
        /\ Summing(s)[1] = Summing(s)[1 - 1] + s[1]
        /\ Summing(s)[2] = Summing(s)[2 - 1] + s[2]
    BY <2>1, SummingIs
  <2>3. SumUp(s) = a + b
    BY <1>1, <2>1, <2>2 DEF SumUp
  <2> QED  BY <2>3 DEF s
<1> QED  BY <1>2, <1>3, <1>4, <1>5 DEF Travelled, a, b

(* A report the sixteen bits have room for is put together again from what *)
(* it was taken apart into, whatever was held.                             *)
THEOREM EncodingIsDecoded ==
  ASSUME NEW held \in SUBSET Buttons, NEW target \in Said,
         Size(target.motion["vertical_wheel"]) <= 273,
         Size(target.motion["horizontal_wheel"]) <= 273
  PROVE  EncodedIsDecoded(held, target)
<1> DEFINE v == target.motion["vertical_wheel"]
           h == target.motion["horizontal_wheel"]
           dx == target.motion["dx"]
           dy == target.motion["dy"]
           m1 == RawMouse(FALSE, target.buttons \ held, held \ target.buttons,
                          IF v = 0 THEN {} ELSE {"vertical"}, (v * WHEEL_DELTA) % 65536, dx, dy)
           m2 == RawMouse(FALSE, {}, {}, {"horizontal"}, (h * WHEEL_DELTA) % 65536, 0, 0)
           p == [AtRest EXCEPT !.buttons = held]
           first == Report(p, m1)
           second == Report(first.pointing, m2)
<1>1. /\ target.motion \in [Axis -> Int] /\ target.buttons \in SUBSET Buttons
      /\ v \in Int /\ h \in Int /\ dx \in Int /\ dy \in Int
  BY DEF Said, Axis
<1>2. Encode(held, target) = IF h = 0 THEN <<m1>> ELSE <<m1, m2>>
  BY DEF Encode
<1>3. p.buttons = held /\ p.vertical = 0 /\ p.horizontal = 0
  BY DEF AtRest
<1>4. /\ TurnOf("vertical", m1) = WHEEL_DELTA * v /\ TurnOf("horizontal", m1) = 0
      /\ m1.dx = dx /\ m1.dy = dy /\ m1.absolute = FALSE
      /\ m1.down = target.buttons \ held /\ m1.up = held \ target.buttons
  <2>1. AsI16((v * WHEEL_DELTA) % 65536) = WHEEL_DELTA * v
    BY <1>1, TurnIsRead
  <2>2. WHEEL_DELTA * 0 = 0
    BY DEF WHEEL_DELTA
  <2> QED  BY <2>1, <2>2 DEF RawMouse, TurnOf
<1>5. /\ TurnOf("horizontal", m2) = WHEEL_DELTA * h /\ TurnOf("vertical", m2) = 0
      /\ m2.dx = 0 /\ m2.dy = 0 /\ m2.absolute = FALSE /\ m2.down = {} /\ m2.up = {}
  <2>1. AsI16((h * WHEEL_DELTA) % 65536) = WHEEL_DELTA * h
    BY <1>1, TurnIsRead
  <2> QED  BY <2>1 DEF RawMouse, TurnOf
<1> HIDE DEF m1, m2, p
<1>6. /\ Clicks(WHEEL_DELTA * v) = v /\ Kept(WHEEL_DELTA * v) = 0
      /\ Clicks(WHEEL_DELTA * h) = h /\ Kept(WHEEL_DELTA * h) = 0
      /\ Clicks(0) = 0 /\ Kept(0) = 0
      /\ WHEEL_DELTA * v \in Int /\ WHEEL_DELTA * h \in Int
  <2>1. WHEEL_DELTA * 0 = 0 /\ WHEEL_DELTA * v \in Int /\ WHEEL_DELTA * h \in Int
    BY <1>1 DEF WHEEL_DELTA
  <2> QED  BY <1>1, <2>1, WholeClicks
<1>7. first = [pointing |-> [buttons |-> target.buttons, vertical |-> 0, horizontal |-> 0],
               report |-> [motion |-> Motion(dx, dy, v, 0), buttons |-> target.buttons]]
  <2>1. Transitions(p.buttons, m1) = target.buttons
    BY <1>3, <1>4 DEF Transitions
  <2>2. /\ p.vertical + TurnOf("vertical", m1) = WHEEL_DELTA * v
        /\ p.horizontal + TurnOf("horizontal", m1) = 0
    BY <1>3, <1>4, <1>6
  <2> QED  BY <1>4, <1>6, <2>1, <2>2 DEF Report, Reported
<1>8. second.report = [motion |-> Motion(0, 0, 0, h), buttons |-> target.buttons]
  <2>1. Transitions(target.buttons, m2) = target.buttons
    BY <1>5 DEF Transitions
  <2>2. 0 + TurnOf("vertical", m2) = 0 /\ 0 + TurnOf("horizontal", m2) = WHEEL_DELTA * h
    BY <1>5, <1>6
  <2> QED  BY <1>5, <1>6, <1>7, <2>1, <2>2 DEF Report, Reported
<1>9. Decoded(held, Encode(held, target)) =
        IF h = 0 THEN <<first.report>> ELSE <<first.report, second.report>>
  BY <1>2 DEF Decoded, p
<1> HIDE DEF first, second
<1>10. /\ first.report \in Said /\ second.report \in Said
       /\ first.report.buttons = target.buttons /\ second.report.buttons = target.buttons
       /\ first.report.motion = Motion(dx, dy, v, 0) /\ second.report.motion = Motion(0, 0, 0, h)
  <2>1. Motion(dx, dy, v, 0) \in [Axis -> Int] /\ Motion(0, 0, 0, h) \in [Axis -> Int]
    BY <1>1 DEF Motion, Axis
  <2> QED  BY <1>1, <1>7, <1>8, <2>1 DEF Said
<1>11. ASSUME NEW axis \in Axis
       PROVE  Travelled(Decoded(held, Encode(held, target)), axis) = target.motion[axis]
  <2>1. Motion(dx, dy, v, 0)[axis] + Motion(0, 0, 0, h)[axis] = target.motion[axis]
    BY <1>1 DEF Motion, Axis
  <2>2. h = 0 => Motion(dx, dy, v, 0)[axis] = target.motion[axis]
    BY <1>1 DEF Motion, Axis
  <2>3. CASE h = 0
    BY <1>9, <1>10, <2>2, <2>3, TravelledFew
  <2>4. CASE h # 0
    BY <1>9, <1>10, <2>1, <2>4, TravelledFew
  <2> QED  BY <2>3, <2>4
<1>12. Last(Decoded(held, Encode(held, target))).buttons = target.buttons
  BY <1>9, <1>10 DEF Last
<1> QED  BY <1>11, <1>12 DEF EncodedIsDecoded

-----------------------------------------------------------------------------
(* How far the OS carries the pointer.                                     *)

(* Whatever pointing device there is and whatever it is asked for: the     *)
(* resolution its motion is scaled by is the one it says, if it says one.  *)
THEOREM TheFeelIsAsAsked ==
  ASSUME NEW device \in [mine : BOOLEAN, keeps : {ACCELERATION, MOUSE_ACCELERATION},
                         named : BOOLEAN, resolution : Int, scaled : Int, factor : Int],
         device.resolution \in {None, device.scaled},
         NEW writable \in BOOLEAN, NEW wanted \in [resolution : Int, acceleration : Int]
  PROVE  TunedAsAsked(device, writable, wanted)
<1> DEFINE key == AccelerationProperty(device)
           was == Fixed(device, key)
           given == wanted.acceleration # None \/ device.factor # None
           after == Tune(wanted, writable, device)
           asked(n, old) == IF n = None THEN old ELSE n
<1> USE DEF RESOLUTION, ACCELERATION, MOUSE_ACCELERATION, Unnamed
<1>1. Fixed(device, RESOLUTION) = device.resolution
  BY DEF Fixed
<1>2. Fixed(device, device.keeps) = device.factor
  BY DEF Fixed
<1>3. wanted = DryRun <=> wanted.resolution = None /\ wanted.acceleration = None
  BY DEF DryRun, Wanted
<1>4. KnowsWhere(device) => key = device.keeps
  BY DEF KnowsWhere, AccelerationProperty, Type, Fixed
<1>5. key \in {ACCELERATION, MOUSE_ACCELERATION}
  BY DEF AccelerationProperty, Type
<1> DEFINE factor == Factor(wanted, was)
           resolved == IF wanted.resolution = None THEN device
                       ELSE SetFixed(writable, device, RESOLUTION, wanted.resolution)
<1>6. Tuned(wanted, writable, device)
        = IF factor = None THEN resolved ELSE SetFixed(writable, resolved, key, factor)
  BY DEF Tuned
<1>7. ASSUME ~writable, NEW d, NEW property, NEW value
      PROVE  SetFixed(writable, d, property, value) = d
  BY <1>7 DEF SetFixed
<1>8. ~Tunable(device) \/ ~writable => after = device
  BY <1>1, <1>6, <1>7 DEF Tunable, Tune
<1>9. Tunable(device) /\ ~writable /\ wanted # DryRun /\ given
        => ~Accepted(wanted, writable, device)
  <2> SUFFICES ASSUME ~writable, wanted # DryRun PROVE ~Accepted(wanted, writable, device)
    OBVIOUS
  <2>1. Accepted(wanted, writable, device) => wanted.resolution = None /\ factor = None
    BY DEF Accepted
  <2>2. factor = None => wanted.acceleration = None
    BY DEF Factor
  <2> QED  BY <1>3, <2>1, <2>2
<1>10. ASSUME Tunable(device), KnowsWhere(device), given, writable \/ wanted = DryRun
       PROVE  /\ after.scaled = asked(wanted.resolution, device.scaled)
              /\ after.factor = asked(wanted.acceleration, device.factor)
  <2>1. CASE wanted = DryRun
    BY <1>3, <2>1 DEF Tune
  <2>2. CASE wanted # DryRun
    <3>1. writable /\ device.mine /\ device.resolution # None /\ device.resolution = device.scaled
      BY <1>10, <2>2 DEF Tunable
    <3>2. after = IF factor = None THEN resolved ELSE SetFixed(writable, resolved, key, factor)
      BY <1>1, <1>6, <2>2, <3>1 DEF Tune
    <3>3. key = device.keeps /\ was = device.factor
      BY <1>2, <1>4, <1>10
    <3>4. factor = asked(wanted.acceleration, device.factor) /\ factor # None
      BY <1>10, <3>3 DEF Factor
    <3>5. /\ resolved.resolution = asked(wanted.resolution, device.scaled)
          /\ resolved.keeps = device.keeps
      BY <3>1 DEF SetFixed
    <3> HIDE DEF resolved, factor
    <3>6. SetFixed(writable, resolved, key, factor)
            = [resolved EXCEPT !.factor = factor, !.scaled = resolved.resolution]
      BY <1>5, <3>1, <3>3, <3>5 DEF SetFixed
    <3>7. DOMAIN resolved = {"mine", "keeps", "named", "resolution", "scaled", "factor"}
      BY DEF resolved, SetFixed
    <3> QED  BY <3>2, <3>4, <3>5, <3>6, <3>7
  <2> QED  BY <2>1, <2>2
<1> QED  BY <1>8, <1>9, <1>10 DEF TunedAsAsked

-----------------------------------------------------------------------------
(* The values between two ends.                                            *)

IsAMessage(v) ==
  \/ v = ValuesDone
  \/ /\ v.kind = "value" /\ v.element \in Axis \cup Buttons
     /\ v.stamp \in Int /\ v.value \in Int
Unfinished == [buttons : SUBSET Buttons, pending : [Axis -> Int], stamp : Int, open : BOOLEAN]
Assembly == [p : Unfinished, out : Seq(Said)]

LEMMA SetTyped ==
  ASSUME NEW p \in Unfinished, NEW v, IsAMessage(v), v.kind = "value"
  PROVE  /\ Set(p, v) \in Unfinished
         /\ Set(p, v).open /\ Set(p, v).stamp = v.stamp
         /\ Set(p, v).pending
              = [axis \in Axis |-> IF axis = v.element THEN v.value ELSE p.pending[axis]]
         /\ Set(p, v).buttons
              = {b \in Buttons : IF b = v.element THEN v.value # 0 ELSE b \in p.buttons}
<1>1. v.element \in Axis \cup Buttons /\ v.stamp \in Int /\ v.value \in Int
  BY DEF IsAMessage, ValuesDone
<1>2. Axis \cap Buttons = {}
  BY DEF Axis, Buttons
<1>3. CASE v.element \in Axis
  <2> DEFINE m == [p.pending EXCEPT ![v.element] = v.value]
  <2>1. Set(p, v) = [p EXCEPT !.stamp = v.stamp, !.open = TRUE, !.pending = m]
    BY <1>3 DEF Set, Unfinished
  <2>2. p.buttons \in SUBSET Buttons /\ p.pending \in [Axis -> Int] /\ m \in [Axis -> Int]
    BY <1>1, <1>3 DEF Unfinished
  <2>6. m = [axis \in Axis |-> IF axis = v.element THEN v.value ELSE p.pending[axis]]
    BY <1>3, <2>2
  <2> HIDE DEF m
  <2>3. Set(p, v).pending = m
    BY <2>1 DEF Unfinished
  <2>4. Set(p, v).buttons = p.buttons /\ Set(p, v).open /\ Set(p, v).stamp = v.stamp
    BY <2>1 DEF Unfinished
  <2>5. Set(p, v) \in Unfinished
    BY <1>1, <2>1, <2>2 DEF Unfinished
  <2> QED  BY <1>2, <1>3, <2>2, <2>3, <2>4, <2>5, <2>6
<1>4. CASE v.element \notin Axis
  <2> DEFINE bs == IF v.value # 0 THEN p.buttons \cup {v.element} ELSE p.buttons \ {v.element}
  <2>1. Set(p, v) = [p EXCEPT !.stamp = v.stamp, !.open = TRUE, !.buttons = bs]
    BY <1>4 DEF Set, Unfinished
  <2>2. p.buttons \in SUBSET Buttons /\ p.pending \in [Axis -> Int] /\ v.element \in Buttons
    BY <1>1, <1>4 DEF Unfinished
  <2>3. bs \in SUBSET Buttons
    BY <2>2
  <2>4. /\ Set(p, v).buttons = bs /\ Set(p, v).pending = p.pending
        /\ Set(p, v).open /\ Set(p, v).stamp = v.stamp
    BY <2>1 DEF Unfinished
  <2>5. Set(p, v) \in Unfinished
    BY <1>1, <2>1, <2>3 DEF Unfinished
  <2> QED  BY <1>4, <2>2, <2>4, <2>5
<1> QED  BY <1>3, <1>4

LEMMA ResolveTyped ==
  /\ NothingSaid \in Assembly
  /\ \A state \in Assembly : \A v : IsAMessage(v) => Resolve(state, v) \in Assembly
<1>1. NothingSaid \in Assembly
  BY DEF NothingSaid, Shut, Assembly, Unfinished, NoMotion, None
<1>2. ASSUME NEW state \in Assembly, NEW v, IsAMessage(v) PROVE Resolve(state, v) \in Assembly
  <2> DEFINE closed == IF Closes(state.p, v) THEN Emptied(state.p) ELSE state.p
             out == IF Closes(state.p, v) THEN state.out \o Taken(state.p) ELSE state.out
             p == IF v.kind = "done" THEN closed ELSE Set(closed, v)
  <2>1. state.p \in Unfinished /\ state.out \in Seq(Said)
    BY DEF Assembly
  <2>2. closed \in Unfinished
    <3>1. NoMotion \in [Axis -> Int]
      BY DEF NoMotion
    <3> QED  BY <2>1, <3>1 DEF Emptied, Unfinished
  <2>3. out \in Seq(Said)
    <3>1. Reported(state.p.pending, state.p.buttons) \in Said
      BY <2>1 DEF Reported, Said, Unfinished
    <3>2. Taken(state.p) \in Seq(Said)
      BY <3>1 DEF Taken
    <3> QED  BY <2>1, <3>2
  <2>4. p \in Unfinished
    <3>1. v.kind = "done" \/ v.kind = "value"
      BY <1>2 DEF IsAMessage, ValuesDone
    <3> QED  BY <1>2, <2>2, <3>1, SetTyped
  <2>5. Resolve(state, v) = [p |-> p, out |-> out]
    BY DEF Resolve
  <2> HIDE DEF p, out
  <2> QED  BY <2>3, <2>4, <2>5 DEF Assembly
<1> QED  BY <1>1, <1>2

LEMMA AssemblingIs ==
  ASSUME NEW R, \A m \in R : IsAMessage(m), NEW s \in Seq(R)
  PROVE  /\ Assembling(s) \in [0..Len(s) -> Assembly]
         /\ Assembling(s)[0] = NothingSaid
         /\ \A n \in 1..Len(s) : Assembling(s)[n] = Resolve(Assembling(s)[n - 1], s[n])
<1> DEFINE Rec(g) == g = [n \in 0..Len(s) |-> IF n = 0 THEN NothingSaid ELSE Resolve(g[n - 1], s[n])]
           F == [n \in 1..Len(s) |-> [v \in Assembly |-> Resolve(v, s[n])]]
<1>1. Len(s) \in Nat /\ NothingSaid \in Assembly
  BY ResolveTyped
<1>2. F \in [1..Len(s) -> [Assembly -> Assembly]]
  <2>1. \A n \in 1..Len(s) : s[n] \in R
    OBVIOUS
  <2> QED  BY <2>1, ResolveTyped
<1>3. PICK f \in [0..Len(s) -> Assembly] :
        f[0] = NothingSaid /\ \A n \in 1..Len(s) : n - 1 \in 0..Len(s) /\ f[n] = Resolve(f[n - 1], s[n])
  <2>1. PICK f \in [0..Len(s) -> Assembly] :
          f[0] = NothingSaid /\ \A n \in 1..Len(s) : f[n] = F[n][f[n - 1]]
    <3> HIDE DEF F
    <3>1. StepsOf(Assembly, NothingSaid, Len(s), F)
      BY <1>1, <1>2 DEF StepsOf
    <3>2. Walks(Assembly, NothingSaid, Len(s), F)
      BY <3>1, Steps
    <3> QED  BY <3>2 DEF Walks
  <2>2. ASSUME NEW n \in 1..Len(s)
        PROVE  n - 1 \in 0..Len(s) /\ f[n] = Resolve(f[n - 1], s[n])
    <3>1. n - 1 \in 0..Len(s) /\ f[n - 1] \in Assembly
      OBVIOUS
    <3> QED  BY <2>1, <3>1
  <2> QED  BY <2>1, <2>2
<1>4. Rec(f)
  <2>1. ASSUME NEW n \in 0..Len(s) PROVE f[n] = IF n = 0 THEN NothingSaid ELSE Resolve(f[n - 1], s[n])
    <3>1. n = 0 \/ n \in 1..Len(s)
      OBVIOUS
    <3> QED  BY <1>3, <3>1
  <2> QED  BY <2>1
<1>5. Rec(Assembling(s))
  <2>1. Assembling(s) = CHOOSE g : Rec(g)
    BY DEF Assembling
  <2> HIDE DEF Rec
  <2> QED  BY <1>4, <2>1
<1> DEFINE h == Assembling(s)
<1>6. h = [n \in 0..Len(s) |-> IF n = 0 THEN NothingSaid ELSE Resolve(h[n - 1], s[n])]
  BY <1>5
<1> HIDE DEF h
<1>7. h[0] = NothingSaid /\ \A n \in 1..Len(s) : h[n] = Resolve(h[n - 1], s[n])
  <2>1. 0 \in 0..Len(s) /\ \A n \in 1..Len(s) : n \in 0..Len(s) /\ n # 0
    OBVIOUS
  <2> QED  BY <1>6, <2>1
<1>8. KeepUp(h, f, Len(s))
  BY <1>1, <1>3, <1>7 DEF KeepUp
<1>9. \A n \in 0..Len(s) : h[n] = f[n]
  BY <1>8, Together DEF Agree
<1> QED  BY <1>6, <1>7, <1>9 DEF h

(* The last value of an element where there is none, and with one place    *)
(* more to look for it in.                                                 *)
LEMMA LastNone ==
  ASSUME NEW values, NEW element, NEW otherwise
  PROVE  LastOf(values, {}, element, otherwise) = otherwise
<1> DEFINE at == {j \in {} : values[j].kind = "value" /\ values[j].element = element}
<1>1. at = {}
  OBVIOUS
<1> QED  BY <1>1 DEF LastOf

Beyond(n, where) == n \in Nat /\ where \in SUBSET Nat /\ \A j \in where : j < n
Overrides(values, n, where, element) ==
  LastOf(values, where \cup {n}, element, 0)
    = IF values[n].kind = "value" /\ values[n].element = element THEN values[n].value
      ELSE LastOf(values, where, element, 0)

LEMMA LastOn ==
  ASSUME NEW values, NEW n, NEW where, Beyond(n, where), NEW element
  PROVE  Overrides(values, n, where, element)
<1>4. n \in Nat /\ where \in SUBSET Nat /\ \A j \in where : j < n
  BY DEF Beyond
<1>5. \A k \in where \cup {n} : k \in Nat /\ k <= n
  BY <1>4
<1> DEFINE at(w) == {j \in w : values[j].kind = "value" /\ values[j].element = element}
<1>2. CASE values[n].kind = "value" /\ values[n].element = element
  <2>1. n \in at(where \cup {n}) /\ \A k \in at(where \cup {n}) : k \in Nat /\ k <= n
    BY <1>2, <1>5
  <2> DEFINE last == CHOOSE j \in at(where \cup {n}) : \A k \in at(where \cup {n}) : k <= j
  <2>2. LastOf(values, where \cup {n}, element, 0) = values[last].value
    BY <2>1 DEF LastOf
  <2> HIDE DEF at
  <2>3. last \in at(where \cup {n}) /\ \A k \in at(where \cup {n}) : k <= last
    BY <2>1
  <2>4. last = n
    <3> HIDE DEF last
    <3>1. n <= last /\ last <= n /\ last \in Nat
      BY <2>1, <2>3
    <3> QED  BY <1>4, <3>1
  <2>5. LastOf(values, where \cup {n}, element, 0) = values[n].value
    BY <2>2, <2>4
  <2> QED  BY <1>2, <2>5 DEF Overrides
<1>3. CASE ~(values[n].kind = "value" /\ values[n].element = element)
  <2>1. at(where \cup {n}) = at(where)
    BY <1>3
  <2> DEFINE of(S) == IF S = {} THEN 0 ELSE values[CHOOSE j \in S : \A k \in S : k <= j].value
  <2>2. /\ LastOf(values, where \cup {n}, element, 0) = of(at(where \cup {n}))
        /\ LastOf(values, where, element, 0) = of(at(where))
    BY DEF LastOf
  <2> HIDE DEF at, of
  <2>3. LastOf(values, where \cup {n}, element, 0) = LastOf(values, where, element, 0)
    BY <2>1, <2>2
  <2> QED  BY <1>3, <2>3 DEF Overrides
<1> QED  BY <1>2, <1>3

(* The values of a report are those of the one value less, unless that one *)
(* ended its report.                                                       *)
LEMMA InReportOn ==
  ASSUME NEW values, NEW n \in Nat, n > 0, values[n].kind = "value"
  PROVE  InReport(values, n)
           = (IF n > 1 /\ values[n - 1].kind = "value" /\ ~Ends(values, n - 1)
              THEN InReport(values, n - 1) ELSE {}) \cup {n}
<1> DEFINE before == IF n > 1 /\ values[n - 1].kind = "value" /\ ~Ends(values, n - 1)
                     THEN InReport(values, n - 1) ELSE {}
<1>1. ASSUME NEW j \in InReport(values, n) PROVE j \in before \cup {n}
  <2>1. j \in 1..n /\ \A k \in j..n : values[k].kind = "value" /\ (k < n => ~Ends(values, k))
    BY DEF InReport
  <2>2. CASE j < n
    <3>1. n - 1 \in j..n /\ n - 1 < n /\ n > 1 /\ j \in 1..n - 1
      BY <2>1, <2>2
    <3>2. values[n - 1].kind = "value" /\ ~Ends(values, n - 1)
      BY <2>1, <3>1
    <3>3. \A k \in j..n - 1 : k \in j..n /\ k < n
      BY <2>1
    <3>4. j \in InReport(values, n - 1)
      BY <2>1, <3>1, <3>3 DEF InReport
    <3> QED  BY <3>1, <3>2, <3>4
  <2> QED  BY <2>1, <2>2
<1>2. n \in InReport(values, n)
  BY DEF InReport
<1>3. ASSUME NEW j \in before PROVE j \in InReport(values, n)
  <2>1. /\ n > 1 /\ values[n - 1].kind = "value" /\ ~Ends(values, n - 1)
        /\ j \in InReport(values, n - 1)
    OBVIOUS
  <2>2. /\ j \in 1..n - 1
        /\ \A k \in j..n - 1 : values[k].kind = "value" /\ (k < n - 1 => ~Ends(values, k))
    BY <2>1 DEF InReport
  <2>3. ASSUME NEW k \in j..n PROVE values[k].kind = "value" /\ (k < n => ~Ends(values, k))
    <3>1. k = n \/ k = n - 1 \/ (k \in j..n - 1 /\ k < n - 1)
      BY <2>2
    <3> QED  BY <2>1, <2>2, <3>1
  <2> QED  BY <2>2, <2>3 DEF InReport
<1> QED  BY <1>1, <1>2, <1>3

(* What has been made of the first n values: the reports that have ended   *)
(* before the last of them, and what the last of them leaves open.         *)
EndedBefore(values, n) == {i \in Ending(values) : i < n}
Nth(values, i) == Cardinality({j \in Ending(values) : j <= i})
Made(values, n, out) ==
  /\ Len(out) = Cardinality(EndedBefore(values, n))
  /\ \A i \in EndedBefore(values, n) : out[Nth(values, i)] = ReportEnding(values, i)
Left(values, n, p) ==
  /\ p.open <=> n > 0 /\ values[n].kind = "value"
  /\ p.open => /\ p.stamp = values[n].stamp
               /\ \A axis \in Axis : p.pending[axis] = LastOf(values, InReport(values, n), axis, 0)
  /\ ~p.open => p.pending = NoMotion
  /\ p.buttons = {b \in Buttons : LastOf(values, 1..n, b, 0) # 0}

(* One ended report more is one report more of those made.                 *)
LEMMA OneMoreMade ==
  ASSUME NEW values, NEW N \in Nat, DOMAIN values = 1..N,
         NEW n \in 1..N, NEW out \in Seq(Said), Made(values, n - 1, out),
         NEW last \in Seq(Said),
         IF n - 1 \in Ending(values)
         THEN /\ Len(last) = 1 /\ last[1] = ReportEnding(values, n - 1)
         ELSE last = <<>>
  PROVE  Made(values, n, out \o last)
<1> DEFINE E == Ending(values)
           B(k) == EndedBefore(values, k)
           upto(i) == {j \in E : j <= i}
<1>1. E \subseteq 1..N /\ IsFiniteSet(E)
  <2>1. E \subseteq 1..N
    BY DEF Ending
  <2>2. IsFiniteSet(1..N)
    BY FS_Interval
  <2> HIDE DEF E
  <2> QED  BY <2>1, <2>2, FS_Subset
<1>2. \A k : IsFiniteSet(B(k)) /\ Cardinality(B(k)) \in Nat
  BY <1>1, FS_Subset, FS_CardinalityType DEF EndedBefore
<1>3. CASE n - 1 \notin E
  <2>1. B(n) = B(n - 1)
    BY <1>1, <1>3 DEF EndedBefore
  <2>2. out \o last = out
    BY <1>3
  <2> QED  BY <2>1, <2>2 DEF Made
<1>4. CASE n - 1 \in E
  <2>1. B(n) = B(n - 1) \cup {n - 1} /\ n - 1 \notin B(n - 1)
    BY <1>1, <1>4 DEF EndedBefore
  <2>2. Cardinality(B(n)) = Cardinality(B(n - 1)) + 1
    BY <1>2, <2>1, FS_AddElement
  <2> DEFINE all == out \o last
  <2>3. /\ Len(all) = Len(out) + 1 /\ all[Len(out) + 1] = ReportEnding(values, n - 1)
        /\ \A i \in 1..Len(out) : all[i] = out[i]
    <3>1. Len(last) = 1 /\ last[1] = ReportEnding(values, n - 1) /\ Len(out) \in Nat
      BY <1>4
    <3>2. /\ Len(all) = Len(out) + Len(last)
          /\ \A i \in 1..Len(out) + Len(last) :
               all[i] = IF i <= Len(out) THEN out[i] ELSE last[i - Len(out)]
      OBVIOUS
    <3> HIDE DEF all
    <3>3. Len(out) + 1 \in 1..Len(out) + Len(last) /\ (Len(out) + 1) - Len(out) = 1
      BY <3>1
    <3> QED  BY <3>1, <3>2, <3>3
  <2>4. Len(out) = Cardinality(B(n - 1))
    BY DEF Made
  <2>5. upto(n - 1) = B(n)
    BY <1>1, <1>4 DEF EndedBefore
  <2>6. ASSUME NEW i \in B(n - 1) PROVE Nth(values, i) \in 1..Len(out)
    <3>1. i \in upto(i) /\ upto(i) \subseteq B(n - 1)
      BY <1>1 DEF EndedBefore
    <3>2. IsFiniteSet(upto(i)) /\ Cardinality(upto(i)) <= Cardinality(B(n - 1))
      BY <1>2, <3>1, FS_Subset
    <3>3. Cardinality(upto(i)) \in Nat /\ Cardinality(upto(i)) # 0
      BY <3>1, <3>2, FS_CardinalityType, FS_EmptySet
    <3> HIDE DEF upto
    <3>4. Nth(values, i) = Cardinality(upto(i))
      BY DEF Nth, upto
    <3> QED  BY <1>2, <2>4, <3>2, <3>3, <3>4
  <2>7. Nth(values, n - 1) = Len(out) + 1
    BY <2>2, <2>4, <2>5 DEF Nth
  <2> HIDE DEF all, B, E, upto
  <2>8. ASSUME NEW i \in B(n) PROVE all[Nth(values, i)] = ReportEnding(values, i)
    <3>1. CASE i = n - 1
      BY <2>3, <2>7, <3>1
    <3>2. CASE i \in B(n - 1)
      <4>1. out[Nth(values, i)] = ReportEnding(values, i)
        BY <3>2 DEF Made, B
      <4> QED  BY <2>3, <2>6, <3>2, <4>1
    <3> QED  BY <2>1, <3>1, <3>2
  <2> QED  BY <2>2, <2>3, <2>4, <2>8 DEF Made, B, all
<1> QED  BY <1>3, <1>4

(* The n-th value makes a report exactly where the one before it ended     *)
(* one, and leaves open what it says.                                      *)
LEMMA OneMoreLeft ==
  ASSUME NEW values, NEW N \in Nat, DOMAIN values = 1..N,
         \A i \in 1..N : IsAMessage(values[i]),
         NEW n \in 1..N, NEW state \in Assembly, Left(values, n - 1, state.p)
  PROVE  /\ Left(values, n, Resolve(state, values[n]).p)
         /\ Closes(state.p, values[n]) /\ state.p.open <=> n - 1 \in Ending(values)
         /\ state.p.open => Reported(state.p.pending, state.p.buttons) = ReportEnding(values, n - 1)
<1> DEFINE p == state.p
           v == values[n]
           last == values[n - 1]
           after == Resolve(state, v).p
<1>1. /\ p \in Unfinished /\ IsAMessage(v) /\ n \in Nat /\ n > 0
      /\ p.pending \in [Axis -> Int] /\ p.buttons \in SUBSET Buttons /\ p.open \in BOOLEAN
  BY DEF Assembly, Unfinished
<1>2. v.kind = "done" \/ v.kind = "value"
  BY <1>1 DEF IsAMessage, ValuesDone
<1>3. p.open <=> n > 1 /\ last.kind = "value"
  BY <1>1 DEF Left
<1>4. p.open => p.stamp = last.stamp
  BY DEF Left
<1>5. Closes(p, v) /\ p.open <=> n - 1 \in Ending(values)
  <2>1. p.open => n - 1 \in 1..N /\ (n - 1) + 1 = n
    BY <1>1, <1>3
  <2>2. n - 1 \in 1..N => n > 1
    OBVIOUS
  <2>3. n > 1 => (Ends(values, n - 1) <=> v.kind = "done" \/ v.stamp # last.stamp)
    BY <1>1 DEF Ends
  <2>4. n - 1 \in Ending(values) <=> n - 1 \in 1..N /\ last.kind = "value" /\ Ends(values, n - 1)
    BY DEF Ending
  <2> QED  BY <1>3, <1>4, <2>1, <2>2, <2>3, <2>4 DEF Closes
<1>6. p.open => Reported(p.pending, p.buttons) = ReportEnding(values, n - 1)
  <2> SUFFICES ASSUME p.open PROVE Reported(p.pending, p.buttons) = ReportEnding(values, n - 1)
    OBVIOUS
  <2>1. \A axis \in Axis : p.pending[axis] = LastOf(values, InReport(values, n - 1), axis, 0)
    BY DEF Left
  <2>2. p.pending = [axis \in Axis |-> LastOf(values, InReport(values, n - 1), axis, 0)]
    BY <1>1, <2>1
  <2>3. p.buttons = {b \in Buttons : LastOf(values, 1..n - 1, b, 0) # 0}
    BY DEF Left
  <2> QED  BY <2>2, <2>3 DEF ReportEnding, Reported
<1>7. ASSUME NEW b
      PROVE  LastOf(values, 1..n, b, 0)
               = IF v.kind = "value" /\ v.element = b THEN v.value ELSE LastOf(values, 1..n - 1, b, 0)
  <2> DEFINE where == 1..n - 1
  <2>1. 1..n = where \cup {n}
    BY <1>1
  <2>3. Beyond(n, where)
    BY <1>1 DEF Beyond
  <2> HIDE DEF where
  <2>2. LastOf(values, where \cup {n}, b, 0)
          = IF v.kind = "value" /\ v.element = b THEN v.value ELSE LastOf(values, where, b, 0)
    <3>1. Overrides(values, n, where, b)
      BY <2>3, LastOn
    <3> QED  BY <3>1 DEF Overrides
  <2> QED  BY <2>1, <2>2 DEF where
<1>8. p.buttons = {b \in Buttons : LastOf(values, 1..n - 1, b, 0) # 0}
  BY DEF Left
<1> DEFINE closed == IF Closes(p, v) THEN Emptied(p) ELSE p
<1>9. /\ closed \in Unfinished /\ closed.buttons = p.buttons
      /\ closed.pending = (IF Closes(p, v) THEN NoMotion ELSE p.pending)
      /\ closed.open = (IF Closes(p, v) THEN FALSE ELSE p.open)
  <2>1. NoMotion \in [Axis -> Int]
    BY DEF NoMotion
  <2> QED  BY <1>1, <2>1 DEF Emptied, Unfinished
<1>10. after = IF v.kind = "done" THEN closed ELSE Set(closed, v)
  BY DEF Resolve
<1>11. CASE v.kind = "done"
  <2>1. after = closed /\ Closes(p, v)
    BY <1>10, <1>11 DEF Closes
  <2>2. after.buttons = {b \in Buttons : LastOf(values, 1..n, b, 0) # 0}
    BY <1>7, <1>8, <1>9, <1>11, <2>1
  <2>3. ~after.open /\ after.pending = NoMotion
    BY <1>9, <2>1
  <2>4. Left(values, n, after)
    BY <1>11, <2>2, <2>3 DEF Left
  <2> QED  BY <1>5, <1>6, <2>4
<1>12. CASE v.kind = "value"
  <2>1. after = Set(closed, v)
    BY <1>10, <1>12
  <2>2. /\ after.open /\ after.stamp = v.stamp
        /\ after.pending = [axis \in Axis |-> IF axis = v.element THEN v.value ELSE closed.pending[axis]]
        /\ after.buttons = {b \in Buttons : IF b = v.element THEN v.value # 0 ELSE b \in closed.buttons}
    <3> HIDE DEF closed, after, v
    <3> QED  BY <1>1, <1>9, <1>12, <2>1, SetTyped
  <2>3. after.buttons = {b \in Buttons : LastOf(values, 1..n, b, 0) # 0}
    BY <1>7, <1>8, <1>9, <1>12, <2>2
  <2> DEFINE before == IF n > 1 /\ last.kind = "value" /\ ~Ends(values, n - 1)
                       THEN InReport(values, n - 1) ELSE {}
  <2>4. InReport(values, n) = before \cup {n}
    BY <1>1, <1>12, InReportOn
  <2>5. Beyond(n, before)
    BY <1>1 DEF InReport, Beyond
  <2>6. \A axis \in Axis : closed.pending[axis] = LastOf(values, before, axis, 0)
    <3>1. CASE p.open /\ ~Closes(p, v)
      <4>1. before = InReport(values, n - 1)
        <5>1. n - 1 \notin Ending(values) /\ n > 1 /\ last.kind = "value"
          BY <1>3, <1>5, <3>1
        <5>2. ~Ends(values, n - 1)
          BY <1>1, <5>1 DEF Ending
        <5> QED  BY <5>1, <5>2
      <4>2. \A axis \in Axis : p.pending[axis] = LastOf(values, InReport(values, n - 1), axis, 0)
        BY <3>1 DEF Left
      <4> QED  BY <1>9, <3>1, <4>1, <4>2
    <3>2. CASE ~p.open \/ Closes(p, v)
      <4>1. before = {}
        <5>1. n > 1 /\ last.kind = "value" => Ends(values, n - 1)
          BY <1>3, <1>5, <3>2 DEF Ending
        <5> QED  BY <5>1
      <4>2. closed.pending = NoMotion
        BY <1>9, <3>2 DEF Left
      <4>3. \A axis \in Axis : LastOf(values, {}, axis, 0) = 0
        BY LastNone
      <4> HIDE DEF before, closed
      <4> QED  BY <4>1, <4>2, <4>3 DEF NoMotion
    <3> QED  BY <3>1, <3>2
  <2> HIDE DEF before, closed, after
  <2>7. ASSUME NEW axis \in Axis
        PROVE  after.pending[axis] = LastOf(values, InReport(values, n), axis, 0)
    <3>1. LastOf(values, before \cup {n}, axis, 0)
            = IF v.element = axis THEN v.value ELSE LastOf(values, before, axis, 0)
      <4>1. Overrides(values, n, before, axis)
        BY <2>5, LastOn
      <4> QED  BY <1>12, <4>1 DEF Overrides
    <3> QED  BY <2>2, <2>4, <2>6, <3>1
  <2>8. Left(values, n, after)
    BY <1>1, <1>12, <2>2, <2>3, <2>7 DEF Left
  <2> QED  BY <1>5, <1>6, <2>8 DEF after
<1> QED  BY <1>2, <1>11, <1>12

(* However many values are told, and whatever they say: each run of them   *)
(* that ends is one report, of the last said of each axis and the buttons  *)
(* down when it ended, and the reports come in the order they ended.       *)
THEOREM ReportsAreAssembled ==
  ASSUME NEW R, \A m \in R : IsAMessage(m), NEW said \in Seq(R)
  PROVE  AssemblesReports(said)
<1> DEFINE values == Append(said, ValuesDone)
           N == Len(values)
           T == R \cup {ValuesDone}
           S(n) == Assembling(values)[n]
           P == {n \in 0..N : Made(values, n, S(n).out) /\ Left(values, n, S(n).p)}
<1>1. /\ values \in Seq(T) /\ N \in Nat /\ N > 0 /\ DOMAIN values = 1..N
      /\ values[N] = ValuesDone
  OBVIOUS
<1>2. \A m \in T : IsAMessage(m)
  BY DEF IsAMessage
<1> HIDE DEF values, T
<1>3. /\ \A n \in 0..N : S(n) \in Assembly /\ S(n).out \in Seq(Said)
      /\ S(0) = NothingSaid
      /\ \A n \in 1..N : S(n) = Resolve(S(n - 1), values[n])
  <2>1. /\ Assembling(values) \in [0..Len(values) -> Assembly]
        /\ Assembling(values)[0] = NothingSaid
        /\ \A n \in 1..Len(values) : Assembling(values)[n] = Resolve(Assembling(values)[n - 1], values[n])
    BY <1>1, <1>2, AssemblingIs
  <2> QED  BY <2>1 DEF Assembly
<1>4. \A i \in 1..N : IsAMessage(values[i])
  BY <1>1, <1>2
<1> HIDE DEF S, N
<1>5. 0 \in P
  <2>1. NothingSaid.out = <<>> /\ NothingSaid.p = Shut
    BY DEF NothingSaid
  <2>2. EndedBefore(values, 0) = {} /\ Cardinality(EndedBefore(values, 0)) = 0
    <3>1. EndedBefore(values, 0) = {}
      BY <1>1 DEF EndedBefore, Ending
    <3> QED  BY <3>1, FS_EmptySet
  <2>3. Made(values, 0, <<>>)
    BY <2>2 DEF Made
  <2>4. Left(values, 0, Shut)
    <3>1. \A b \in Buttons : LastOf(values, 1..0, b, 0) = 0
      <4>1. 1..0 = {}
        OBVIOUS
      <4>2. \A b \in Buttons : LastOf(values, {}, b, 0) = 0
        BY LastNone
      <4> QED  BY <4>1, <4>2
    <3> QED  BY <3>1 DEF Left, Shut
  <2> QED  BY <1>1, <1>3, <2>1, <2>3, <2>4
<1>6. ASSUME NEW n \in 1..N, n - 1 \in P PROVE n \in P
  <2> DEFINE before == S(n - 1)
             last == IF Closes(before.p, values[n]) THEN Taken(before.p) ELSE <<>>
  <2>1. n \in 0..N /\ n - 1 \in 0..N
    BY <1>1
  <2>2. /\ before \in Assembly /\ before.out \in Seq(Said) /\ S(n) = Resolve(before, values[n])
        /\ Made(values, n - 1, before.out) /\ Left(values, n - 1, before.p)
    BY <1>3, <1>6, <2>1
  <2>3. before.p \in Unfinished /\ before.p.open \in BOOLEAN
    BY <2>2 DEF Assembly, Unfinished
  <2> HIDE DEF before, P
  <2>4. /\ Left(values, n, Resolve(before, values[n]).p)
        /\ Closes(before.p, values[n]) /\ before.p.open <=> n - 1 \in Ending(values)
        /\ before.p.open => Reported(before.p.pending, before.p.buttons) = ReportEnding(values, n - 1)
    BY <1>1, <1>4, <2>2, OneMoreLeft
  <2>5. Resolve(before, values[n]).out = before.out \o last
    <3>1. before.out \o <<>> = before.out
      BY <2>2
    <3> QED  BY <3>1 DEF Resolve
  <2>6. /\ last \in Seq(Said)
        /\ IF n - 1 \in Ending(values)
           THEN /\ Len(last) = 1 /\ last[1] = ReportEnding(values, n - 1)
           ELSE last = <<>>
    <3>1. Reported(before.p.pending, before.p.buttons) \in Said
      BY <2>3 DEF Unfinished, Reported, Said
    <3> QED  BY <2>3, <2>4, <3>1 DEF Taken
  <2> HIDE DEF last
  <2>7. Made(values, n, before.out \o last)
    BY <1>1, <2>2, <2>6, OneMoreMade
  <2> QED  BY <2>1, <2>2, <2>4, <2>5, <2>7 DEF P
<1>7. N \in P
  <2> HIDE DEF P
  <2>1. P \in SUBSET (0..N) /\ N \in 0..N
    BY <1>1 DEF P
  <2>2. \A n \in 0..N : n \in P
    BY <1>1, <1>5, <1>6, <2>1, CountUp
  <2> QED  BY <2>1, <2>2
<1>8. EndedBefore(values, N) = Ending(values)
  <2>1. ValuesDone.kind = "done"
    BY DEF ValuesDone
  <2>2. \A i \in Ending(values) : i \in 1..N /\ i # N
    BY <1>1, <2>1 DEF Ending
  <2> QED  BY <1>1, <2>2 DEF EndedBefore
<1>9. Assembled(values) = S(N).out
  BY DEF Assembled, S, N
<1>10. /\ Len(Assembled(values)) = Cardinality(Ending(values))
       /\ \A i \in Ending(values) : Assembled(values)[Nth(values, i)] = ReportEnding(values, i)
  BY <1>7, <1>8, <1>9 DEF Made
<1> QED  BY <1>10 DEF AssemblesReports, Nth, values

-----------------------------------------------------------------------------
(* What the run checks of the pointer is of such reports, values and       *)
(* devices.                                                                *)

LEMMA InASequence ==
  ASSUME NEW S, NEW n \in Nat
  PROVE  BoundedSeq(S, n) \subseteq Seq(S)
<1> SUFFICES ASSUME NEW m \in 0..n, NEW s \in [1..m -> S] PROVE s \in Seq(S)
  BY DEF BoundedSeq, SeqOf
<1> QED  OBVIOUS

LEMMA ARawMouse ==
  ASSUME NEW m, m.absolute \in BOOLEAN, m.down \in SUBSET Buttons, m.up \in SUBSET Buttons,
         m.data \in {0, 50, 170, 65486, 65416}, m.dx \in Int, m.dy \in Int
  PROVE  IsAMouseReport(m)
<1>2. AsI16(m.data) \in {0, 50, 170, -50, -120}
  BY DEF AsI16
<1>3. \A wheel \in Wheel : TurnOf(wheel, m) \in {0, 50, 170, -50, -120}
  BY <1>2 DEF TurnOf
<1>4. \A wheel \in Wheel : Size(TurnOf(wheel, m)) <= 127 * WHEEL_DELTA
  BY <1>3 DEF Size, WHEEL_DELTA
<1> QED  BY <1>4 DEF IsAMouseReport

LEMMA RawMiceAreReports == \A m \in RawMice : IsAMouseReport(m)
<1> SUFFICES ASSUME NEW m \in RawMice PROVE IsAMouseReport(m)
  OBVIOUS
<1> DEFINE D == {{}, {"left"}}
           U == {{}, {"left"}, {"right"}}
           W == (SUBSET {"vertical", "horizontal"}) \ {{}}
           T == {50, 170, 65536 - 50, 65536 - 120}
           X == {-300, 1}
<1>1. /\ D \subseteq SUBSET Buttons /\ U \subseteq SUBSET Buttons /\ X \subseteq Int
      /\ {} \in SUBSET Buttons /\ {"right"} \in SUBSET Buttons
      /\ T \subseteq {0, 50, 170, 65486, 65416}
  BY DEF Buttons
<1>2. \/ m \in {Clicking(down, up) : down \in D, up \in U}
      \/ m \in {Rolling(wheels, data) : wheels \in W, data \in T}
      \/ m \in {Pushing(absolute, dx) : absolute \in BOOLEAN, dx \in X}
  BY DEF RawMice
<1> HIDE DEF D, U, W, T, X
<1>3. CASE m \in {Clicking(down, up) : down \in D, up \in U}
  <2>1. PICK down \in D, up \in U : m = Clicking(down, up)
    BY <1>3
  <2>2. m.absolute = FALSE /\ m.down = down /\ m.up = up /\ m.data = 0 /\ m.dx = 0 /\ m.dy = 0
    BY <2>1 DEF Clicking, RawMouse
  <2>3. m.absolute \in BOOLEAN
    BY <2>2
  <2>4. m.down \in SUBSET Buttons /\ m.up \in SUBSET Buttons
    BY <1>1, <2>2
  <2>5. m.data \in {0, 50, 170, 65486, 65416}
    BY <1>1, <2>2
  <2>6. m.dx \in Int /\ m.dy \in Int
    BY <1>1, <2>2
  <2> QED  BY <2>3, <2>4, <2>5, <2>6, ARawMouse
<1>4. CASE m \in {Rolling(wheels, data) : wheels \in W, data \in T}
  <2>1. PICK wheels \in W, data \in T : m = Rolling(wheels, data)
    BY <1>4
  <2>2. m.absolute = FALSE /\ m.down = {} /\ m.up = {} /\ m.data = data /\ m.dx = 0 /\ m.dy = 0
    BY <2>1 DEF Rolling, RawMouse
  <2>3. m.absolute \in BOOLEAN
    BY <2>2
  <2>4. m.down \in SUBSET Buttons /\ m.up \in SUBSET Buttons
    BY <1>1, <2>2
  <2>5. m.data \in {0, 50, 170, 65486, 65416}
    BY <1>1, <2>2
  <2>6. m.dx \in Int /\ m.dy \in Int
    BY <1>1, <2>2
  <2> QED  BY <2>3, <2>4, <2>5, <2>6, ARawMouse
<1>5. CASE m \in {Pushing(absolute, dx) : absolute \in BOOLEAN, dx \in X}
  <2>1. PICK absolute \in BOOLEAN, dx \in X : m = Pushing(absolute, dx)
    BY <1>5
  <2>2. /\ m.absolute = absolute /\ m.down = {"right"} /\ m.up = {} /\ m.data = 0
        /\ m.dx = dx /\ m.dy = 1
    BY <2>1 DEF Pushing, RawMouse
  <2>3. m.absolute \in BOOLEAN
    BY <2>2
  <2>4. m.down \in SUBSET Buttons /\ m.up \in SUBSET Buttons
    BY <1>1, <2>2
  <2>5. m.data \in {0, 50, 170, 65486, 65416}
    BY <1>1, <2>2
  <2>6. m.dx \in Int /\ m.dy \in Int
    BY <1>1, <2>2
  <2> QED  BY <2>3, <2>4, <2>5, <2>6, ARawMouse
<1> QED  BY <1>2, <1>3, <1>4, <1>5

LEMMA ValuesAreMessages == \A v \in Values : IsAMessage(v)
  BY DEF Values, Value, ValuesDone, IsAMessage, Axis, Buttons

(* The OS of the converting machine is told what the hand did, and as much *)
(* as the run was asked, of every report, value and device the run has:    *)
(* each is one the four theorems above are about.                          *)
THEOREM ThePointerFollows == Spec => []PointerFollows
<1>1. ASSUME NEW held \in SUBSET Buttons, NEW target \in Targets
      PROVE  EncodedIsDecoded(held, target)
  <2>1. PICK dx \in {0, 300}, v \in WheelTurns, h \in WheelTurns, buttons \in SUBSET Buttons :
          target = Reported(Motion(dx, -1, v, h), buttons)
    BY DEF Targets
  <2>2. v \in Int /\ Size(v) <= 273 /\ h \in Int /\ Size(h) <= 273
    BY DEF WheelTurns, Size
  <2>3. Motion(dx, -1, v, h) \in [Axis -> Int]
    <3> DEFINE dy == -1
    <3>1. dx \in Int /\ dy \in Int
      OBVIOUS
    <3> HIDE DEF dy
    <3>2. Motion(dx, dy, v, h) \in [Axis -> Int]
      BY <2>2, <3>1 DEF Motion, Axis
    <3> QED  BY <3>2 DEF dy
  <2>4. target \in Said
    BY <2>1, <2>3 DEF Reported, Said
  <2>5. target.motion["vertical_wheel"] = v /\ target.motion["horizontal_wheel"] = h
    BY <2>1 DEF Reported, Motion
  <2> QED  BY <2>2, <2>4, <2>5, EncodingIsDecoded
<1>2. ASSUME NEW inverted \in Inversions, NEW mice \in BoundedSeq(RawMice, 3)
      PROVE  CarriesTheHand(inverted, mice)
  <2>1. inverted \in SUBSET WheelAxis
    BY DEF Inversions, WheelAxis
  <2>2. mice \in Seq(RawMice)
    BY InASequence
  <2> QED  BY <2>1, <2>2, RawMiceAreReports, TheHandIsCarried
<1>3. ASSUME NEW said \in BoundedSeq(Values, 4)
      PROVE  AssemblesReports(said)
  <2>1. said \in Seq(Values)
    BY InASequence
  <2> QED  BY <2>1, ValuesAreMessages, ReportsAreAssembled
<1>4. ASSUME NEW device \in Device, NEW writable \in BOOLEAN, NEW wanted \in Wishes
      PROVE  TunedAsAsked(device, writable, wanted)
  <2>1. /\ device \in [mine : BOOLEAN, keeps : {ACCELERATION, MOUSE_ACCELERATION},
                        named : BOOLEAN, resolution : Int, scaled : Int, factor : Int]
        /\ device.resolution \in {None, device.scaled}
    BY DEF Device, None
  <2>2. \A r \in Resolutions, a \in Accelerations : r \in Int /\ a \in Int
    BY DEF Resolutions, Accelerations, None
  <2>3. \A x, y \in Int : Wanted(x, y) \in [resolution : Int, acceleration : Int]
    BY DEF Wanted, Clamped, None
  <2>4. DryRun \in [resolution : Int, acceleration : Int]
    BY <2>3 DEF DryRun, None
  <2>5. ASSUME NEW r \in Int, NEW a \in Int
        PROVE  PointerWanted(r, a) \in [resolution : Int, acceleration : Int]
    <3> DEFINE x == IF r = None THEN POINTER_RESOLUTION ELSE r
               y == IF a = None THEN POINTER_ACCELERATION ELSE a
    <3>1. x \in Int /\ y \in Int
      BY DEF POINTER_RESOLUTION, POINTER_ACCELERATION
    <3>2. PointerWanted(r, a) = Wanted(x, y)
      BY DEF PointerWanted
    <3> HIDE DEF x, y
    <3> QED  BY <2>3, <3>1, <3>2
  <2>6. CASE wanted = DryRun
    BY <2>1, <2>4, <2>6, TheFeelIsAsAsked
  <2>7. CASE wanted \in {PointerWanted(r, a) : r \in Resolutions, a \in Accelerations}
    <3>1. PICK r \in Resolutions, a \in Accelerations : wanted = PointerWanted(r, a)
      BY <2>7
    <3> QED  BY <2>1, <2>2, <2>5, <3>1, TheFeelIsAsAsked
  <2>8. CASE wanted \in {Wanted(r, a) : r \in Resolutions, a \in Accelerations}
    <3>1. PICK r \in Resolutions, a \in Accelerations : wanted = Wanted(r, a)
      BY <2>8
    <3> QED  BY <2>1, <2>2, <2>3, <3>1, TheFeelIsAsAsked
  <2> QED  BY <2>6, <2>7, <2>8 DEF Wishes
<1>5. EveryPointerFollows
  BY <1>1, <1>2, <1>3, <1>4 DEF EveryPointerFollows
<1>6. PointerFollows
  BY <1>5 DEF PointerFollows
<1> QED  BY <1>6, PTL
=============================================================================
