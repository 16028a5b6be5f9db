--------------------------- MODULE SinkRunProofs ----------------------------
(***************************************************************************)
(* Proofs about a run of the converting machine and the thread that reads  *)
(* its keyboards, for any number of keyboards, whichever of them come, go  *)
(* and are typed on, any request and any length of a run: what is taken is *)
(* kept to be given back, nothing is typed twice or lost on the converter, *)
(* and a run that is over has stranded nothing.                            *)
(*                                                                         *)
(* None of the three is inductive.  That a device taken is on the list of  *)
(* those to be given back outlives the two threads taking devices off that *)
(* list because each device is on it once (ListInv), which holds because a *)
(* finding is handled once (FindingInv), and because a place one thread    *)
(* looked up is, when it is used, that of the same device or behind the    *)
(* end of the list (LeavingInv, GivingInv).  That nothing is typed twice   *)
(* needs what the run and the thread have asked and answered (AskInv), and *)
(* that no value waits behind the loss of its keyboard (ValuesInv).        *)
(*                                                                         *)
(* And about the connection the run types through, Output, whose intervals *)
(* are any numbers: what it knows of the devices and when it beats.        *)
(***************************************************************************)
EXTENDS MCSinkRun, Output, FiniteSetTheorems, SequenceTheorems, TLAPS

(* What the state is made of.                                              *)
Handles == [id : Nat, device : Devices]
Events ==
  [what : {"Found", "Lost", "Done"}, device : Nat]
  \cup [what : {"Value"}, device : Nat, down : BOOLEAN]
  \cup [what : {"Delay", "Probe", "AlongsideStopped"}]
FoundIt(e, n) == e.what = "Found" /\ e.device = n
LostIt(e, n) == e.what = "Lost" /\ e.device = n
AboutOne(e) == e.what \in {"Found", "Lost", "Value", "Done"}
Asks ==
  [what : {"None"}] \cup [what : {"Read"}, device : Nat]
  \cup [what : {"Take"}, device : Nat, exclusive : BOOLEAN]

(* A handle carries the number its device was given.                       *)
Named(h, names) == h.id < Len(names) /\ names[h.id + 1] = h.device

KeyboardTypes ==
  /\ plugged \in [Devices -> {"Away", "Here", "Gone"}]
  /\ queued \in [Devices -> {<<>>, <<TRUE>>, <<FALSE>>}]
  /\ here \subseteq Devices /\ arriving \subseteq Devices
  /\ cpc \in {"Unstarted", "Asking", "Listing", "Failed", "Devices", "Values", "Gone",
              "Turn", "Asks", "Panicked"}
  /\ known \in Seq(Devices) /\ IsInjective(known)
  /\ pending \subseteq Handles /\ watched \subseteq Handles
  /\ pending \cap watched = {}
  /\ \A h \in pending \cup watched : Named(h, known)

StreamTypes ==
  /\ stream \in Seq(Events)
  /\ \A i \in 1..Len(stream) : AboutOne(stream[i]) => stream[i].device < Len(known)

RunTypes ==
  /\ mode \in Requests
  /\ rpc \in {"Switch", "Permission", "Output", "Link", "Look", "Wait", "Taking",
              "Reading", "LookIn", "ReleaseAll", "GiveBack", "Closing", "TakingOff",
              "Over", "Parked", "Panicked"}
  /\ output \in {"Unopened", "Up", "Gone"}
  /\ attached \subseteq 0..Len(known) - 1 /\ down \subseteq 0..Len(known) - 1
  /\ os \subseteq down
  /\ sinceLook \in 0..EventsPerLook
  /\ hand \subseteq Handles /\ (hand # {}) = (rpc = "Closing")
  /\ place \subseteq Nat
  /\ place # {} => rpc \in {"TakingOff", "Panicked"}

(* What the capture thread has put down, and in which part of a turn.      *)
TurnInv ==
  /\ ready \subseteq DevicesOf(watched)
  /\ cpc \in {"Gone", "Panicked"} => ready = {}
  /\ gone \subseteq Range(known)
  /\ \A d \in gone : plugged[d] = "Gone"
  /\ leaving # {} => cpc = "Gone"
  /\ \A l \in leaving : leaving = {l} /\ l.device \in gone

(* How far the run has come, and what there is nothing of before.          *)
OrderInv ==
  /\ rpc \in {"Switch", "Permission", "Output", "Link", "Look"} => cpc = "Unstarted"
  /\ cpc = "Unstarted" =>
       /\ known = <<>> /\ pending = {} /\ watched = {} /\ held = <<>> /\ seized = {}
       /\ ready = {} /\ gone = {} /\ leaving = {}
  /\ Injecting /\ cpc # "Unstarted" => output # "Unopened"
  /\ Injecting /\ rpc \in {"Link", "Look"} => output # "Unopened"
  /\ seized # {} => Injecting
  /\ os # {} => Injecting /\ output = "Up"
  /\ rpc \in {"GiveBack", "Closing", "TakingOff", "Over", "Panicked"} => os = {}

(* What the run asks is about the keyboard whose finding it is handling.   *)
Subject == stream[1].device
AskInv ==
  /\ request \in Asks /\ reply \in {"None", "Yes", "No"}
  /\ rpc \notin {"Taking", "Reading"} => request = NoAsk /\ reply = "None"
  /\ rpc \in {"Taking", "Reading"} => stream # <<>> /\ stream[1].what = "Found"
  /\ rpc = "Taking" => request \in {NoAsk, Take(Subject, Injecting)}
  /\ rpc = "Reading" => request \in {NoAsk, Read(Subject)}
  /\ reply # "None" => request = NoAsk

(* The list of those to be given back: each device once, and whoever is    *)
(* about to take one off knows its place, if it is there still.            *)
TakenNow(n) ==
  /\ rpc = "Reading" \/ (rpc = "Taking" /\ reply = "Yes")
  /\ FoundIt(stream[1], n)
ListInv ==
  /\ held \in Seq(Handles) /\ \A i \in 1..Len(held) : Named(held[i], known)
  /\ \A i, j \in 1..Len(held) : held[i].device = held[j].device => i = j
  /\ \A d \in seized : \E i \in 1..Len(held) : held[i].device = d
NotOnTheList(n) == \A j \in 1..Len(held) : held[j].device # known[n + 1]
FindingInv ==
  \A n \in 0..Len(known) - 1, i \in 1..Len(stream) :
    FoundIt(stream[i], n) =>
      /\ NotOnTheList(n) \/ TakenNow(n)
      /\ \A j \in 1..Len(stream) : FoundIt(stream[j], n) => i = j
LeavingInv ==
  \A l \in leaving :
    /\ l.device \notin seized
    /\ \A i \in l.at :
         /\ i \in Nat \ {0}
         /\ i <= Len(held) => held[i].device = l.device
GivingInv ==
  /\ \A h \in hand, i \in 1..Len(held) : held[i].device = h.device => i = Len(held)
  /\ \A i \in place :
       /\ i \in Nat \ {0} /\ i >= Len(held)
       /\ i = Len(held) => held[i].device \notin seized
HeldInv == ListInv /\ FindingInv /\ LeavingInv /\ GivingInv

(* What is typed is typed on a keyboard nothing else reads.                *)
Ours(n) == known[n + 1] \in seized \/ plugged[known[n + 1]] = "Gone"
TypedInv ==
  Injecting /\ rpc \notin {"GiveBack", "Closing", "TakingOff", "Over", "Panicked"} =>
    /\ \A n \in attached \cup down : Ours(n)
    /\ rpc = "Reading" \/ (rpc = "Taking" /\ reply = "Yes") => Ours(Subject)

(* The converter was told of every keyboard that is read, before its values *)
(* and not of its loss.                                                     *)
ToldOf(n) ==
  \/ n \in attached
  \/ rpc = "Reading" /\ reply = "Yes" /\ FoundIt(stream[1], n)
ValuesInv ==
  /\ \A i \in 1..Len(stream) : stream[i].what = "Value" =>
       /\ ToldOf(stream[i].device)
       /\ \A j \in 1..i - 1 : ~LostIt(stream[j], stream[i].device)
  /\ \A h \in watched : ToldOf(h.id)
  /\ \A h \in pending \cup watched, i \in 1..Len(stream) : ~LostIt(stream[i], h.id)

EndInv == rpc = "Over" /\ ~refused => seized = {} /\ held = <<>>
-----------------------------------------------------------------------------
(* What is taken in and what is put on a sequence.                         *)
LEMMA TailOf ==
  ASSUME NEW S, NEW s \in Seq(S), s # <<>>
  PROVE  /\ Len(s) \in Nat \ {0} /\ Tail(s) \in Seq(S) /\ Len(Tail(s)) = Len(s) - 1
         /\ Head(s) = s[1] /\ s[1] \in S
         /\ \A i \in 1..Len(s) - 1 : Tail(s)[i] = s[i + 1]
  OBVIOUS

LEMMA Behind ==
  ASSUME NEW S, NEW s \in Seq(S), NEW t \in Seq(S)
  PROVE  /\ s \o t \in Seq(S) /\ Len(s \o t) = Len(s) + Len(t)
         /\ \A i \in 1..Len(s) : (s \o t)[i] = s[i]
         /\ \A i \in 1..Len(s) + Len(t) : i > Len(s) => (s \o t)[i] = t[i - Len(s)]
  OBVIOUS

LEMMA WithoutOne ==
  ASSUME NEW S, NEW s \in Seq(S), NEW n \in 1..Len(s)
  PROVE  /\ RemoveAt(s, n) \in Seq(S) /\ Len(RemoveAt(s, n)) = Len(s) - 1
         /\ \A i \in 1..Len(s) - 1 :
              RemoveAt(s, n)[i] = IF i < n THEN s[i] ELSE s[i + 1]
<1> DEFINE a == SubSeq(s, 1, n - 1)  b == SubSeq(s, n + 1, Len(s))
<1>1. a \in Seq(S) /\ Len(a) = n - 1 /\ \A i \in 1..n - 1 : a[i] = s[i]
  OBVIOUS
<1>2. b \in Seq(S) /\ Len(b) = Len(s) - n /\ \A i \in 1..Len(s) - n : b[i] = s[n + i]
  OBVIOUS
<1>3. RemoveAt(s, n) = a \o b
  BY DEF RemoveAt
<1> HIDE DEF a, b
<1>4. n \in Nat /\ Len(s) \in Nat /\ Len(a) + Len(b) = Len(s) - 1
  BY <1>1, <1>2
<1>5. /\ a \o b \in Seq(S) /\ Len(a \o b) = Len(s) - 1
      /\ \A i \in 1..Len(s) - 1 : (a \o b)[i] = IF i <= Len(a) THEN a[i] ELSE b[i - Len(a)]
  BY <1>1, <1>2, <1>4
<1>6. ASSUME NEW i \in 1..Len(s) - 1
      PROVE  (a \o b)[i] = IF i < n THEN s[i] ELSE s[i + 1]
  <2>1. CASE i < n
    BY <1>1, <1>4, <1>5, <2>1
  <2>2. CASE ~(i < n)
    <3>1. i - Len(a) \in 1..Len(s) - n /\ n + (i - Len(a)) = i + 1
      BY <1>1, <1>4, <2>2
    <3> QED  BY <1>1, <1>2, <1>4, <1>5, <2>2, <3>1
  <2> QED  BY <2>1, <2>2
<1> QED
  BY <1>3, <1>5, <1>6

-----------------------------------------------------------------------------
(* What a step of the machine or of the thread leaves to the run, and what *)
(* one of the run leaves to them.                                          *)
ByTheThread == (Machine \/ Capturing) /\ UNCHANGED rvars
ByTheRun == Switch \/ AskToStop \/ BoundComesUp \/ OutputGoes \/ LinkReturns \/ Run

LEMMA WhoSteps == ASSUME [Next]_vars PROVE ByTheThread \/ ByTheRun \/ UNCHANGED vars
  BY DEF Next, World, Machine, Capture, ByTheThread, ByTheRun

LEMMA RunLeaves ==
  ASSUME AskInv, ByTheRun
  PROVE  /\ UNCHANGED <<machine, here, arriving, lists, ready, gone, leaving, answering, mode>>
         /\ UNCHANGED cpc \/ (rpc = "Look" /\ rpc' = "Wait" /\ cpc' = "Asking")
         /\ \/ UNCHANGED stream
            \/ stream # <<>> /\ stream' = Tail(stream)
            \/ stream' = stream \o <<AlongsideStopped>>
<1> USE DEF Quietly, kvars, machine, lists, asking, Deliver, GoTo
<1>1. CASE Switch \/ AskToStop \/ BoundComesUp \/ OutputGoes \/ LinkReturns
  BY <1>1 DEF Switch, AskToStop, BoundComesUp, OutputGoes, LinkReturns
<1>2. CASE SwitchedOff \/ MayReadInput \/ BringUpTheOutput \/ Listen \/ LookForDevices
  BY <1>2 DEF SwitchedOff, MayReadInput, BringUpTheOutput, Listen, LookForDevices
<1>3. CASE TakesInAFact \/ MeansNothing \/ TakeDevice \/ Handle1 \/ NothingArrives
  BY <1>3 DEF TakesInAFact, MeansNothing, TakeDevice, Handle1, NothingArrives
<1>4. CASE Taken \/ BeingRead
  BY <1>4 DEF Taken, BeingRead, AskInv
<1>5. CASE CarriesOn \/ Reconnect \/ Refused \/ EndsMeanwhile \/ Park
  BY <1>5 DEF CarriesOn, Reconnect, Refused, EndsMeanwhile, Park
<1>6. CASE ReleaseEverything \/ NextHeld \/ Close \/ TakesItOff \/ Panics
  BY <1>6 DEF ReleaseEverything, NextHeld, Close, TakesItOff, Panics
<1> QED
  BY <1>1, <1>2, <1>3, <1>4, <1>5, <1>6 DEF ByTheRun, Run
-----------------------------------------------------------------------------
(* The thread's own state: a device is known once, and a handle is found   *)
(* or read, not both, under the number of its device.                      *)
LEMMA KeyboardTypesStep ==
  ASSUME KeyboardTypes, OrderInv, AskInv, [Next]_vars
  PROVE  KeyboardTypes'
<1> USE DEF KeyboardTypes, Named, kvars, machine, lists, asking
<1>1. CASE UNCHANGED vars
  BY <1>1 DEF vars
<1>2. CASE ByTheRun
  BY <1>2, RunLeaves
<1>3. ASSUME NEW d \in Lively, PlugIn(d) \/ PullOut(d) \/ Type(d) PROVE KeyboardTypes'
  <2>1. d \in Devices
    BY KeyboardsAssumption
  <2>2. CASE PlugIn(d)
    BY <2>1, <2>2 DEF PlugIn
  <2>3. CASE PullOut(d)
    BY <2>1, <2>3 DEF PullOut
  <2>4. CASE Type(d)
    BY <2>1, <2>4 DEF Type
  <2> QED  BY <1>3, <2>2, <2>3, <2>4
<1>4. CASE AskToBeTold
  BY <1>4 DEF AskToBeTold
<1>5. CASE LookAtTheDevicesHere
  BY <1>5 DEF LookAtTheDevicesHere, Phase
<1>6. CASE TurnTheLoop
  BY <1>6 DEF TurnTheLoop
<1>7. CASE NothingMoreAsked
  BY <1>7 DEF NothingMoreAsked, Phase
<1>8. CASE Seize
  BY <1>8 DEF Seize
<1>9. CASE StartReading
  BY <1>9 DEF StartReading, Waiting
<1>10. CASE DrainDevices
  <2>1. PICK d \in Devices :
           OneDevice(d) /\ here' \subseteq Devices /\ arriving' \subseteq Devices
    BY <1>10 DEF DrainDevices
  <2>2. /\ UNCHANGED <<plugged, queued, watched>>
        /\ cpc' = Phase(here' \cup arriving', ready, gone)
    BY <1>10 DEF DrainDevices
  <2>3. CASE UNCHANGED <<known, pending>>
    BY <2>1, <2>2, <2>3 DEF Phase
  <2>4. CASE plugged[d] = "Here" /\ Keep(d) /\ d \in Range(known)
    <3>1. /\ UNCHANGED known
          /\ pending' = {h \in pending \cup {Handle(Len(known), d)} : h.id # Len(known)}
      BY <2>4 DEF Keep
    <3>2. pending' \subseteq pending
      BY <3>1 DEF Handle
    <3> QED  BY <2>1, <2>2, <3>1, <3>2 DEF Phase
  <2>5. CASE plugged[d] = "Here" /\ Keep(d) /\ d \notin Range(known)
    <3>1. /\ known' = Append(known, d)
          /\ pending' = pending \cup {Handle(Len(known), d)}
      BY <2>5 DEF Keep
    <3>2. /\ known' \in Seq(Devices) /\ Len(known') = Len(known) + 1
          /\ known'[Len(known) + 1] = d
          /\ \A i \in 1..Len(known) : known'[i] = known[i] /\ known[i] # d
      BY <2>1, <2>5, <3>1 DEF Range
    <3>3. IsInjective(known')
      BY <3>2 DEF IsInjective
    <3>4. Handle(Len(known), d) \in Handles /\ Handle(Len(known), d) \notin watched
      BY <2>1 DEF Handle, Handles
    <3>5. \A h \in pending' \cup watched' : Named(h, known')
      BY <2>2, <3>1, <3>2 DEF Handle, Handles
    <3> QED  BY <2>1, <2>2, <3>1, <3>2, <3>3, <3>4, <3>5 DEF Phase
  <2> QED  BY <2>1, <2>3, <2>4, <2>5 DEF OneDevice
<1>11. CASE DrainValues
  BY <1>11 DEF DrainValues, Phase, Handles
<1>12. CASE GiveItBack
  BY <1>12 DEF GiveItBack
<1>13. CASE ForgetIt
  BY <1>13 DEF ForgetIt, Phase
<1>14. CASE ThreadPanics
  BY <1>14 DEF ThreadPanics
<1> QED
  BY <1>1, <1>2, <1>3, <1>4, <1>5, <1>6, <1>7, <1>8, <1>9, <1>10, <1>11, <1>12,
     <1>13, <1>14, WhoSteps DEF ByTheThread, Machine, Capturing
-----------------------------------------------------------------------------
(* What an event says, and what it is about.                               *)
LEMMA StreamEvents ==
  /\ AlongsideStopped \in Events /\ AlongsideStopped.what = "AlongsideStopped"
  /\ Delay \in Events /\ Delay.what = "Delay"
  /\ Probe \in Events /\ Probe.what = "Probe"
  /\ \A n \in Nat : /\ Found(n) \in Events /\ FoundIt(Found(n), n)
                    /\ Found(n).what = "Found" /\ Found(n).device = n
                    /\ Lost(n) \in Events /\ LostIt(Lost(n), n) /\ Lost(n).what = "Lost"
                    /\ Lost(n).device = n
                    /\ Done(n) \in Events /\ Done(n).device = n /\ Done(n).what = "Done"
                    /\ \A pressed \in BOOLEAN :
                         Value(n, pressed) \in Events /\ Value(n, pressed).device = n
                         /\ Value(n, pressed).what = "Value"
  BY DEF AlongsideStopped, Delay, Probe, Found, Lost, Done, Value, Events, AboutOne, FoundIt,
         LostIt

(* A device that is known has a number, and it is that device's.           *)
LEMMA NumberOf ==
  ASSUME KeyboardTypes, NEW d \in Range(known)
  PROVE  Number(d) \in 0..Len(known) - 1 /\ known[Number(d) + 1] = d
<1>1. PICK i \in 1..Len(known) : known[i] = d
  BY DEF Range, KeyboardTypes
<1>2. i - 1 \in 0..Len(known) - 1 /\ known[(i - 1) + 1] = d
  BY <1>1 DEF KeyboardTypes
<1> QED
  BY <1>2 DEF Number

(* What the thread puts on the stream, and what it does as it does.        *)
NewlyKnown(n) ==
  /\ n = Len(known) /\ Len(known') = n + 1
  /\ \A i \in 1..n : known'[n + 1] # known[i]
JustForgotten(n) ==
  \E d \in Range(known) :
    /\ n \in 0..Len(known) - 1 /\ known[n + 1] = d /\ UNCHANGED known
    /\ watched' = {h \in watched : h.device # d}
    /\ pending' = {h \in pending : h.device # d}
IsRead(n) == \E h \in watched : h.id = n
Fed(t) ==
  /\ t \in Seq(Events) /\ stream' = stream \o t
  /\ \A i \in 1..Len(t) :
       /\ AboutOne(t[i]) => t[i].device < Len(known')
       /\ t[i].what = "Found" => Len(t) = 1 /\ NewlyKnown(t[i].device)
       /\ t[i].what = "Lost" => JustForgotten(t[i].device)
       /\ t[i].what = "Value" => IsRead(t[i].device) /\ UNCHANGED <<watched, pending>>

(* Every delivery of the thread is one of these.                           *)
LEMMA ThreadFeeds ==
  ASSUME KeyboardTypes, TurnInv, ByTheThread
  PROVE  UNCHANGED stream \/ \E t \in Seq(Events) : Fed(t)
<1> USE DEF ByTheThread, KeyboardTypes, Named, kvars, machine, lists, asking
<1>1. CASE Machine
  BY <1>1 DEF Machine, PlugIn, PullOut, Type
<1>2. CASE AskToBeTold \/ LookAtTheDevicesHere \/ NothingMoreAsked \/ Seize \/ StartReading
           \/ GiveItBack \/ ThreadPanics
  BY <1>2 DEF AskToBeTold, LookAtTheDevicesHere, NothingMoreAsked, Seize, StartReading,
              GiveItBack, ThreadPanics
<1>3. CASE TurnTheLoop
  <2>1. PICK t \in {<<>>, <<Probe>>} : stream' = stream \o t
    BY <1>3 DEF TurnTheLoop, TakeProbes, Deliver
  <2>2. CASE t = <<>>
    BY <2>1, <2>2 DEF Fed
  <2>3. CASE t = <<Probe>>
    <3>1. Fed(<<Probe>>)
      BY <2>1, <2>3, StreamEvents DEF Fed, AboutOne
    <3> QED  BY <3>1 DEF Fed
  <2> QED  BY <2>1, <2>2, <2>3 DEF Fed
<1>4. CASE DrainDevices
  <2>1. PICK d \in Devices : OneDevice(d)
    BY <1>4 DEF DrainDevices
  <2>2. CASE UNCHANGED stream
    BY <2>2
  <2>3. CASE Keep(d) /\ d \notin Range(known)
    <3>1. stream' = stream \o <<Found(Len(known))>> /\ known' = Append(known, d)
      BY <2>1, <2>3 DEF Keep, Deliver
    <3>2. NewlyKnown(Len(known))
      BY <2>3, <3>1 DEF NewlyKnown, Range
    <3>3. Len(known) \in Nat /\ Len(known) < Len(known')
      BY <3>1
    <3>4. Fed(<<Found(Len(known))>>)
      BY <3>1, <3>2, <3>3, StreamEvents DEF Fed, AboutOne
    <3> QED  BY <3>4 DEF Fed
  <2> QED  BY <2>1, <2>2, <2>3 DEF OneDevice, Keep
<1>5. CASE DrainValues
  <2>1. PICK h \in watched :
           stream' = stream \o Values(h) /\ UNCHANGED <<known, watched, pending>>
    BY <1>5 DEF DrainValues, Deliver
  <2>2. h.id \in Nat /\ h.id < Len(known) /\ h.device \in Devices /\ IsRead(h.id)
    BY DEF Handles, IsRead
  <2>3. \/ Values(h) = <<Done(h.id)>>
        \/ \E pressed \in BOOLEAN : Values(h) = <<Delay, Value(h.id, pressed), Done(h.id)>>
    <3>1. queued[h.device] \in {<<>>, <<TRUE>>, <<FALSE>>}
      BY <2>2
    <3>2. CASE queued[h.device] = <<>>
      BY <3>2 DEF Values
    <3>3. CASE queued[h.device] = <<TRUE>> \/ queued[h.device] = <<FALSE>>
      <4>1. PICK q \in BOOLEAN : queued[h.device] = <<q>>
        BY <3>3
      <4>2. <<q>> # <<>> /\ Head(<<q>>) = q
        OBVIOUS
      <4> QED  BY <4>1, <4>2 DEF Values
    <3> QED  BY <3>1, <3>2, <3>3
  <2>4. Fed(Values(h))
    <3>1. CASE Values(h) = <<Done(h.id)>>
      BY <2>1, <2>2, <3>1, StreamEvents DEF Fed, AboutOne
    <3>2. ASSUME NEW pressed \in BOOLEAN, Values(h) = <<Delay, Value(h.id, pressed), Done(h.id)>>
          PROVE  Fed(Values(h))
      <4> DEFINE v == Value(h.id, pressed)
      <4>1. /\ Delay \in Events /\ Delay.what = "Delay"
            /\ v \in Events /\ v.device = h.id /\ v.what = "Value"
            /\ Done(h.id) \in Events /\ Done(h.id).device = h.id /\ Done(h.id).what = "Done"
        BY <2>2, StreamEvents
      <4> HIDE DEF v
      <4>2. /\ <<Delay, v, Done(h.id)>> \in Seq(Events)
            /\ \A i \in 1..3 : <<Delay, v, Done(h.id)>>[i] \in {Delay, v, Done(h.id)}
            /\ Len(<<Delay, v, Done(h.id)>>) = 3
        BY <4>1
      <4> QED  BY <2>1, <2>2, <3>2, <4>1, <4>2 DEF Fed, AboutOne, v
    <3> QED  BY <2>3, <3>1, <3>2
  <2> QED  BY <2>4 DEF Fed
<1>6. CASE ForgetIt
  <2>1. PICK l \in leaving :
           /\ stream' = stream \o <<Lost(Number(l.device))>> /\ UNCHANGED known
           /\ watched' = {h \in watched : h.device # l.device}
           /\ pending' = {h \in pending : h.device # l.device}
    BY <1>6 DEF ForgetIt, Deliver
  <2>2. l.device \in Range(known)
    BY DEF TurnInv
  <2>3. Number(l.device) \in 0..Len(known) - 1 /\ known[Number(l.device) + 1] = l.device
    BY <2>2, NumberOf
  <2>4. JustForgotten(Number(l.device))
    BY <2>1, <2>2, <2>3 DEF JustForgotten
  <2>5. Fed(<<Lost(Number(l.device))>>)
    BY <2>1, <2>3, <2>4, StreamEvents DEF Fed, AboutOne
  <2> QED  BY <2>5 DEF Fed
<1> QED
  BY <1>1, <1>2, <1>3, <1>4, <1>5, <1>6 DEF Capturing

(* What the run is handling stays at the head of the stream.               *)
LEMMA HeadStays ==
  ASSUME KeyboardTypes, StreamTypes, TurnInv, ByTheThread \/ LinkReturns, stream # <<>>
  PROVE  stream' # <<>> /\ stream'[1] = stream[1]
<1>1. CASE UNCHANGED stream
  BY <1>1
<1>2. ASSUME NEW t \in Seq(Events), stream' = stream \o t
      PROVE  stream' # <<>> /\ stream'[1] = stream[1]
  BY <1>2 DEF StreamTypes
<1>3. /\ LinkReturns => stream' = stream \o <<AlongsideStopped>>
      /\ <<AlongsideStopped>> \in Seq(Events)
  BY StreamEvents DEF LinkReturns, Deliver
<1> QED
  BY <1>1, <1>2, <1>3, ThreadFeeds DEF Fed

(* The three ways the stream goes on.                                      *)
Shifted == stream # <<>> /\ stream' = Tail(stream)

(* And what has come of it for the stream in any step.                     *)
LEMMA StreamSteps ==
  ASSUME KeyboardTypes, AskInv, TurnInv, [Next]_vars
  PROVE  UNCHANGED stream \/ Shifted \/ \E t \in Seq(Events) : Fed(t)
<1>1. ASSUME stream' = stream \o <<AlongsideStopped>> PROVE Fed(<<AlongsideStopped>>)
  BY <1>1, StreamEvents DEF Fed, AboutOne
<1> QED
  BY <1>1, WhoSteps, RunLeaves, ThreadFeeds DEF Fed, Shifted, vars, kvars

(* An event of a stream that was fed was there, or is one of those fed.    *)
LEMMA FedIs ==
  ASSUME StreamTypes, NEW t \in Seq(Events), Fed(t), NEW i \in 1..Len(stream')
  PROVE  \/ i \in 1..Len(stream) /\ stream'[i] = stream[i]
         \/ i > Len(stream) /\ \E k \in 1..Len(t) : i = Len(stream) + k /\ stream'[i] = t[k]
<1>1. /\ stream' = stream \o t /\ Len(stream) \in Nat /\ Len(t) \in Nat
      /\ Len(stream') = Len(stream) + Len(t)
      /\ \A j \in 1..Len(stream) : stream'[j] = stream[j]
      /\ \A j \in 1..Len(stream) + Len(t) : j > Len(stream) => stream'[j] = t[j - Len(stream)]
  BY Behind DEF StreamTypes, Fed
<1>2. CASE i <= Len(stream)
  BY <1>1, <1>2
<1>3. CASE ~(i <= Len(stream))
  <2>1. PICK k \in 1..Len(t) : i = Len(stream) + k /\ i - Len(stream) = k
    BY <1>1, <1>3
  <2> QED  BY <1>1, <1>3, <2>1
<1> QED
  BY <1>2, <1>3

(* Events move up as the first is handled.                                 *)
LEMMA ShiftedIs ==
  ASSUME StreamTypes, Shifted
  PROVE  /\ Len(stream') \in Nat /\ 1 \in 1..Len(stream)
         /\ \A i \in 1..Len(stream') : i + 1 \in 1..Len(stream) /\ stream'[i] = stream[i + 1]
  BY TailOf DEF StreamTypes, Shifted

(* The numbers given so far stay.                                          *)
LEMMA NumbersStay ==
  ASSUME KeyboardTypes, OrderInv, AskInv, [Next]_vars
  PROVE  /\ Len(known) \in Nat /\ Len(known)' \in Nat /\ Len(known)' >= Len(known)
         /\ \A i \in 1..Len(known) : known'[i] = known[i]
<1> USE DEF KeyboardTypes, kvars, machine, lists, asking
<1>1. CASE UNCHANGED known
  BY <1>1
<1>2. CASE DrainDevices
  <2>1. PICK d \in Devices : OneDevice(d)
    BY <1>2 DEF DrainDevices
  <2> QED  BY <1>1, <2>1 DEF OneDevice, Keep
<1> QED
  BY <1>1, <1>2, WhoSteps, RunLeaves
     DEF ByTheThread, Machine, Capturing, PlugIn, PullOut, Type, AskToBeTold,
         LookAtTheDevicesHere, TurnTheLoop, NothingMoreAsked, Seize, StartReading, DrainValues,
         GiveItBack, ForgetIt, ThreadPanics, vars

(* An event is of a device that was numbered by then.                      *)
LEMMA StreamTypesStep ==
  ASSUME KeyboardTypes, StreamTypes, TurnInv, OrderInv, AskInv, [Next]_vars
  PROVE  StreamTypes'
<1>1. CASE UNCHANGED stream
  BY <1>1, NumbersStay DEF StreamTypes, Events, AboutOne
<1>2. ASSUME NEW t \in Seq(Events), Fed(t) PROVE StreamTypes'
  <2>1. stream' \in Seq(Events)
    BY <1>2 DEF Fed, StreamTypes
  <2>2. ASSUME NEW i \in 1..Len(stream'), AboutOne(stream'[i])
        PROVE  stream'[i].device < Len(known)'
    <3>1. CASE i <= Len(stream)
      <4>1. i \in 1..Len(stream) /\ stream'[i] = stream[i]
        BY <1>2, <2>1, <2>2, <3>1 DEF Fed, StreamTypes
      <4>2. stream[i].device \in Nat
        BY <2>2, <4>1 DEF StreamTypes, Events, AboutOne
      <4> QED  BY <2>2, <4>1, <4>2, NumbersStay DEF StreamTypes
    <3>2. CASE i > Len(stream)
      <4>1. i - Len(stream) \in 1..Len(t) /\ stream'[i] = t[i - Len(stream)]
        BY <1>2, <3>2, Behind DEF Fed, StreamTypes
      <4> QED  BY <1>2, <2>2, <4>1 DEF Fed
    <3> QED  BY <3>1, <3>2 DEF StreamTypes
  <2> QED  BY <2>1, <2>2 DEF StreamTypes
<1>3. CASE Shifted
  BY <1>3, ShiftedIs, TailOf, NumbersStay DEF Shifted, StreamTypes, Events, AboutOne
<1> QED
  BY <1>1, <1>2, <1>3, StreamSteps
-----------------------------------------------------------------------------
(* An ask is about the finding at the head of the stream, and is answered  *)
(* once.                                                                   *)
LEMMA AskStep ==
  ASSUME StreamTypes, AskInv, KeyboardTypes, TurnInv, RunTypes, [Next]_vars
  PROVE  AskInv'
<1> USE DEF AskInv, Subject, Injecting, kvars, machine, lists, asking, Quietly
<1>0. /\ NoAsk \in Asks
      /\ \A n \in Nat, x \in BOOLEAN : Take(n, x) \in Asks /\ Read(n) \in Asks
  BY DEF NoAsk, Take, Read, Asks
<1>1. CASE UNCHANGED vars
  BY <1>1 DEF vars, rvars
<1>2. ASSUME ByTheThread PROVE AskInv'
  <2>1. UNCHANGED <<rpc, mode>>
    BY <1>2 DEF ByTheThread, rvars
  <2>2. stream # <<>> => stream' # <<>> /\ stream'[1] = stream[1]
    BY <1>2, HeadStays
  <2>3. CASE UNCHANGED <<request, reply>>
    BY <2>1, <2>2, <2>3
  <2>4. CASE NothingMoreAsked
    BY <1>0, <2>1, <2>2, <2>4 DEF NothingMoreAsked
  <2>5. CASE Seize \/ StartReading
    <3>1. request # NoAsk /\ request' = NoAsk /\ reply' \in {"Yes", "No"}
      BY <2>5 DEF Seize, StartReading, CanAnswer
    <3> QED  BY <1>0, <2>1, <2>2, <3>1
  <2> QED
    BY <1>2, <2>3, <2>4, <2>5
       DEF ByTheThread, Machine, Capturing, PlugIn, PullOut, Type, AskToBeTold,
           LookAtTheDevicesHere, TurnTheLoop, DrainDevices, DrainValues, GiveItBack, ForgetIt,
           ThreadPanics
<1>3. CASE Switch \/ AskToStop \/ BoundComesUp \/ OutputGoes
  BY <1>3 DEF Switch, AskToStop, BoundComesUp, OutputGoes
<1>4. CASE LinkReturns
  BY <1>4 DEF LinkReturns, Deliver, StreamTypes
<1>5. CASE SwitchedOff \/ MayReadInput \/ BringUpTheOutput \/ Listen \/ LookForDevices
  BY <1>5 DEF SwitchedOff, MayReadInput, BringUpTheOutput, Listen, LookForDevices, GoTo, EndWith
<1>6. CASE TakesInAFact \/ MeansNothing \/ Handle1 \/ NothingArrives
  BY <1>6 DEF TakesInAFact, MeansNothing, Handle1, NothingArrives, GoTo, PassedOver,
              AfterAnEvent
<1>7. CASE TakeDevice \/ Taken
  <2>1. stream # <<>> => Next1 = stream[1] /\ stream[1] \in Events
    BY TailOf DEF Next1, StreamTypes
  <2>2. stream # <<>> /\ stream[1].what = "Found" => stream[1].device \in Nat
    BY <2>1 DEF Events
  <2>3. CASE TakeDevice
    <3>1. /\ stream # <<>> /\ stream[1].what = "Found" /\ UNCHANGED <<stream, mode, reply>>
          /\ rpc = "Wait" /\ rpc' = "Taking" /\ request' = Take(stream[1].device, Injecting)
      BY <2>1, <2>3 DEF TakeDevice, GoTo, TheAsk
    <3> QED  BY <1>0, <2>2, <3>1
  <2>4. CASE Taken /\ reply = "Yes"
    <3>1. /\ UNCHANGED <<stream, mode>>
          /\ rpc = "Taking" /\ rpc' = "Reading" /\ request' = Read(stream[1].device)
          /\ reply' = "None"
      BY <2>1, <2>4 DEF Taken, GoTo
    <3> QED  BY <1>0, <2>2, <3>1
  <2>5. CASE Taken /\ reply # "Yes"
    <3>1. rpc' \in {"Wait", "LookIn"} /\ reply' = "None" /\ UNCHANGED request
      BY <2>5 DEF Taken, GoTo, PassedOver, AfterAnEvent
    <3>2. request = NoAsk
      BY <2>5 DEF Taken, Answered, Dropped
    <3> QED  BY <1>0, <3>1, <3>2
  <2> QED  BY <1>7, <2>3, <2>4, <2>5
<1>8. CASE BeingRead
  BY <1>8 DEF BeingRead, GoTo, Answered, Dropped, PassedOver, AfterAnEvent
<1>9. CASE CarriesOn \/ Reconnect \/ Refused \/ EndsMeanwhile \/ Park
  BY <1>9 DEF CarriesOn, Reconnect, Refused, EndsMeanwhile, Park, GoTo, EndWith
<1>10. CASE ReleaseEverything \/ NextHeld \/ Close \/ TakesItOff \/ Panics
  BY <1>10 DEF ReleaseEverything, NextHeld, Close, TakesItOff, Panics, GoTo
<1> QED
  BY <1>1, <1>2, <1>3, <1>4, <1>5, <1>6, <1>7, <1>8, <1>9, <1>10, WhoSteps
     DEF ByTheRun, Run
-----------------------------------------------------------------------------
(* The run's own state.                                                    *)
LEMMA RunTypesStep ==
  ASSUME StreamTypes, AskInv, KeyboardTypes, TurnInv, OrderInv, HeldInv, ValuesInv, RunTypes,
         [Next]_vars
  PROVE  RunTypes'
<1>0. /\ Len(known) \in Nat /\ Len(known)' \in Nat /\ Len(known) <= Len(known)'
      /\ EventsPerLook \in Nat
  BY NumbersStay, SinkRunAssumption
<1>1. CASE UNCHANGED vars
  BY <1>1 DEF vars, rvars, kvars, lists, RunTypes, world, sink, giving
<1>2. CASE ByTheThread
  BY <1>0, <1>2 DEF ByTheThread, rvars, RunTypes, world, sink, giving
<1>3. ASSUME ByTheRun PROVE RunTypes'
  <2>1. UNCHANGED <<known, mode>>
    BY <1>3, RunLeaves DEF lists
  <2> USE DEF RunTypes, world, sink, giving, Injecting, kvars, GoTo
  <2>2. CASE Switch \/ AskToStop \/ BoundComesUp \/ OutputGoes \/ LinkReturns
    BY <2>1, <2>2 DEF Switch, AskToStop, BoundComesUp, OutputGoes, LinkReturns
  <2>3. CASE SwitchedOff \/ MayReadInput \/ BringUpTheOutput \/ Listen \/ LookForDevices
    BY <2>1, <2>3 DEF SwitchedOff, MayReadInput, BringUpTheOutput, Listen, LookForDevices,
                      EndWith
  <2>4. CASE TakesInAFact \/ TakeDevice \/ NothingArrives
    BY <1>0, <2>1, <2>4 DEF TakesInAFact, TakeDevice, NothingArrives
  <2>5. AfterAnEvent \/ PassedOver =>
           sinceLook' \in 0..EventsPerLook /\ rpc' \in {"Wait", "LookIn"}
    BY <1>0 DEF PassedOver, AfterAnEvent
  <2>6. CASE MeansNothing
    BY <2>1, <2>5, <2>6 DEF MeansNothing
  <2>7. CASE Taken
    BY <2>1, <2>5, <2>7 DEF Taken
  <2>8. CASE BeingRead
    <3>1. Next1.device \in 0..Len(known) - 1
      BY <2>8, TailOf DEF BeingRead, Next1, AskInv, StreamTypes, Events, AboutOne
    <3> QED  BY <2>1, <2>5, <2>8, <3>1 DEF BeingRead
  <2>9. CASE Handle1
    <3>1. Next1.what = "Value" => Next1.device \in 0..Len(known) - 1
      BY <2>9, TailOf DEF Handle1, Next1, StreamTypes, Events, AboutOne
    <3>2. down' \subseteq 0..Len(known) - 1 /\ attached' \subseteq attached
      BY <2>9, <3>1 DEF Handle1
    <3>3. os' \subseteq down'
      BY <2>9 DEF Handle1, Writes, OrderInv
    <3> QED  BY <1>0, <2>1, <2>9, <3>2, <3>3 DEF Handle1, AfterAnEvent
  <2>10. CASE CarriesOn \/ Reconnect \/ Refused \/ EndsMeanwhile \/ Park
    BY <2>1, <2>10 DEF CarriesOn, Reconnect, Refused, EndsMeanwhile, Park, EndWith
  <2>11. CASE ReleaseEverything
    BY <2>1, <2>11 DEF ReleaseEverything, Writes, OrderInv
  <2>12. CASE NextHeld
    <3>1. held # <<>> => Last(held) \in Handles
      BY DEF Last, HeldInv, ListInv
    <3> QED  BY <2>1, <2>12, <3>1 DEF NextHeld
  <2>13. CASE Close
    <3>1. place' \subseteq Nat
      BY <2>13 DEF Close, GivenBack, Place, HeldInv, ListInv
    <3> QED  BY <2>1, <2>13, <3>1 DEF Close
  <2>14. CASE TakesItOff \/ Panics
    BY <2>1, <2>14 DEF TakesItOff, Panics
  <2> QED
    BY <1>3, <2>2, <2>3, <2>4, <2>6, <2>8, <2>9, <2>10, <2>11, <2>12, <2>13, <2>14,
       <2>7
       DEF ByTheRun, Run
<1> QED
  BY <1>1, <1>2, <1>3, WhoSteps

(* What the callbacks put down outlives the turn it was put down in, and   *)
(* one device at a time is given back.                                     *)
LEMMA TurnStep ==
  ASSUME KeyboardTypes, AskInv, OrderInv, TurnInv, [Next]_vars
  PROVE  TurnInv'
<1> USE DEF TurnInv, kvars, machine, lists, asking
<1>0. Range(known) \subseteq Range(known')
  <2>1. ASSUME NEW d \in Range(known) PROVE d \in Range(known')
    <3>1. PICK i \in 1..Len(known) : known[i] = d
      BY DEF Range, KeyboardTypes
    <3>2. known' \in Seq(Devices)
      BY KeyboardTypesStep DEF KeyboardTypes
    <3>3. i \in 1..Len(known') /\ known'[i] = d
      BY <3>1, NumbersStay
    <3>4. i \in DOMAIN known'
      BY <3>2, <3>3
    <3> QED  BY <3>3, <3>4 DEF Range
  <2> QED  BY <2>1
<1>1. CASE UNCHANGED vars
  BY <1>1 DEF vars
<1>2. CASE ByTheRun
  BY <1>2, RunLeaves, <1>0 DEF OrderInv
<1>3. ASSUME NEW d \in Lively, PlugIn(d) \/ PullOut(d) \/ Type(d) PROVE TurnInv'
  BY <1>3 DEF PlugIn, PullOut, Type, KeyboardTypes, Range
<1>4. CASE AskToBeTold \/ LookAtTheDevicesHere \/ NothingMoreAsked
  BY <1>4 DEF AskToBeTold, LookAtTheDevicesHere, NothingMoreAsked, Phase
<1>5. CASE TurnTheLoop
  <2>1. Departed \subseteq Range(known) /\ \A d \in Departed : plugged[d] = "Gone"
    BY DEF Departed, DevicesOf, KeyboardTypes, Named, Range, Handles
  <2>2. WithValues \subseteq DevicesOf(watched)
    BY DEF WithValues
  <2> QED  BY <1>5, <2>1, <2>2 DEF TurnTheLoop
<1>6. CASE Seize \/ StartReading
  BY <1>6 DEF Seize, StartReading, DevicesOf
<1>7. CASE DrainDevices
  <2>1. Range(known) \subseteq Range(known')
    BY <1>0
  <2> QED  BY <1>7, <2>1 DEF DrainDevices, Phase
<1>8. CASE DrainValues
  BY <1>8 DEF DrainValues, Phase
<1>9. CASE GiveItBack
  BY <1>9 DEF GiveItBack
<1>10. CASE ForgetIt
  BY <1>10 DEF ForgetIt, Phase, DevicesOf
<1>11. CASE ThreadPanics
  BY <1>11 DEF ThreadPanics
<1> QED
  BY <1>1, <1>2, <1>3, <1>4, <1>5, <1>6, <1>7, <1>8, <1>9, <1>10, <1>11, WhoSteps
     DEF ByTheThread, Machine, Capturing

(* Nothing is taken before there is somewhere to type, and every key is up *)
(* before a keyboard is given back.                                        *)
LEMMA OrderStep ==
  ASSUME KeyboardTypes, RunTypes, AskInv, HeldInv, OrderInv, TurnInv, [Next]_vars
  PROVE  OrderInv'
<1> USE DEF OrderInv, Injecting, kvars, machine, lists, asking
<1>0. cpc = "Unstarted" => os = {}
  BY DEF RunTypes
<1>1. CASE UNCHANGED vars
  BY <1>1 DEF vars, rvars, world, sink, giving
<1>2. ASSUME ByTheThread PROVE OrderInv'
  <2> USE <1>2 DEF ByTheThread, rvars, world, sink, giving
  <2>1. CASE Machine
    BY <2>1 DEF Machine, PlugIn, PullOut, Type
  <2>2. CASE Seize
    <3>1. cpc' = cpc /\ cpc # "Unstarted" /\ (seized' # {} => Injecting)
      <4>1. request.what = "Take" => request.exclusive = Injecting
        BY DEF AskInv, Take, NoAsk, Read
      <4> QED  BY <2>2, <4>1 DEF Seize
    <3>2. rpc \notin {"Switch", "Permission", "Output", "Link", "Look"}
      BY <3>1
    <3> QED  BY <3>1, <3>2
  <2>3. CASE Capturing /\ ~Seize
    <3>1. cpc # "Unstarted" /\ cpc' # "Unstarted" /\ seized' \subseteq seized
      BY <2>3 DEF Capturing, AskToBeTold, LookAtTheDevicesHere, TurnTheLoop, NothingMoreAsked,
                  StartReading, DrainDevices, DrainValues, GiveItBack, ForgetIt, ThreadPanics,
                  Phase
    <3> QED  BY <3>1
  <2> QED  BY <2>1, <2>2, <2>3
<1>3. ASSUME ByTheRun PROVE OrderInv'
  <2> USE DEF world, sink, giving, GoTo, Quietly
  <2>1. CASE Switch \/ AskToStop \/ BoundComesUp \/ OutputGoes \/ LinkReturns
    BY <2>1 DEF Switch, AskToStop, BoundComesUp, OutputGoes, LinkReturns
  <2>2. CASE SwitchedOff \/ MayReadInput \/ BringUpTheOutput \/ Listen \/ LookForDevices
    BY <1>0, <2>2 DEF SwitchedOff, MayReadInput, BringUpTheOutput, Listen, LookForDevices,
                      EndWith
  <2>3. CASE TakesInAFact \/ MeansNothing \/ TakeDevice \/ Taken \/ NothingArrives
    BY <2>3 DEF TakesInAFact, MeansNothing, TakeDevice, Taken, NothingArrives,
                            PassedOver, AfterAnEvent
  <2>4. CASE BeingRead
    BY <2>4 DEF BeingRead, PassedOver, AfterAnEvent
  <2>5. CASE Handle1
    BY <2>5 DEF Handle1, AfterAnEvent, Writes
  <2>6. CASE CarriesOn \/ Reconnect \/ Refused \/ EndsMeanwhile \/ Park
    BY <1>0, <2>6 DEF CarriesOn, Reconnect, Refused, EndsMeanwhile, Park, EndWith,
                      Ended, OutputGone
  <2>7. CASE ReleaseEverything
    BY <2>7 DEF ReleaseEverything, Writes
  <2>8. CASE NextHeld \/ Close \/ TakesItOff \/ Panics
    BY <2>8 DEF NextHeld, Close, TakesItOff, Panics, TakeOff, OffTheEnd,
                HeldInv, ListInv, GivingInv
  <2> QED
    BY <1>3, <2>1, <2>2, <2>3, <2>4, <2>5, <2>6, <2>7, <2>8 DEF ByTheRun, Run
<1> QED
  BY <1>1, <1>2, <1>3, WhoSteps
-----------------------------------------------------------------------------
(* A device has one number.                                                *)
LEMMA SameNumber ==
  ASSUME KeyboardTypes, NEW m \in 0..Len(known) - 1, NEW n \in 0..Len(known) - 1,
         known[m + 1] = known[n + 1]
  PROVE  m = n
<1>1. m + 1 \in DOMAIN known /\ n + 1 \in DOMAIN known
  BY DEF KeyboardTypes
<1>2. m + 1 = n + 1
  BY <1>1 DEF KeyboardTypes, IsInjective
<1> QED
  BY <1>2

(* The place looked up is the device's.                                    *)
LEMMA PlaceOnTheList ==
  ASSUME ListInv, NEW d
  PROVE  \A i \in Place(d) : i \in 1..Len(held) /\ held[i].device = d
<1>1. DOMAIN held = 1..Len(held)
  BY DEF ListInv
<1> QED
  BY <1>1 DEF Place

(* Taking one off leaves the others as they were, each behind or one       *)
(* before where it was.                                                    *)
LEMMA OneTakenOff ==
  ASSUME ListInv, NEW places, TakeOff(places), ~OffTheEnd(places),
         \A i \in places : i \in Nat \ {0}
  PROVE  \/ places = {} /\ UNCHANGED held
         \/ \E n \in places :
              /\ n \in 1..Len(held)
              /\ held' \in Seq(Handles) /\ Len(held') = Len(held) - 1
              /\ \A i \in 1..Len(held) - 1 :
                   held'[i] = IF i < n THEN held[i] ELSE held[i + 1]
<1>1. ASSUME NEW n \in places, held' = RemoveAt(held, n)
      PROVE  /\ n \in 1..Len(held)
             /\ held' \in Seq(Handles) /\ Len(held') = Len(held) - 1
             /\ \A i \in 1..Len(held) - 1 :
                  held'[i] = IF i < n THEN held[i] ELSE held[i + 1]
  <2>1. n \in 1..Len(held)
    BY DEF ListInv, OffTheEnd
  <2>2. held \in Seq(Handles)
    BY DEF ListInv
  <2> QED  BY <1>1, <2>1, <2>2, WithoutOne
<1> QED
  BY <1>1 DEF TakeOff
-----------------------------------------------------------------------------
(* The steps that take a keyboard, or give one back.                       *)
LEMMA HandsOff ==
  ASSUME [Next]_vars
  PROVE  \/ UNCHANGED <<held, seized, leaving, hand, place>>
         \/ ByTheThread /\ (Seize \/ GiveItBack \/ ForgetIt)
         \/ ThreadPanics /\ UNCHANGED <<held, seized, hand, place>> /\ leaving' = {}
         \/ NextHeld \/ Close \/ TakesItOff
<1> USE DEF kvars, machine, lists, asking, rvars, world, sink, giving, Quietly
<1>1. CASE UNCHANGED vars
  BY <1>1 DEF vars
<1>2. CASE ByTheThread
  BY <1>2 DEF ByTheThread, Machine, Capturing, PlugIn, PullOut, Type, AskToBeTold,
      LookAtTheDevicesHere, TurnTheLoop, NothingMoreAsked, StartReading, DrainDevices,
      DrainValues, ThreadPanics
<1>3. CASE ByTheRun
  <2>1. CASE Switch \/ AskToStop \/ BoundComesUp \/ OutputGoes \/ LinkReturns
    BY <2>1 DEF Switch, AskToStop, BoundComesUp, OutputGoes, LinkReturns
  <2>2. CASE SwitchedOff \/ MayReadInput \/ BringUpTheOutput \/ Listen \/ LookForDevices
    BY <2>2 DEF SwitchedOff, MayReadInput, BringUpTheOutput, Listen, LookForDevices
  <2>3. CASE TakesInAFact \/ MeansNothing \/ TakeDevice \/ Taken \/ BeingRead \/ Handle1
             \/ NothingArrives
    BY <2>3 DEF TakesInAFact, MeansNothing, TakeDevice, Taken, BeingRead, Handle1,
                NothingArrives
  <2>4. CASE CarriesOn \/ Reconnect \/ Refused \/ EndsMeanwhile \/ Park
    BY <2>4 DEF CarriesOn, Reconnect, Refused, EndsMeanwhile, Park
  <2>5. CASE ReleaseEverything \/ Panics
    BY <2>5 DEF ReleaseEverything, Panics
  <2> QED
    BY <1>3, <2>1, <2>2, <2>3, <2>4, <2>5 DEF ByTheRun, Run
<1> QED
  BY <1>1, <1>2, <1>3, WhoSteps

(* Of what is on the list, what stays on it when one is taken off that is  *)
(* not seized.                                                             *)
LEMMA ListShrinks ==
  ASSUME KeyboardTypes, ListInv, UNCHANGED <<known, seized>>,
         NEW n \in 1..Len(held), held[n].device \notin seized,
         held' \in Seq(Handles), Len(held') = Len(held) - 1,
         \A i \in 1..Len(held) - 1 : held'[i] = IF i < n THEN held[i] ELSE held[i + 1]
  PROVE  ListInv'
<1>1. PICK k \in Nat : k = Len(held) - 1 /\ Len(held') = k /\ n \in 1..k + 1
  BY DEF ListInv
<1>2. ASSUME NEW i \in 1..k
      PROVE  /\ i \in 1..Len(held) /\ i + 1 \in 1..Len(held)
             /\ held'[i] = held[IF i < n THEN i ELSE i + 1]
  <2>1. i \in 1..Len(held) /\ i + 1 \in 1..Len(held) /\ i \in 1..Len(held) - 1
    BY <1>1
  <2> QED  BY <2>1
<1>3. ASSUME NEW i \in 1..k PROVE Named(held'[i], known')
  <2>1. PICK p \in 1..Len(held) : held'[i] = held[p]
    BY <1>2
  <2> QED  BY <2>1 DEF ListInv, Named
<1>4. ASSUME NEW i \in 1..k, NEW j \in 1..k, held'[i].device = held'[j].device
      PROVE  i = j
  <2>1. PICK p, q : /\ p = IF i < n THEN i ELSE i + 1
                    /\ q = IF j < n THEN j ELSE j + 1
    OBVIOUS
  <2>2. /\ p \in 1..Len(held) /\ q \in 1..Len(held)
        /\ held[p].device = held[q].device
    BY <1>2, <1>4, <2>1
  <2>3. p = q
    BY <2>2 DEF ListInv
  <2> QED  BY <1>1, <2>1, <2>3
<1>5. ASSUME NEW d \in seized' PROVE \E i \in 1..k : held'[i].device = d
  <2>1. PICK j \in 1..Len(held) : held[j].device = d /\ j # n
    BY DEF ListInv
  <2>2. j < n => j \in 1..k /\ held'[j] = held[j]
    BY <1>1, <2>1
  <2>3. j > n => j - 1 \in 1..k /\ held'[j - 1] = held[j]
    BY <1>1, <1>2, <2>1
  <2> QED  BY <1>1, <2>1, <2>2, <2>3
<1> QED
  BY <1>1, <1>3, <1>4, <1>5 DEF ListInv

(* So the list is what it has to be when what was looked up is taken off.  *)
LEMMA ListAfter ==
  ASSUME KeyboardTypes, ListInv, UNCHANGED <<known, seized>>, NEW places,
         TakeOff(places), ~OffTheEnd(places),
         \A i \in places : i \in Nat \ {0} /\ (i <= Len(held) => held[i].device \notin seized)
  PROVE  ListInv'
<1>1. CASE UNCHANGED held
  BY <1>1 DEF ListInv, Named
<1>2. ASSUME NEW n \in places, n \in 1..Len(held), held' \in Seq(Handles),
             Len(held') = Len(held) - 1,
             \A i \in 1..Len(held) - 1 : held'[i] = IF i < n THEN held[i] ELSE held[i + 1]
      PROVE  ListInv'
  <2>1. n <= Len(held) /\ held[n].device \notin seized
    BY <1>2 DEF ListInv
  <2> QED  BY <1>2, <2>1, ListShrinks
<1> QED
  BY <1>1, <1>2, OneTakenOff

(* What is taken is the keyboard whose finding is being handled.           *)
LEMMA SeizesTheSubject ==
  ASSUME KeyboardTypes, StreamTypes, AskInv, Seize, UNCHANGED rvars
  PROVE  /\ rpc = "Taking" /\ reply = "None" /\ stream # <<>> /\ stream[1].what = "Found"
         /\ Subject \in 0..Len(known) - 1
         /\ UNCHANGED <<known, stream, leaving, plugged>> /\ cpc = "Asks"
         /\ reply' \in {"Yes", "No"}
         /\ \/ /\ Injecting /\ reply' = "Yes"
               /\ seized' = seized \cup {known[Subject + 1]}
               /\ \E h \in Handles : /\ held' = Append(held, h) /\ h.id = Subject
                                     /\ h.device = known[Subject + 1]
            \/ UNCHANGED <<seized, held>> /\ (~Injecting \/ reply' = "No")
<1> USE DEF lists, machine, kvars
<1>1. rpc = "Taking" /\ reply = "None" /\ request = Take(Subject, Injecting)
  BY DEF Seize, CanAnswer, AskInv, Read, NoAsk
<1>2. /\ request.device = Subject /\ request.exclusive = Injecting
  BY <1>1 DEF Take
<1>3. stream # <<>> /\ stream[1].what = "Found" /\ Subject \in 0..Len(known) - 1
  BY <1>1 DEF AskInv, Subject, StreamTypes, Events, AboutOne
<1>4. PICK h \in Waiting(Subject), went \in BOOLEAN :
        /\ seized' = IF went /\ Injecting THEN seized \cup {h.device} ELSE seized
        /\ KeptWhatWasSeized(h, went, Injecting)
        /\ reply' = IF went THEN "Yes" ELSE "No"
  BY <1>2 DEF Seize
<1>5. h \in Handles /\ h.id = Subject /\ h.device = known[Subject + 1]
  BY <1>4 DEF Waiting, KeyboardTypes, Named
<1> QED
  BY <1>1, <1>3, <1>4, <1>5 DEF Seize, KeptWhatWasSeized

(* A device is on the list once, and one that is seized is on it.          *)
LEMMA ListStep ==
  ASSUME KeyboardTypes, StreamTypes, RunTypes, TurnInv, OrderInv, AskInv, HeldInv, [Next]_vars
  PROVE  ListInv'
<1>0. ASSUME UNCHANGED held, seized' \subseteq seized PROVE ListInv'
  <2>1. ASSUME NEW i \in 1..Len(held) PROVE Named(held[i], known')
    <3>1. Named(held[i], known) /\ held[i] \in Handles
      BY DEF HeldInv, ListInv
    <3>2. held[i].id \in Nat
      BY <3>1 DEF Handles
    <3> QED  BY <1>0, <3>1, <3>2, NumbersStay DEF Named
  <2> QED  BY <1>0, <2>1 DEF HeldInv, ListInv
<1>1. CASE ByTheThread /\ Seize
  <2>1. SUFFICES ASSUME ~UNCHANGED <<seized, held>> PROVE ListInv'
    BY <1>0
  <2>0. /\ seized' = seized \cup {known[Subject + 1]}
        /\ \E h \in Handles : /\ held' = Append(held, h) /\ h.id = Subject
                              /\ h.device = known[Subject + 1]
    BY <1>1, <2>1, SeizesTheSubject DEF ByTheThread
  <2>2. PICK h \in Handles : /\ held' = Append(held, h) /\ h.id = Subject
                             /\ h.device = known[Subject + 1]
                             /\ seized' = seized \cup {h.device}
    BY <2>0
  <2>3. /\ UNCHANGED known /\ Subject \in 0..Len(known) - 1
        /\ stream # <<>> /\ stream[1].what = "Found" /\ rpc = "Taking" /\ reply = "None"
    BY <1>1, SeizesTheSubject DEF ByTheThread
  <2>4. \A j \in 1..Len(held) : held[j].device # h.device
    <3>1. 1 \in 1..Len(stream) /\ FoundIt(stream[1], Subject) /\ ~TakenNow(Subject)
      BY <2>3, TailOf DEF StreamTypes, FoundIt, Subject, TakenNow
    <3> QED  BY <2>2, <2>3, <3>1 DEF HeldInv, FindingInv, NotOnTheList
  <2>5. PICK n \in Nat : n = Len(held) /\ Len(held') = n + 1
    BY <2>2 DEF HeldInv, ListInv
  <2>6. /\ held' \in Seq(Handles) /\ held'[n + 1] = h
        /\ \A i \in 1..n : held'[i] = held[i]
    BY <2>2, <2>5 DEF HeldInv, ListInv
  <2>7. \A i \in 1..n + 1 : i \in 1..n \/ i = n + 1
    BY <2>5
  <2>8. \A i \in 1..n + 1 : Named(held'[i], known')
    BY <2>2, <2>3, <2>5, <2>6, <2>7 DEF HeldInv, ListInv, Named
  <2>9. \A i, j \in 1..n + 1 : held'[i].device = held'[j].device => i = j
    BY <2>4, <2>5, <2>6, <2>7 DEF HeldInv, ListInv
  <2>10. \A d \in seized' : \E i \in 1..n + 1 : held'[i].device = d
    <3>1. \A i \in 1..n : i \in 1..n + 1
      BY <2>5
    <3>2. n + 1 \in 1..n + 1
      BY <2>5
    <3> QED  BY <2>2, <2>5, <2>6, <3>1, <3>2 DEF HeldInv, ListInv
  <2> QED  BY <2>5, <2>6, <2>8, <2>9, <2>10 DEF ListInv
<1>2. CASE GiveItBack
  BY <1>0, <1>2 DEF GiveItBack
<1>3. CASE ForgetIt
  <2>1. PICK l \in leaving : TakeOff(l.at) /\ ~OffTheEnd(l.at)
    BY <1>3 DEF ForgetIt
  <2>2. UNCHANGED <<known, seized>>
    BY <1>3 DEF ForgetIt
  <2>3. \A i \in l.at :
          i \in Nat \ {0} /\ (i <= Len(held) => held[i].device \notin seized)
    BY DEF HeldInv, LeavingInv
  <2> QED
    BY <2>1, <2>2, <2>3, ListAfter DEF HeldInv
<1>4. CASE Close
  BY <1>0, <1>4 DEF Close
<1>5. CASE TakesItOff
  <2>1. UNCHANGED <<known, seized>> /\ TakeOff(place) /\ ~OffTheEnd(place)
    BY <1>5 DEF TakesItOff, lists
  <2>2. \A i \in place :
          i \in Nat \ {0} /\ (i <= Len(held) => held[i].device \notin seized)
    BY DEF HeldInv, GivingInv, ListInv
  <2> QED
    BY <2>1, <2>2, ListAfter DEF HeldInv
<1>6. CASE NextHeld
  BY <1>0, <1>6 DEF NextHeld, kvars
<1> QED
  BY <1>0, <1>1, <1>2, <1>3, <1>4, <1>5, <1>6, HandsOff
-----------------------------------------------------------------------------
(* A keyboard found is not on the list until it is taken, which is once.   *)
LEMMA StaysOff ==
  ASSUME KeyboardTypes, OrderInv, AskInv, [Next]_vars, NEW n \in 0..Len(known) - 1,
         \A j \in 1..Len(held') : \E k \in 1..Len(held) : held'[j] = held[k],
         NotOnTheList(n)
  PROVE  NotOnTheList(n)'
<1>1. known'[n + 1] = known[n + 1]
  BY NumbersStay
<1> QED
  BY <1>1 DEF NotOnTheList

(* Only a taking puts a handle on the list.                                *)
LEMMA ListStays ==
  ASSUME KeyboardTypes, StreamTypes, RunTypes, TurnInv, OrderInv, AskInv, HeldInv, [Next]_vars,
         ~(ByTheThread /\ Seize)
  PROVE  \A j \in 1..Len(held') : \E k \in 1..Len(held) : held'[j] = held[k]
<1>1. SUFFICES ASSUME ~UNCHANGED held
               PROVE  \A j \in 1..Len(held') : \E k \in 1..Len(held) : held'[j] = held[k]
  OBVIOUS
<1>2. CASE ForgetIt \/ TakesItOff
  <2>1. PICK n \in Nat :
          /\ n \in 1..Len(held) /\ Len(held') = Len(held) - 1
          /\ \A i \in 1..Len(held) - 1 : held'[i] = IF i < n THEN held[i] ELSE held[i + 1]
    <3>1. CASE ForgetIt
      <4>1. PICK l \in leaving : TakeOff(l.at) /\ ~OffTheEnd(l.at)
        BY <3>1 DEF ForgetIt
      <4> QED  BY <1>1, <4>1, OneTakenOff DEF HeldInv, LeavingInv
    <3>2. CASE TakesItOff
      BY <1>1, <3>2, OneTakenOff DEF TakesItOff, HeldInv, GivingInv
    <3> QED  BY <1>2, <3>1, <3>2
  <2> QED
    BY <2>1
<1> QED
  BY <1>1, <1>2, HandsOff DEF GiveItBack, NextHeld, Close, kvars

(* Whoever is being taken is, until its finding has been handled.          *)
LEMMA TakenStays ==
  ASSUME KeyboardTypes, StreamTypes, TurnInv, AskInv, [Next]_vars, NEW n, TakenNow(n)
  PROVE  TakenNow(n)' \/ Shifted
<1>0. rpc \in {"Taking", "Reading"} /\ stream # <<>>
  BY DEF TakenNow, AskInv
<1>1. CASE ByTheThread
  <2>1. stream' # <<>> /\ stream'[1] = stream[1]
    BY <1>0, <1>1, HeadStays
  <2>2. UNCHANGED rpc
    BY <1>1 DEF ByTheThread, rvars
  <2>3. rpc = "Taking" => reply' = reply
    <3>1. CASE rpc = "Taking" /\ reply = "Yes"
      <4>1. request = NoAsk
        BY <3>1 DEF AskInv
      <4> QED
        BY <1>1, <3>1, <4>1 DEF ByTheThread, Machine, Capturing, PlugIn, PullOut, Type,
           AskToBeTold, LookAtTheDevicesHere, TurnTheLoop, NothingMoreAsked, Seize,
           StartReading, CanAnswer, DrainDevices, DrainValues, GiveItBack, ForgetIt,
           ThreadPanics, asking
    <3> QED  BY <3>1 DEF TakenNow
  <2> QED  BY <2>1, <2>2, <2>3 DEF TakenNow
<1>2. CASE ByTheRun
  <2> USE DEF kvars, asking, GoTo
  <2>1. CASE Switch \/ AskToStop \/ BoundComesUp \/ OutputGoes
    BY <2>1 DEF Switch, AskToStop, BoundComesUp, OutputGoes, TakenNow
  <2>2. CASE LinkReturns
    BY <1>0, <2>2, HeadStays DEF LinkReturns, TakenNow
  <2>3. CASE Taken \/ BeingRead
    BY <1>0, <2>3 DEF Taken, BeingRead, TakenNow, Shifted
  <2>4. Run => Taken \/ BeingRead
    BY <1>0 DEF Run, SwitchedOff, MayReadInput, BringUpTheOutput, Listen, LookForDevices,
       TakesInAFact, MeansNothing, TakeDevice, Handle1, NothingArrives, CarriesOn, Reconnect,
       Refused, EndsMeanwhile, Park, ReleaseEverything, NextHeld, Close, TakesItOff, Panics
  <2> QED  BY <1>2, <2>1, <2>2, <2>3, <2>4 DEF ByTheRun
<1>3. CASE UNCHANGED vars
  BY <1>3 DEF vars, kvars, rvars, asking, TakenNow
<1> QED
  BY <1>1, <1>2, <1>3, WhoSteps

(* A finding is delivered once for each number, and what it is of is not   *)
(* on the list before it is handled.                                       *)
LEMMA FindingStep ==
  ASSUME KeyboardTypes, StreamTypes, RunTypes, TurnInv, OrderInv, AskInv, HeldInv, [Next]_vars
  PROVE  FindingInv'
<1> DEFINE Old == 0..Len(known) - 1
<1>0. /\ Len(stream) \in Nat /\ stream \in Seq(Events) /\ Len(known) \in Nat
      /\ Len(known') \in Nat /\ Len(known') >= Len(known)
      /\ \A n \in Nat, i \in 1..Len(stream) : FoundIt(stream[i], n) => n \in Old
      /\ \A n \in Old, i \in 1..Len(stream) :
           FoundIt(stream[i], n) =>
             /\ NotOnTheList(n) \/ TakenNow(n)
             /\ \A j \in 1..Len(stream) : FoundIt(stream[j], n) => i = j
  BY NumbersStay DEF StreamTypes, HeldInv, FindingInv, FoundIt, AboutOne
<1>1. CASE ByTheThread /\ Seize
  <2>1. UNCHANGED <<known, stream, rpc>> /\ rpc = "Taking" /\ reply = "None"
    BY <1>1, SeizesTheSubject DEF ByTheThread, rvars
  <2>2. ASSUME NEW n \in Old, NEW i \in 1..Len(stream), FoundIt(stream[i], n)
        PROVE  NotOnTheList(n)' \/ TakenNow(n)'
    <3>1. NotOnTheList(n)
      BY <1>0, <2>1, <2>2 DEF TakenNow
    <3>2. CASE UNCHANGED held
      BY <2>1, <3>1, <3>2 DEF NotOnTheList
    <3>3. ASSUME NEW h \in Handles, held' = Append(held, h), reply' = "Yes",
                 h.device = known[Subject + 1], Subject \in Old,
                 stream[1].what = "Found"
          PROVE  NotOnTheList(n)' \/ TakenNow(n)'
      <4>1. CASE n = Subject
        BY <2>1, <3>3, <4>1 DEF TakenNow, FoundIt, Subject
      <4>2. CASE n # Subject
        <5>1. known[n + 1] # h.device
          BY <3>3, <4>2, SameNumber
        <5>2. \A j \in 1..Len(held') : held'[j] = h \/ \E k \in 1..Len(held) : held'[j] = held[k]
          BY <3>3 DEF HeldInv, ListInv
        <5> QED  BY <2>1, <3>1, <5>1, <5>2 DEF NotOnTheList
      <4> QED  BY <4>1, <4>2
    <3> QED  BY <1>1, <3>2, <3>3, SeizesTheSubject DEF ByTheThread
  <2> QED  BY <1>0, <2>1, <2>2 DEF FindingInv
<1>2. SUFFICES ASSUME ~(ByTheThread /\ Seize) PROVE FindingInv'
  BY <1>1
<1>3. ASSUME NEW n \in Old, NotOnTheList(n) PROVE NotOnTheList(n)'
  BY <1>2, <1>3, ListStays, StaysOff
<1>4. CASE Shifted
  <2>1. /\ Len(stream') \in Nat /\ 1 \in 1..Len(stream)
        /\ \A i \in 1..Len(stream') : i + 1 \in 1..Len(stream) /\ stream'[i] = stream[i + 1]
    BY <1>4, ShiftedIs
  <2>2. SUFFICES ASSUME NEW n \in Nat, NEW i \in 1..Len(stream'), FoundIt(stream'[i], n)
                 PROVE  /\ NotOnTheList(n)'
                        /\ \A j \in 1..Len(stream') : FoundIt(stream'[j], n) => i = j
    <3>1. \A n \in 0..Len(known') - 1 : n \in Nat
      BY <1>0
    <3> QED  BY <3>1 DEF FindingInv
  <2>3. n \in Old /\ \A j \in 1..Len(stream) : FoundIt(stream[j], n) => j = i + 1
    <3>1. i + 1 \in 1..Len(stream) /\ FoundIt(stream[i + 1], n)
      BY <2>1, <2>2
    <3> QED  BY <1>0, <3>1
  <2>4. ~TakenNow(n)
    BY <2>1, <2>3 DEF TakenNow
  <2>5. NotOnTheList(n)'
    BY <1>0, <1>3, <2>1, <2>2, <2>3, <2>4
  <2>6. ASSUME NEW j \in 1..Len(stream'), FoundIt(stream'[j], n) PROVE i = j
    <3>1. j + 1 = i + 1
      BY <2>1, <2>3, <2>6
    <3> QED  BY <2>1, <3>1
  <2> QED  BY <2>5, <2>6
<1>5. ASSUME NEW n \in Old, NEW i \in 1..Len(stream), FoundIt(stream[i], n), ~Shifted
      PROVE  NotOnTheList(n)' \/ TakenNow(n)'
  BY <1>0, <1>3, <1>5, TakenStays
<1>6. CASE UNCHANGED stream /\ ~Shifted
  BY <1>0, <1>5, <1>6 DEF FindingInv
<1>7. ASSUME NEW t \in Seq(Events), Fed(t) PROVE FindingInv'
  <2>1. CASE t = <<>>
    <3>1. UNCHANGED stream
      BY <1>0, <1>7, <2>1 DEF Fed
    <3> QED  BY <1>0, <1>4, <1>6, <3>1
  <2>2. CASE t # <<>>
    <3>1. Len(stream') = Len(stream) + Len(t) /\ Len(t) \in Nat
      BY <1>0, <1>7, Behind DEF Fed
    <3>2. ~Shifted
      <4>1. Len(t) > 0
        BY <2>2
      <4>2. Shifted => Len(stream') = Len(stream) - 1
        BY <1>0, TailOf DEF Shifted
      <4> QED  BY <1>0, <3>1, <4>1, <4>2
    <3>3. ASSUME NEW n \in Nat, NEW i \in 1..Len(stream'), FoundIt(stream'[i], n),
                 NEW k \in 1..Len(t), i = Len(stream) + k, stream'[i] = t[k]
          PROVE  n = Len(known) /\ i = Len(stream) + 1 /\ NotOnTheList(n)'
      <4>1. n = Len(known) /\ Len(t) = 1 /\ NewlyKnown(n)
        BY <1>7, <3>3 DEF Fed, FoundIt, NewlyKnown
      <4>2. ASSUME NEW j \in 1..Len(held') PROVE held'[j].device # known'[n + 1]
        <5>1. PICK m \in 1..Len(held) : held'[j] = held[m]
          BY <1>2, ListStays
        <5>2. held[m] \in Handles /\ Named(held[m], known)
          BY DEF HeldInv, ListInv
        <5>3. held[m].id + 1 \in 1..n /\ known[held[m].id + 1] = held[m].device
          BY <1>0, <4>1, <5>2 DEF Handles, Named
        <5> QED  BY <4>1, <5>1, <5>3 DEF NewlyKnown
      <4> QED  BY <3>3, <4>1, <4>2 DEF NotOnTheList
    <3>4. ASSUME NEW n \in Nat, NEW i \in 1..Len(stream'), FoundIt(stream'[i], n)
          PROVE  \/ n = Len(known) /\ i = Len(stream) + 1 /\ NotOnTheList(n)'
                 \/ n \in Old /\ i \in 1..Len(stream) /\ FoundIt(stream[i], n)
      BY <1>0, <1>7, <3>3, <3>4, FedIs
    <3>5. ASSUME NEW n \in Nat, NEW i \in 1..Len(stream'), FoundIt(stream'[i], n)
          PROVE  /\ NotOnTheList(n)' \/ TakenNow(n)'
                 /\ \A j \in 1..Len(stream') : FoundIt(stream'[j], n) => i = j
      <4>1. CASE n \in Old /\ i \in 1..Len(stream) /\ FoundIt(stream[i], n)
        <5>1. NotOnTheList(n)' \/ TakenNow(n)'
          BY <1>5, <3>2, <4>1
        <5>2. ASSUME NEW j \in 1..Len(stream'), FoundIt(stream'[j], n) PROVE i = j
          <6>1. j \in 1..Len(stream) /\ FoundIt(stream[j], n)
            BY <1>0, <3>4, <4>1, <5>2
          <6> QED  BY <1>0, <4>1, <6>1
        <5> QED  BY <5>1, <5>2
      <4>2. CASE n = Len(known) /\ i = Len(stream) + 1 /\ NotOnTheList(n)'
        <5>1. ~(n \in Old)
          BY <1>0, <4>2
        <5> QED  BY <3>4, <4>2, <5>1
      <4>3. \/ n \in Old /\ i \in 1..Len(stream) /\ FoundIt(stream[i], n)
            \/ n = Len(known) /\ i = Len(stream) + 1 /\ NotOnTheList(n)'
        BY <3>4, <3>5
      <4> QED  BY <4>1, <4>2, <4>3
    <3>6. \A n \in 0..Len(known') - 1 : n \in Nat
      BY <1>0
    <3> QED  BY <3>5, <3>6 DEF FindingInv
  <2> QED  BY <2>1, <2>2
<1> QED
  BY <1>4, <1>6, <1>7, StreamSteps
-----------------------------------------------------------------------------
(* The places the two threads looked up: one may have been shifted from    *)
(* behind by the other, and is then behind the end of the list.            *)
LEMMA LeavingStep ==
  ASSUME KeyboardTypes, RunTypes, TurnInv, HeldInv, [Next]_vars
  PROVE  LeavingInv'
<1> USE DEF HeldInv, LeavingInv
<1>0. Len(held) \in Nat
  BY DEF ListInv
<1>1. CASE UNCHANGED <<held, seized, leaving>>
  BY <1>1
<1>2. CASE Seize
  BY <1>2 DEF Seize, TurnInv
<1>3. CASE GiveItBack
  <2>1. PICK d \in gone : leaving' = {[device |-> d, at |-> Place(d)]} /\ seized' = seized \ {d}
    BY <1>3 DEF GiveItBack
  <2>2. UNCHANGED held
    BY <1>3 DEF GiveItBack
  <2>3. \A i \in Place(d) : i \in 1..Len(held) /\ held[i].device = d
    BY PlaceOnTheList
  <2> QED  BY <1>0, <2>1, <2>2, <2>3
<1>4. CASE ForgetIt \/ ThreadPanics
  BY <1>4 DEF ForgetIt, ThreadPanics
<1>5. CASE NextHeld
  BY <1>1, <1>5 DEF NextHeld, kvars
<1>6. CASE Close
  BY <1>6 DEF Close
<1>7. CASE TakesItOff
  <2>1. UNCHANGED <<seized, leaving>> /\ TakeOff(place) /\ ~OffTheEnd(place)
    BY <1>7 DEF TakesItOff
  <2>2. SUFFICES ASSUME NEW n \in place, n \in 1..Len(held), Len(held') = Len(held) - 1,
                        \A i \in 1..Len(held) - 1 :
                          held'[i] = IF i < n THEN held[i] ELSE held[i + 1]
                 PROVE  LeavingInv'
    BY <1>1, <2>1, OneTakenOff DEF GivingInv
  <2>3. n = Len(held)
    BY <1>0, <2>2 DEF GivingInv
  <2>4. \A i \in 1..Len(held') : i <= Len(held) /\ held'[i] = held[i]
    BY <1>0, <2>2, <2>3
  <2>5. ASSUME NEW l \in leaving, NEW i \in l.at, i <= Len(held')
        PROVE  held'[i].device = l.device
    <3>1. i \in 1..Len(held') /\ i <= Len(held)
      BY <1>0, <2>2, <2>5
    <3> QED  BY <2>4, <3>1
  <2> QED  BY <2>1, <2>5
<1> QED
  BY <1>1, <1>2, <1>3, <1>4, <1>5, <1>6, <1>7, HandsOff

(* The run closes the last on the list, and takes the last off it.         *)
LEMMA GivingStep ==
  ASSUME KeyboardTypes, StreamTypes, AskInv, RunTypes, TurnInv, HeldInv, [Next]_vars
  PROVE  GivingInv'
<1> USE DEF HeldInv, GivingInv
<1>0. Len(held) \in Nat /\ held \in Seq(Handles)
  BY DEF ListInv
<1>1. CASE UNCHANGED <<held, seized, hand, place>>
  BY <1>1
<1>2. CASE ByTheThread /\ Seize
  BY <1>2, SeizesTheSubject DEF ByTheThread, rvars, giving, RunTypes
<1>3. CASE ByTheThread /\ GiveItBack
  BY <1>3 DEF GiveItBack, ByTheThread, rvars, giving
<1>4. CASE ByTheThread /\ ForgetIt
  <2>1. PICK l \in leaving : TakeOff(l.at) /\ ~OffTheEnd(l.at)
    BY <1>4 DEF ForgetIt
  <2>2. UNCHANGED <<seized, hand, place>>
    BY <1>4 DEF ForgetIt, ByTheThread, rvars, giving
  <2>3. SUFFICES ASSUME NEW n \in 1..Len(held), Len(held') = Len(held) - 1,
                        \A i \in 1..Len(held) - 1 :
                          held'[i] = IF i < n THEN held[i] ELSE held[i + 1]
                 PROVE  GivingInv'
    BY <1>1, <2>1, <2>2, OneTakenOff DEF LeavingInv
  <2>4. ASSUME NEW h \in hand, NEW i \in 1..Len(held'), held'[i].device = h.device
        PROVE  i = Len(held')
    <3>1. PICK p \in 1..Len(held) : p = (IF i < n THEN i ELSE i + 1) /\ held'[i] = held[p]
      BY <1>0, <2>3
    <3>2. p = Len(held)
      BY <2>4, <3>1
    <3> QED  BY <1>0, <2>3, <3>1, <3>2
  <2>5. \A i \in place : i >= Len(held') /\ i # Len(held')
    BY <1>0, <2>3
  <2> QED  BY <2>2, <2>4, <2>5
<1>5. CASE NextHeld
  <2>1. UNCHANGED <<held, seized, place>>
    BY <1>5 DEF NextHeld, kvars
  <2>2. CASE held # <<>> /\ hand' = {Last(held)}
    <3>1. Last(held) = held[Len(held)] /\ Len(held) \in 1..Len(held)
      BY <1>0, <2>2 DEF Last
    <3> QED  BY <2>1, <2>2, <3>1 DEF ListInv
  <2> QED  BY <1>1, <1>5, <2>1, <2>2 DEF NextHeld
<1>6. CASE Close
  <2>1. PICK h \in hand, went \in BOOLEAN :
          /\ seized' = IF went THEN seized \ {h.device} ELSE seized
          /\ place' = IF went THEN Place(h.device) ELSE {}
    BY <1>6 DEF Close, GivenBack
  <2>2. UNCHANGED held /\ hand' = {}
    BY <1>6 DEF Close
  <2>3. \A i \in Place(h.device) : i = Len(held) /\ i \in Nat \ {0} /\ held[i].device = h.device
    BY PlaceOnTheList
  <2> QED  BY <1>0, <2>1, <2>2, <2>3
<1>7. CASE TakesItOff
  BY <1>7 DEF TakesItOff, RunTypes
<1> QED
  BY <1>1, <1>2, <1>3, <1>4, <1>5, <1>6, <1>7, HandsOff

(* All of it: the list, the findings and the places looked up.             *)
LEMMA HeldStep ==
  ASSUME KeyboardTypes, StreamTypes, RunTypes, TurnInv, OrderInv, AskInv, HeldInv, [Next]_vars
  PROVE  HeldInv'
  BY ListStep, FindingStep, LeavingStep, GivingStep DEF HeldInv
-----------------------------------------------------------------------------
(* A keyboard that is ours, or gone, stays so until the run closes it.     *)
LEMMA OursStays ==
  ASSUME KeyboardTypes, OrderInv, AskInv, TurnInv, [Next]_vars, ~Close,
         NEW n \in 0..Len(known) - 1, Ours(n)
  PROVE  Ours(n)'
<1> USE DEF kvars, machine, lists
<1>1. known'[n + 1] = known[n + 1] /\ known[n + 1] \in Devices
  <2>1. n + 1 \in 1..Len(known) /\ known \in Seq(Devices)
    BY DEF KeyboardTypes
  <2> QED  BY <2>1, NumbersStay
<1>2. \A d \in Devices : plugged[d] = "Gone" => plugged'[d] = "Gone"
  <2>1. CASE UNCHANGED plugged
    BY <2>1
  <2>2. ASSUME NEW d \in Lively, PlugIn(d) \/ PullOut(d)
        PROVE  \A e \in Devices : plugged[e] = "Gone" => plugged'[e] = "Gone"
    BY <2>2 DEF PlugIn, PullOut, KeyboardTypes
  <2> QED
    BY <2>1, <2>2, WhoSteps, RunLeaves
       DEF ByTheThread, Machine, Capturing, Type, AskToBeTold, LookAtTheDevicesHere,
           TurnTheLoop, NothingMoreAsked, Seize, StartReading, DrainDevices, DrainValues,
           GiveItBack, ForgetIt, ThreadPanics, vars
<1>3. \A d \in seized : d \in seized' \/ plugged[d] = "Gone"
  <2>1. Seize => seized \subseteq seized'
    BY DEF Seize
  <2>2. GiveItBack => \A d \in seized : d \in seized' \/ plugged[d] = "Gone"
    BY DEF GiveItBack, TurnInv
  <2>3. ForgetIt \/ ThreadPanics \/ NextHeld \/ TakesItOff => UNCHANGED seized
    BY DEF ForgetIt, ThreadPanics, NextHeld, TakesItOff
  <2> QED  BY <2>1, <2>2, <2>3, HandsOff
<1> QED
  BY <1>1, <1>2, <1>3 DEF Ours

(* A keyboard is told to the converter once it is ours, and stays ours     *)
(* while keys of it may be down.                                           *)
LEMMA TypedStep ==
  ASSUME KeyboardTypes, StreamTypes, RunTypes, TurnInv, OrderInv, AskInv, HeldInv, TypedInv,
         ValuesInv, [Next]_vars
  PROVE  TypedInv'
<1> DEFINE Late == {"GiveBack", "Closing", "TakingOff", "Over", "Panicked"}
<1> SUFFICES ASSUME Injecting', rpc' \notin Late
             PROVE  /\ \A n \in attached' \cup down' : Ours(n)'
                    /\ rpc' = "Reading" \/ (rpc' = "Taking" /\ reply' = "Yes") =>
                         \A n \in 0..Len(known') - 1 : n = Subject' => Ours(n)'
  <2>1. rpc' = "Reading" \/ (rpc' = "Taking" /\ reply' = "Yes") =>
          Subject' \in 0..Len(known') - 1
    <3>1. AskInv' /\ StreamTypes'
      BY AskStep, StreamTypesStep
    <3> QED  BY <3>1 DEF AskInv, Subject, StreamTypes, AboutOne, Events
  <2> QED  BY <2>1 DEF TypedInv, Ours
<1>0. /\ attached \cup down \subseteq 0..Len(known) - 1
      /\ Len(known) \in Nat /\ Len(known') \in Nat /\ Len(known') >= Len(known)
      /\ stream # <<>> /\ stream[1].what = "Found" => Subject \in 0..Len(known) - 1
      /\ rpc \in {"Taking", "Reading"} => stream # <<>> /\ stream[1].what = "Found"
  BY NumbersStay DEF RunTypes, Subject, StreamTypes, AboutOne, Events, AskInv
<1>1. /\ ByTheThread => UNCHANGED <<rpc, mode, attached, down>>
      /\ ByTheRun => UNCHANGED mode
      /\ UNCHANGED vars => UNCHANGED <<rpc, mode, attached, down, stream, reply, known,
                                     plugged, seized>>
  BY RunLeaves DEF ByTheThread, rvars, sink, vars, kvars, asking, machine, lists
<1>2. CASE UNCHANGED vars
  BY <1>0, <1>1, <1>2 DEF TypedInv, Ours, Injecting, Subject
<1>3. CASE ByTheThread
  <2>1. \A n \in attached' \cup down' : Ours(n)'
    <3>1. ~Close
      BY <1>1, <1>3 DEF Close, GoTo
    <3> QED  BY <1>0, <1>1, <1>3, <3>1, OursStays DEF TypedInv, Injecting
  <2>2. ASSUME rpc' = "Reading" \/ (rpc' = "Taking" /\ reply' = "Yes"),
               NEW n \in 0..Len(known') - 1, n = Subject'
        PROVE  Ours(n)'
    <3>1. n = Subject /\ n \in 0..Len(known) - 1
      BY <1>0, <1>1, <1>3, <2>2, HeadStays DEF Subject
    <3>2. CASE Ours(n)
      <4>1. ~Close
        BY <1>1, <1>3 DEF Close, GoTo
      <4> QED  BY <3>1, <3>2, <4>1, OursStays
    <3>3. CASE ~Ours(n)
      <4>1. rpc = "Taking" /\ reply' = "Yes" /\ reply # "Yes"
        BY <1>1, <1>3, <2>2, <3>1, <3>3 DEF TypedInv, Injecting, Ours
      <4>2. Seize
        BY <1>3, <4>1 DEF ByTheThread, Machine, Capturing, PlugIn, PullOut, Type, AskToBeTold,
           LookAtTheDevicesHere, TurnTheLoop, NothingMoreAsked, StartReading, DrainDevices,
           DrainValues, GiveItBack, ForgetIt, ThreadPanics, kvars, asking, CanAnswer, AskInv,
           NoAsk, Take
      <4>3. UNCHANGED known /\ known[n + 1] \in seized'
        BY <1>1, <1>3, <3>1, <4>1, <4>2, SeizesTheSubject DEF ByTheThread, Injecting
      <4> QED  BY <4>3 DEF Ours
    <3> QED  BY <3>2, <3>3
  <2> QED  BY <2>1, <2>2
<1>4. ASSUME ByTheRun, ~Close, Injecting, rpc \notin Late,
             attached' \cup down' \subseteq attached \cup down,
             rpc' = "Reading" \/ (rpc' = "Taking" /\ reply' = "Yes") =>
               /\ rpc = "Reading" \/ (rpc = "Taking" /\ reply = "Yes")
               /\ stream'[1] = stream[1]
      PROVE  /\ \A n \in attached' \cup down' : Ours(n)'
             /\ rpc' = "Reading" \/ (rpc' = "Taking" /\ reply' = "Yes") =>
                  \A n \in 0..Len(known') - 1 : n = Subject' => Ours(n)'
  <2>1. \A n \in attached' \cup down' : Ours(n)'
    BY <1>0, <1>4, OursStays DEF TypedInv
  <2>2. ASSUME rpc' = "Reading" \/ (rpc' = "Taking" /\ reply' = "Yes"),
               NEW n \in 0..Len(known') - 1, n = Subject'
        PROVE  Ours(n)'
    <3>1. n = Subject /\ n \in 0..Len(known) - 1 /\ Ours(n)
      BY <1>0, <1>4, <2>2 DEF Subject, TypedInv, Ours
    <3> QED  BY <1>4, <3>1, OursStays
  <2> QED  BY <2>1, <2>2
<1> USE DEF GoTo
<1>5. CASE Switch \/ AskToStop \/ BoundComesUp \/ OutputGoes
  <2>1. UNCHANGED <<rpc, mode, attached, down, reply, stream>>
    BY <1>5 DEF Switch, AskToStop, BoundComesUp, OutputGoes, sink, kvars, asking
  <2>2. ByTheRun /\ ~Close
    BY <1>5, <2>1 DEF ByTheRun, Close
  <2> QED  BY <1>4, <2>1, <2>2 DEF Injecting
<1>6. CASE LinkReturns
  <2>1. UNCHANGED <<rpc, mode, attached, down, reply>>
    BY <1>6 DEF LinkReturns, sink, asking
  <2>2. ByTheRun /\ ~Close
    BY <1>6, <2>1 DEF ByTheRun, Close
  <2> QED  BY <1>0, <1>4, <1>6, <2>1, <2>2, HeadStays DEF Injecting
<1>7. CASE SwitchedOff \/ MayReadInput \/ BringUpTheOutput \/ Listen \/ LookForDevices
           \/ TakesInAFact \/ MeansNothing \/ NothingArrives \/ TakeDevice
  <2>1. /\ UNCHANGED <<mode, attached, down, reply>>
        /\ rpc \in {"Switch", "Permission", "Output", "Link", "Look", "Wait"}
    BY <1>7 DEF SwitchedOff, MayReadInput, BringUpTheOutput, Listen, LookForDevices,
       TakesInAFact, MeansNothing, NothingArrives, TakeDevice, sink, kvars, asking
  <2>2. rpc' # "Reading"
    BY <1>7 DEF SwitchedOff, MayReadInput, BringUpTheOutput, Listen, LookForDevices, EndWith,
       TakesInAFact, MeansNothing, NothingArrives, TakeDevice, PassedOver, AfterAnEvent
  <2>3. ByTheRun /\ ~Close /\ reply = "None"
    BY <1>7, <2>1 DEF ByTheRun, Run, Close, AskInv
  <2> QED  BY <1>4, <2>1, <2>2, <2>3 DEF Injecting
<1>8. CASE CarriesOn \/ Reconnect \/ Refused \/ EndsMeanwhile \/ Park
  <2>1. /\ UNCHANGED <<mode, attached, down, reply>> /\ rpc = "LookIn"
        /\ rpc' \notin {"Taking", "Reading"}
    BY <1>8 DEF CarriesOn, Reconnect, Refused, EndsMeanwhile, Park, EndWith, sink, kvars, asking
  <2>2. ByTheRun /\ ~Close
    BY <1>8, <2>1 DEF ByTheRun, Run, Close
  <2> QED  BY <1>4, <2>1, <2>2 DEF Injecting
<1>9. ~(ReleaseEverything \/ NextHeld \/ Close \/ TakesItOff \/ Panics)
  BY DEF ReleaseEverything, NextHeld, Close, TakesItOff, Panics
<1>10. CASE Taken
  <2>1. UNCHANGED <<mode, attached, down>> /\ rpc = "Taking"
    BY <1>10 DEF Taken, sink
  <2>2. rpc' \in {"Taking", "Reading"} => reply = "Yes" /\ UNCHANGED stream
    BY <1>10 DEF Taken, PassedOver, AfterAnEvent
  <2>3. ByTheRun
    BY <1>10 DEF ByTheRun, Run
  <2> QED  BY <1>4, <1>9, <2>1, <2>2, <2>3 DEF Injecting
<1>11. CASE BeingRead
  <2>1. /\ rpc = "Reading" /\ rpc' \notin {"Taking", "Reading"} /\ UNCHANGED <<mode, down>>
        /\ attached' \subseteq attached \cup {Subject}
    BY <1>0, <1>11, TailOf DEF BeingRead, PassedOver, AfterAnEvent, Next1, Subject, StreamTypes
  <2>2. \A n \in attached' \cup down' : n \in 0..Len(known) - 1 /\ Ours(n)
    BY <1>0, <2>1 DEF TypedInv, Injecting
  <2> QED  BY <1>9, <2>1, <2>2, OursStays
<1>12. CASE Handle1
  <2>1. /\ rpc = "Wait" /\ rpc' \notin {"Taking", "Reading"} /\ UNCHANGED mode
        /\ attached' \subseteq attached
        /\ \A n \in down' : n \in down \/ (Next1.what = "Value" /\ n = Next1.device)
    BY <1>12 DEF Handle1, AfterAnEvent
  <2>2. Next1.what = "Value" => Next1.device \in attached
    <3>1. Next1 = stream[1] /\ 1 \in 1..Len(stream)
      BY <1>12, TailOf DEF Handle1, Next1, StreamTypes
    <3> QED  BY <2>1, <3>1 DEF ValuesInv, ToldOf
  <2>3. \A n \in attached' \cup down' : n \in attached \cup down
    BY <2>1, <2>2
  <2>4. ByTheRun
    BY <1>12 DEF ByTheRun, Run
  <2> QED  BY <1>4, <1>9, <2>1, <2>3, <2>4 DEF Injecting
<1> QED
  BY <1>2, <1>3, <1>5, <1>6, <1>7, <1>8, <1>9, <1>10, <1>11, <1>12, WhoSteps DEF ByTheRun, Run
-----------------------------------------------------------------------------
(* The converter knows of a keyboard until it is told of its loss.         *)
LEMMA ToldStays ==
  ASSUME KeyboardTypes, StreamTypes, TurnInv, AskInv, [Next]_vars, NEW n, ToldOf(n)
  PROVE  ToldOf(n)' \/ (Shifted /\ LostIt(stream[1], n))
<1> DEFINE Being == rpc = "Reading" /\ reply = "Yes" /\ FoundIt(stream[1], n)
<1>0. Being => stream # <<>> /\ request = NoAsk
  BY DEF AskInv
<1>1. CASE UNCHANGED vars
  BY <1>1 DEF vars, kvars, rvars, sink, asking, ToldOf
<1>2. CASE ByTheThread
  <2>1. UNCHANGED <<rpc, attached>>
    BY <1>2 DEF ByTheThread, rvars, sink
  <2>2. ASSUME Being PROVE Being'
    <3>1. UNCHANGED reply
      BY <1>0, <1>2, <2>2 DEF ByTheThread, Machine, Capturing, PlugIn, PullOut, Type,
         AskToBeTold, LookAtTheDevicesHere, TurnTheLoop, NothingMoreAsked, Seize, StartReading,
         CanAnswer, DrainDevices, DrainValues, GiveItBack, ForgetIt, ThreadPanics, asking
    <3> QED  BY <1>0, <1>2, <2>1, <2>2, <3>1, HeadStays
  <2> QED  BY <2>1, <2>2 DEF ToldOf
<1>3. CASE Handle1
  <2>1. rpc = "Wait" /\ stream # <<>> /\ stream' = Tail(stream) /\ Next1 = stream[1]
    BY <1>3, TailOf DEF Handle1, StreamTypes, Next1
  <2>2. attached' = IF Next1.what = "Lost" THEN attached \ {Next1.device} ELSE attached
    BY <1>3 DEF Handle1
  <2> QED  BY <2>1, <2>2 DEF ToldOf, LostIt, Shifted
<1>4. CASE BeingRead
  <2>1. Next1 = stream[1] /\ rpc = "Reading"
    BY <1>4, TailOf DEF BeingRead, StreamTypes, Next1, AskInv
  <2> QED  BY <1>4, <2>1 DEF BeingRead, ToldOf, FoundIt
<1>5. CASE Switch \/ AskToStop \/ BoundComesUp \/ OutputGoes
  BY <1>5 DEF Switch, AskToStop, BoundComesUp, OutputGoes, ToldOf, kvars, asking, sink
<1>6. CASE LinkReturns
  BY <1>0, <1>6, HeadStays DEF LinkReturns, ToldOf, sink, asking
<1>7. CASE Run /\ ~Handle1 /\ ~BeingRead
  <2>1. UNCHANGED attached /\ rpc # "Reading"
    BY <1>7 DEF Run, SwitchedOff, MayReadInput, BringUpTheOutput, Listen, LookForDevices,
       TakesInAFact, MeansNothing, TakeDevice, Taken, NothingArrives, CarriesOn, Reconnect,
       Refused, EndsMeanwhile, Park, ReleaseEverything, NextHeld, Close, TakesItOff, Panics,
       sink
  <2> QED  BY <2>1 DEF ToldOf
<1> QED
  BY <1>1, <1>2, <1>3, <1>4, <1>5, <1>6, <1>7, WhoSteps DEF ByTheRun

(* The handles, and what the thread adds to them.                          *)
LEMMA NewHandles ==
  ASSUME KeyboardTypes, ByTheThread
  PROVE  \A h \in pending' \cup watched' :
           \/ h \in pending \cup watched
           \/ h.id = Len(known) /\ stream' = stream \o <<Found(Len(known))>>
<1> USE DEF ByTheThread, kvars, lists, machine
<1>1. CASE UNCHANGED <<pending, watched>>
  BY <1>1
<1>2. CASE StartReading
  BY <1>2 DEF StartReading, Waiting
<1>3. CASE ForgetIt
  BY <1>3 DEF ForgetIt
<1>4. CASE DrainDevices
  <2>1. PICK d : OneDevice(d)
    BY <1>4 DEF DrainDevices
  <2>2. UNCHANGED watched
    BY <1>4 DEF DrainDevices
  <2>3. CASE Keep(d) /\ d \in Range(known)
    BY <2>2, <2>3 DEF Keep, Handle
  <2>4. CASE Keep(d) /\ d \notin Range(known)
    <3>1. stream' = stream \o <<Found(Len(known))>>
      BY <2>4 DEF Keep, Deliver
    <3> QED  BY <2>2, <2>4, <3>1 DEF Keep, Handle
  <2> QED  BY <1>1, <2>1, <2>2, <2>3, <2>4 DEF OneDevice
<1> QED
  BY <1>1, <1>2, <1>3, <1>4
     DEF Machine, Capturing, PlugIn, PullOut, Type, AskToBeTold, LookAtTheDevicesHere,
         TurnTheLoop, NothingMoreAsked, Seize, DrainValues, GiveItBack, ThreadPanics

(* A keyboard that begins to be read is the one the run is being told of.  *)
LEMMA NewReading ==
  ASSUME KeyboardTypes, StreamTypes, AskInv, [Next]_vars, NEW h \in watched', h \notin watched
  PROVE  ToldOf(h.id)'
<1> USE DEF kvars, lists
<1>1. ByTheThread /\ StartReading
  BY WhoSteps, RunLeaves
     DEF ByTheThread, Machine, Capturing, PlugIn, PullOut, Type, AskToBeTold,
         LookAtTheDevicesHere, TurnTheLoop, NothingMoreAsked, Seize, DrainDevices, DrainValues,
         GiveItBack, ForgetIt, ThreadPanics, vars
<1>2. request.what = "Read" /\ request # NoAsk /\ UNCHANGED <<rpc, stream>>
  BY <1>1 DEF StartReading, CanAnswer, ByTheThread, rvars
<1>3. /\ rpc = "Reading" /\ request = Read(Subject)
      /\ stream # <<>> /\ stream[1].what = "Found"
  BY <1>2 DEF AskInv, Take
<1>4. h.id = Subject /\ reply' = "Yes"
  BY <1>1, <1>3 DEF StartReading, Waiting, Read
<1> QED
  BY <1>2, <1>3, <1>4 DEF ToldOf, FoundIt, Subject

(* The loss of a keyboard waits in the stream only once nothing reads it.  *)
LEMMA LossesAreLast ==
  ASSUME KeyboardTypes, StreamTypes, TurnInv, AskInv, ValuesInv, [Next]_vars,
         NEW h \in pending' \cup watched', NEW i \in 1..Len(stream'), LostIt(stream'[i], h.id)
  PROVE  FALSE
<1>0. Len(stream) \in Nat /\ stream \in Seq(Events)
  BY DEF StreamTypes
<1>1. CASE h \in pending \cup watched
  <2>1. h.id \in Nat /\ h.id < Len(known) /\ known[h.id + 1] = h.device
    BY <1>1 DEF KeyboardTypes, Handles, Named
  <2>2. \A j \in 1..Len(stream) : ~LostIt(stream[j], h.id)
    BY <1>1 DEF ValuesInv
  <2>3. CASE UNCHANGED stream
    BY <2>2, <2>3
  <2>4. CASE Shifted
    BY <2>2, <2>4, ShiftedIs
  <2>5. ASSUME NEW t \in Seq(Events), Fed(t) PROVE FALSE
    <3>1. PICK k \in 1..Len(t) : LostIt(t[k], h.id)
      BY <2>2, <2>5, FedIs
    <3>2. JustForgotten(h.id)
      BY <2>5, <3>1 DEF Fed, LostIt, JustForgotten
    <3> QED  BY <2>1, <3>2 DEF JustForgotten
  <2> QED  BY <2>3, <2>4, <2>5, StreamSteps
<1>2. CASE h \notin pending \cup watched
  <2>1. h.id = Len(known) /\ stream' = stream \o <<Found(Len(known))>> /\ Len(known) \in Nat
    <3>1. ByTheThread
      BY <1>2, WhoSteps, RunLeaves DEF lists, vars, kvars
    <3>2. Len(known) \in Nat
      BY DEF KeyboardTypes
    <3> QED  BY <1>2, <3>1, <3>2, NewHandles
  <2>2. CASE i \in 1..Len(stream)
    <3>1. stream'[i] = stream[i]
      BY <1>0, <2>1, <2>2, StreamEvents
    <3> QED  BY <2>1, <2>2, <3>1 DEF StreamTypes, LostIt, AboutOne
  <2>3. CASE i \notin 1..Len(stream)
    <3>1. stream'[i] = Found(Len(known))
      BY <1>0, <2>1, <2>3, StreamEvents
    <3> QED  BY <2>1, <3>1, StreamEvents DEF LostIt
  <2> QED  BY <2>2, <2>3
<1> QED  BY <1>1, <1>2

(* A value waits behind the finding of its keyboard and before its loss.   *)
LEMMA ValuesStep ==
  ASSUME KeyboardTypes, StreamTypes, TurnInv, AskInv, ValuesInv, [Next]_vars
  PROVE  ValuesInv'
<1>0. Len(stream) \in Nat
  BY DEF StreamTypes
<1>1. \A h \in pending' \cup watched', i \in 1..Len(stream') : ~LostIt(stream'[i], h.id)
  BY LossesAreLast
<1>2. ASSUME NEW h \in watched, NEW n, n = h.id PROVE ToldOf(n)'
  <2>1. Shifted => 1 \in 1..Len(stream)
    BY ShiftedIs
  <2> QED  BY <1>2, <2>1, ToldStays DEF ValuesInv
<1>3. \A h \in watched' : ToldOf(h.id)'
  BY <1>2, NewReading
<1>4. ASSUME NEW n, NEW i \in 1..Len(stream), stream[i].what = "Value", stream[i].device = n,
             Shifted => i > 1
      PROVE  ToldOf(n)'
  <2>1. ToldOf(n) /\ \A j \in 1..i - 1 : ~LostIt(stream[j], n)
    BY <1>4 DEF ValuesInv
  <2> QED  BY <1>4, <2>1, ToldStays
<1>5. ASSUME NEW i \in 1..Len(stream'), NEW n, stream'[i].what = "Value", stream'[i].device = n
      PROVE  ToldOf(n)' /\ \A j \in 1..i - 1 : ~LostIt(stream'[j], n)
  <2>1. CASE Shifted
    <3>1. i + 1 \in 1..Len(stream) /\ stream'[i] = stream[i + 1] /\ i \in Nat \ {0}
          /\ \A j \in 1..i - 1 : stream'[j] = stream[j + 1] /\ j + 1 \in 1..(i + 1) - 1
      BY <2>1, ShiftedIs
    <3>2. ToldOf(n)'
      BY <1>4, <1>5, <3>1
    <3> QED  BY <1>5, <3>1, <3>2 DEF ValuesInv
  <2>2. CASE UNCHANGED stream /\ ~Shifted
    BY <1>4, <1>5, <2>2 DEF ValuesInv
  <2>3. ASSUME NEW t \in Seq(Events), Fed(t), ~Shifted
        PROVE  ToldOf(n)' /\ \A j \in 1..i - 1 : ~LostIt(stream'[j], n)
    <3>1. \A j \in 1..i - 1 : j \in 1..Len(stream')
      BY <2>3 DEF Fed, StreamTypes
    <3>2. CASE i \in 1..Len(stream) /\ stream'[i] = stream[i]
      <4>1. \A j \in 1..i - 1 : stream'[j] = stream[j]
        BY <1>0, <2>3, <3>1, <3>2, FedIs
      <4> QED  BY <1>4, <1>5, <2>3, <3>2, <4>1 DEF ValuesInv
    <3>3. ASSUME NEW k \in 1..Len(t), stream'[i] = t[k]
          PROVE  ToldOf(n)' /\ \A j \in 1..i - 1 : ~LostIt(stream'[j], n)
      <4>1. IsRead(n) /\ UNCHANGED <<watched, pending>>
        BY <1>5, <2>3, <3>3 DEF Fed
      <4> QED  BY <1>1, <1>2, <3>1, <4>1 DEF IsRead
    <3> QED  BY <2>3, <3>2, <3>3, FedIs
  <2> QED  BY <2>1, <2>2, <2>3, StreamSteps
<1> QED
  BY <1>1, <1>3, <1>5 DEF ValuesInv
-----------------------------------------------------------------------------
(* The inductive invariant.                                                *)
IInv ==
  /\ KeyboardTypes /\ StreamTypes /\ RunTypes
  /\ TurnInv /\ OrderInv /\ AskInv /\ HeldInv
  /\ TypedInv /\ ValuesInv

LEMMA InvInit == ASSUME Init PROVE IInv
<1> USE DEF Init, KInit
<1>1. known = <<>> /\ stream = <<>> /\ held = <<>> /\ Len(<<>>) = 0 /\ DOMAIN <<>> = {}
  OBVIOUS
<1>2. known \in Seq(Devices) /\ stream \in Seq(Events) /\ held \in Seq(Handles)
  BY <1>1
<1>3. KeyboardTypes
  BY <1>1, <1>2 DEF KeyboardTypes, IsInjective
<1>4. StreamTypes
  BY <1>1, <1>2 DEF StreamTypes
<1>5. RunTypes
  BY <1>1, SinkRunAssumption DEF RunTypes
<1>6. TurnInv /\ OrderInv
  BY <1>1 DEF TurnInv, OrderInv
<1>7. AskInv
  BY DEF AskInv, Asks, NoAsk
<1>8. HeldInv
  BY <1>1, <1>2 DEF HeldInv, ListInv, FindingInv, LeavingInv, GivingInv
<1>9. TypedInv /\ ValuesInv
  BY <1>1 DEF TypedInv, ValuesInv
<1> QED
  BY <1>3, <1>4, <1>5, <1>6, <1>7, <1>8, <1>9 DEF IInv

LEMMA InvStep == ASSUME IInv, [Next]_vars PROVE IInv'
  BY KeyboardTypesStep, StreamTypesStep, RunTypesStep, TurnStep, OrderStep, AskStep, HeldStep,
     TypedStep, ValuesStep DEF IInv

LEMMA RunInvariant == Spec => []IInv
  BY InvInit, InvStep, PTL DEF Spec

-----------------------------------------------------------------------------
(* The type invariant of the run is part of it.                            *)
LEMMA InvTypeOK == ASSUME IInv PROVE TypeOK
<1> USE DEF IInv, HeldInv, ListInv
<1>1. seized \subseteq Devices
  <2>1. \A i \in 1..Len(held) : held[i] \in Handles
    OBVIOUS
  <2> QED  BY <2>1 DEF Handles
<1>2. Range(known) \subseteq Devices
  BY DEF KeyboardTypes, Range
<1>3. \A h \in pending \cup watched \cup Range(held) : known[h.id + 1] = h.device
  BY DEF KeyboardTypes, Range, Named
<1>4. Cardinality(leaving) <= 1
  <2>1. CASE leaving = {}
    BY <2>1, FS_EmptySet
  <2>2. ASSUME NEW l \in leaving PROVE Cardinality(leaving) <= 1
    <3>1. leaving = {l}
      BY DEF TurnInv
    <3>2. Cardinality({l}) = 1
      BY FS_Singleton
    <3> QED  BY <3>1, <3>2
  <2> QED  BY <2>1, <2>2
<1>5. DevicesOf(leaving) \subseteq gone
  BY DEF TurnInv, DevicesOf
<1>6. ready \subseteq DevicesOf(watched)
  BY DEF TurnInv
<1> QED
  BY <1>1, <1>2, <1>3, <1>4, <1>5, <1>6 DEF TypeOK, KeyboardTypes, RunTypes

(* What the run takes it can give back: every keyboard open exclusively is *)
(* on the list of those to be given back, whichever of the two threads has *)
(* it in hand and whichever open or close failed.                          *)
THEOREM KeyboardsAreKept == Spec => []WhatIsTakenIsKept
<1>1. IInv => WhatIsTakenIsKept
  <2> SUFFICES ASSUME IInv PROVE WhatIsTakenIsKept
    OBVIOUS
  <2>1. TypeOK
    BY InvTypeOK
  <2>2. ASSUME NEW d \in seized PROVE d \in DevicesOf(Range(held))
    <3>1. PICK i \in 1..Len(held) : held[i].device = d
      BY DEF IInv, HeldInv, ListInv
    <3>2. i \in DOMAIN held
      BY DEF IInv, HeldInv, ListInv
    <3> QED  BY <3>1, <3>2 DEF DevicesOf, Range
  <2>3. seized # {} => output # "Unopened"
    BY DEF IInv, OrderInv
  <2> QED  BY <2>1, <2>2, <2>3 DEF WhatIsTakenIsKept
<1> QED
  BY <1>1, RunInvariant, PTL

(* No key reaches the OS from a keyboard something else reads too, and no  *)
(* value from one the converter was not told of or was told the loss of.   *)
THEOREM TypedOnce == Spec => []NeverTypedTwice
<1>1. IInv => NeverTypedTwice
  <2> SUFFICES ASSUME IInv PROVE NeverTypedTwice
    OBVIOUS
  <2>1. ASSUME NEW n \in os PROVE known[n + 1] \in seized \/ plugged[known[n + 1]] = "Gone"
    <3>1. /\ Injecting /\ n \in down
          /\ rpc \notin {"GiveBack", "Closing", "TakingOff", "Over", "Panicked"}
      BY DEF IInv, OrderInv, RunTypes
    <3> QED  BY <3>1 DEF IInv, TypedInv, Ours
  <2>2. ASSUME NEW i \in DOMAIN stream, stream[i].what = "Value", NEW n, n = stream[i].device
        PROVE  InOrder(n, i)
    <3> DEFINE before == {stream[j] : j \in 1..i - 1}
    <3>1. i \in 1..Len(stream) /\ Len(stream) \in Nat
      BY DEF IInv, StreamTypes
    <3>2. ToldOf(n) /\ \A j \in 1..i - 1 : ~LostIt(stream[j], n)
      BY <2>2, <3>1 DEF IInv, ValuesInv
    <3>3. Lost(n) \notin before
      BY <3>2 DEF Lost, LostIt
    <3>4. CASE rpc = "Reading" /\ reply = "Yes" /\ FoundIt(stream[1], n)
      <4>1. stream[1] \in Events
        BY <3>1 DEF IInv, StreamTypes
      <4>2. stream[1] = Found(n)
        BY <3>4, <4>1 DEF Events, FoundIt, Found
      <4>3. 1 \in 1..i - 1
        BY <2>2, <3>1, <3>4 DEF FoundIt
      <4> QED  BY <3>3, <4>2, <4>3 DEF InOrder
    <3> QED  BY <3>2, <3>3, <3>4 DEF InOrder, ToldOf
  <2> QED  BY <2>1, <2>2 DEF NeverTypedTwice, ValuesHaveAKeyboard
<1> QED
  BY <1>1, RunInvariant, PTL

-----------------------------------------------------------------------------
(* A run that ended without a refusal ended with nothing left to give back.*)
LEMMA EndStep ==
  ASSUME IInv, EndInv, [HNext]_<<vars, refused>>
  PROVE  EndInv'
<1> SUFFICES ASSUME rpc' = "Over", ~refused' PROVE seized' = {} /\ held' = <<>>
  BY DEF EndInv
<1>1. CASE UNCHANGED <<vars, refused>>
  BY <1>1 DEF vars, kvars, rvars, EndInv
<1>2. ASSUME HNext PROVE seized' = {} /\ held' = <<>>
  <2>1. Next /\ ~refused /\ rpc # "Closing"
    BY <1>2 DEF HNext
  <2>2. ~World /\ ~Capture
    BY DEF World, Switch, AskToStop, BoundComesUp, OutputGoes, LinkReturns, Comes, Looking,
           Running, Capture, rvars
  <2>3. CASE NextHeld
    BY <2>3 DEF NextHeld, kvars, GoTo, IInv, HeldInv, ListInv
  <2>4. CASE ~NextHeld
    <3>1. cpc = "Unstarted" /\ UNCHANGED <<seized, held>>
      BY <2>1, <2>2, <2>4
         DEF Next, Run, GoTo, EndWith, SwitchedOff, MayReadInput, BringUpTheOutput, Listen,
             LookForDevices, TakesInAFact, MeansNothing, PassedOver, AfterAnEvent, TakeDevice,
             Taken, BeingRead, Handle1, NothingArrives, CarriesOn, Reconnect, Refused,
             EndsMeanwhile, Park, ReleaseEverything, Close, TakesItOff, Panics, kvars
    <3> QED  BY <3>1 DEF IInv, OrderInv
  <2> QED  BY <2>3, <2>4
<1> QED  BY <1>1, <1>2

(* A run that is over holds no key down and, if every keyboard would close,*)
(* no keyboard; no keyboard is given back, nor does the process panic over *)
(* the list of them, while a key is down.                                  *)
THEOREM NothingIsLeftHeld == HSpec => []NothingStranded
<1>1. HInit => IInv /\ EndInv
  BY InvInit DEF HInit, EndInv, Init
<1>2. IInv /\ EndInv /\ [HNext]_<<vars, refused>> => IInv' /\ EndInv'
  BY InvStep, EndStep DEF HNext
<1>3. IInv /\ EndInv => NothingStranded
  BY DEF IInv, EndInv, OrderInv, NothingStranded
<1> QED
  BY <1>1, <1>2, <1>3, PTL DEF HSpec

-----------------------------------------------------------------------------
(* The output device's connection, whatever the service says of itself and *)
(* whatever the intervals are.  What the run knows of the devices is what  *)
(* the service had said up to the frame last read because the frames still *)
(* to come, the one half read first, each say what the one before left     *)
(* (StreamInv); the beats are in time because what a read may still take   *)
(* is counted in beforehand (ClockInv).                                    *)

Size(f) == IF f.kind = "Empty" THEN 2 ELSE 3
Frames ==
  [kind : {"Beat", "Request", "Response", "HealthCheck", "Empty"},
   pairs : SUBSET [device : Device, up : BOOLEAN], up : SUBSET Device, id : Nat]
PiecesOfAny == [of : Frames, at : 1..3]

OutputTypes ==
  /\ phase \in {"Reach", "Wait", "Serve", "Turn", "Read", "Over"}
  /\ status \subseteq Device /\ devicesUp \subseteq Device
  /\ got \in Seq(PiecesOfAny) /\ wire \in Seq(PiecesOfAny) /\ rest \in Seq(PiecesOfAny)
  /\ read \in Frames \cup {NoFrame}
  /\ owed = <<>> \/ \E f \in Frames : owed = <<f>>
  /\ bound \in Nat /\ left \in 0..bound
  /\ waited \in Nat /\ beaten \in Nat /\ since \in Nat /\ heard \in Nat /\ beat \in Nat
  /\ said \in 0..Sayings
  /\ open \in BOOLEAN /\ paused \in BOOLEAN /\ torn \in BOOLEAN

(* All the run has not made anything of yet, as the service said it: the   *)
(* frame half read, what is on the wire, the rest of a frame broken off.   *)
Unfinished == IF owed = <<>> THEN got ELSE <<>>
Pending == Unfinished \o wire \o rest
Follows(p, q) ==
  IF p.at < Size(p.of) THEN q = [of |-> p.of, at |-> p.at + 1]
  ELSE q.at = 1 /\ Told(p.of.up, q.of) = q.of.up
Framed(s) ==
  /\ \A i \in 1..Len(s) : s[i].at \in 1..Size(s[i].of)
  /\ \A i \in 1..Len(s) - 1 : Follows(s[i], s[i + 1])
  /\ s # <<>> => s[1].at = 1 /\ s[Len(s)].at = Size(s[Len(s)].of)
EndsAsReady(t) == t # <<>> => t[Len(t)].of.up = devicesUp
Continues(s, t) == IF t = <<>> THEN s = devicesUp ELSE Told(s, t[1].of) = t[1].of.up
StreamInv ==
  phase # "Over" =>
    /\ Framed(Pending) /\ EndsAsReady(Pending)
    /\ phase = "Wait" => (read # NoFrame => status = read.up) /\ Continues(status, Pending)
(* What was read of a frame is its beginning, and never all of it.         *)
GotInv ==
  /\ got # <<>> => Len(got) < Size(got[1].of)
  /\ \A i \in 1..Len(got) : got[i] = [of |-> got[1].of, at |-> i]
PhaseInv ==
  /\ phase = "Reach" =>
       /\ wire = <<>> /\ rest = <<>> /\ status = {} /\ devicesUp = {} /\ ~open
       /\ ~paused /\ read = NoFrame
  /\ phase \in {"Reach", "Serve", "Turn"} => got = <<>> /\ owed = <<>>
  /\ owed # <<>> => phase \in {"Wait", "Read"}
  /\ phase \in {"Reach", "Wait"} => ~torn
  /\ phase # "Over" /\ hung => paused

(* Nothing is spent in a read but the time it is given, and a frame is     *)
(* three reads at most, one unless the service stopped inside it.          *)
ReadsLeft == IF Len(got) = 0 THEN 2 * bound ELSE IF Len(got) = 1 THEN bound ELSE 0
Quick(c) == IF got = <<>> THEN c + left ELSE c
Within(c, most, by) ==
  /\ c + left + ReadsLeft <= most + 3 * by
  /\ ~paused => Quick(c) <= most + by
ClockInv ==
  /\ phase = "Wait" =>
       /\ bound = Shortest /\ heard <= waited
       /\ Within(beaten, BeatWithin, Shortest)
       /\ Within(waited, Wait, Shortest)
  /\ phase = "Read" =>
       /\ bound \in Shortest..BeatEvery
       /\ since + left + ReadsLeft <= 3 * BeatEvery + Shortest
       /\ ~paused => Quick(since) <= BeatEvery + Shortest
  /\ Serving => since <= HeldUp(BeatEvery) + Shortest
  /\ Serving /\ ~torn => heard <= waited + since
-----------------------------------------------------------------------------
LEMMA UpToThree ==
  ASSUME NEW x \in Nat, x > 0, x <= 3
  PROVE  x = 1 \/ x = 2 \/ x = 3
  OBVIOUS

LEMMA NoneYet == <<>> \in Seq(PiecesOfAny)
  OBVIOUS

LEMMA Joined ==
  ASSUME NEW s \in Seq(PiecesOfAny), NEW t \in Seq(PiecesOfAny)
  PROVE  /\ s \o t \in Seq(PiecesOfAny) /\ Len(s \o t) = Len(s) + Len(t)
         /\ \A i \in 1..Len(s) : (s \o t)[i] = s[i]
         /\ \A i \in 1..Len(s) + Len(t) : i > Len(s) => (s \o t)[i] = t[i - Len(s)]
         /\ \A j \in 1..Len(t) : (s \o t)[Len(s) + j] = t[j]
         /\ s = <<>> => s \o t = t
         /\ t = <<>> => s \o t = s
  OBVIOUS

LEMMA Cut ==
  ASSUME NEW s \in Seq(PiecesOfAny), NEW n \in 0..Len(s)
  PROVE  /\ SubSeq(s, 1, n) \in Seq(PiecesOfAny) /\ Len(SubSeq(s, 1, n)) = n
         /\ \A i \in 1..n : SubSeq(s, 1, n)[i] = s[i]
         /\ SubSeq(s, n + 1, Len(s)) \in Seq(PiecesOfAny) /\ Len(SubSeq(s, n + 1, Len(s))) = Len(s) - n
         /\ \A i \in 1..Len(s) - n : SubSeq(s, n + 1, Len(s))[i] = s[n + i]
         /\ SubSeq(s, 1, n) \o SubSeq(s, n + 1, Len(s)) = s
<1>1. SubSeq(s, 1, n) \in Seq(PiecesOfAny) /\ Len(SubSeq(s, 1, n)) = n
      /\ \A i \in 1..n : SubSeq(s, 1, n)[i] = s[i]
  OBVIOUS
<1>2. /\ SubSeq(s, n + 1, Len(s)) \in Seq(PiecesOfAny) /\ Len(SubSeq(s, n + 1, Len(s))) = Len(s) - n
      /\ \A i \in 1..Len(s) - n : SubSeq(s, n + 1, Len(s))[i] = s[n + i]
  OBVIOUS
<1> DEFINE a == SubSeq(s, 1, n)  b == SubSeq(s, n + 1, Len(s))
<1>a. a \in Seq(PiecesOfAny) /\ Len(a) = n /\ \A i \in 1..n : a[i] = s[i]
  BY <1>1
<1>b. b \in Seq(PiecesOfAny) /\ Len(b) = Len(s) - n /\ \A i \in 1..Len(s) - n : b[i] = s[n + i]
  BY <1>2
<1>c. Len(s) \in Nat /\ n \in Nat /\ n <= Len(s)
  OBVIOUS
<1> HIDE DEF a, b
<1>3. /\ a \o b \in Seq(PiecesOfAny) /\ Len(a \o b) = Len(s)
      /\ \A i \in 1..Len(s) : (a \o b)[i] = s[i]
  <2>1. /\ a \o b \in Seq(PiecesOfAny) /\ Len(a \o b) = Len(a) + Len(b)
        /\ \A i \in 1..Len(a) : (a \o b)[i] = a[i]
        /\ \A i \in 1..Len(a) + Len(b) : i > Len(a) => (a \o b)[i] = b[i - Len(a)]
    <3>1. a \in Seq(PiecesOfAny) /\ b \in Seq(PiecesOfAny)
      BY <1>a, <1>b
    <3> QED  BY <3>1, Joined
  <2>2. Len(a) + Len(b) = Len(s)
    BY <1>a, <1>b, <1>c
  <2>3. ASSUME NEW i \in 1..Len(s), i > n PROVE i - n \in 1..Len(s) - n /\ n + (i - n) = i
    BY <1>c, <2>3
  <2>4. ASSUME NEW i \in 1..Len(s) PROVE (a \o b)[i] = s[i]
    <3>1. CASE i <= n
      BY <1>a, <1>c, <2>1, <3>1
    <3>2. CASE i > n
      BY <1>a, <1>b, <1>c, <2>1, <2>2, <2>3, <3>2
    <3>3. i <= n \/ i > n
      BY <1>c
    <3> QED  BY <3>1, <3>2, <3>3
  <2> QED  BY <2>1, <2>2, <2>4
<1>4. a \o b = s
  BY <1>3, SeqEqual
<1> QED  BY <1>1, <1>2, <1>4 DEF a, b

LEMMA Regrouped ==
  ASSUME NEW s \in Seq(PiecesOfAny), NEW t \in Seq(PiecesOfAny), NEW u \in Seq(PiecesOfAny)
  PROVE  (s \o t) \o u = s \o (t \o u)
  BY ConcatAssociative

LEMMA PiecesAre ==
  ASSUME NEW f \in Frames
  PROVE  /\ Pieces(f) \in Seq(PiecesOfAny) /\ Len(Pieces(f)) = Size(f) /\ Size(f) \in {2, 3}
         /\ \A i \in 1..Size(f) : Pieces(f)[i] = [of |-> f, at |-> i]
<1> DEFINE n == Size(f)
<1>1. n \in {2, 3} /\ Pieces(f) = [i \in 1..n |-> [of |-> f, at |-> i]]
  BY DEF Pieces, Size
<1>2. \A i \in 1..n : [of |-> f, at |-> i] \in PiecesOfAny
  BY <1>1 DEF PiecesOfAny
<1> HIDE DEF n
<1>3. [i \in 1..n |-> [of |-> f, at |-> i]] \in Seq(PiecesOfAny)
  BY <1>1, <1>2
<1>4. Len([i \in 1..n |-> [of |-> f, at |-> i]]) = n
  BY <1>1, <1>2, <1>3
<1> QED  BY <1>1, <1>3, <1>4 DEF n

LEMMA PieceIs ==
  ASSUME NEW s \in Seq(PiecesOfAny), NEW i \in 1..Len(s)
  PROVE  s[i] \in PiecesOfAny /\ s[i].of \in Frames /\ s[i].at \in 1..3
         /\ Size(s[i].of) \in {2, 3}
<1>1. s[i] \in PiecesOfAny
  OBVIOUS
<1> QED  BY <1>1 DEF PiecesOfAny, Size

LEMMA FramedThen ==
  ASSUME NEW s \in Seq(PiecesOfAny), NEW f \in Frames, Framed(s),
         s # <<>> => Told(s[Len(s)].of.up, f) = f.up
  PROVE  LET t == s \o Pieces(f)
         IN /\ t \in Seq(PiecesOfAny) /\ Framed(t) /\ t # <<>>
            /\ t[Len(t)].of = f
            /\ IF s = <<>> THEN t[1].of = f ELSE t[1] = s[1]
<1> DEFINE t == s \o Pieces(f)
<1>1. /\ Pieces(f) \in Seq(PiecesOfAny) /\ Len(Pieces(f)) = Size(f) /\ Size(f) \in {2, 3}
      /\ \A i \in 1..Size(f) : Pieces(f)[i] = [of |-> f, at |-> i]
  BY PiecesAre
<1>2. /\ t \in Seq(PiecesOfAny) /\ Len(t) = Len(s) + Size(f)
      /\ \A i \in 1..Len(s) : t[i] = s[i]
      /\ \A i \in 1..Len(s) + Size(f) : i > Len(s) => t[i] = [of |-> f, at |-> i - Len(s)]
      /\ Len(s) \in Nat /\ (s # <<>> <=> Len(s) > 0)
  <2>1. /\ t \in Seq(PiecesOfAny) /\ Len(t) = Len(s) + Len(Pieces(f))
        /\ \A i \in 1..Len(s) : t[i] = s[i]
        /\ \A i \in 1..Len(s) + Len(Pieces(f)) : i > Len(s) => t[i] = Pieces(f)[i - Len(s)]
    BY <1>1, Joined
  <2>2. Len(s) \in Nat /\ (s # <<>> <=> Len(s) > 0)
    OBVIOUS
  <2> HIDE DEF t
  <2>3. ASSUME NEW i \in 1..Len(s) + Size(f), i > Len(s) PROVE i - Len(s) \in 1..Size(f)
    BY <1>1, <2>2, <2>3
  <2> QED  BY <1>1, <2>1, <2>2, <2>3
<1> HIDE DEF t
<1>3. t # <<>> /\ t[Len(t)] = [of |-> f, at |-> Size(f)]
  BY <1>1, <1>2
<1>4. t[1] = IF s = <<>> THEN [of |-> f, at |-> 1] ELSE s[1]
  BY <1>1, <1>2
<1>5. ASSUME NEW i \in 1..Len(t) PROVE t[i].at \in 1..Size(t[i].of)
  BY <1>1, <1>2 DEF Framed
<1>6. ASSUME NEW i \in 1..Len(t) - 1 PROVE Follows(t[i], t[i + 1])
  <2>1. CASE i < Len(s)
    <3>1. i \in 1..Len(s) - 1 /\ i \in 1..Len(s) /\ i + 1 \in 1..Len(s)
      BY <1>1, <1>2, <2>1
    <3> QED  BY <1>2, <3>1 DEF Framed
  <2>2. CASE i = Len(s)
    <3>0. /\ i \in 1..Len(s) /\ Len(s) > 0 /\ i + 1 \in 1..Len(s) + Size(f)
          /\ i + 1 > Len(s) /\ (i + 1) - Len(s) = 1
      BY <1>1, <1>2, <2>2
    <3>1. i \in 1..Len(s) /\ s # <<>> /\ t[i] = s[Len(s)] /\ t[i + 1] = [of |-> f, at |-> 1]
      BY <1>2, <2>2, <3>0
    <3>2. s[Len(s)].at = Size(s[Len(s)].of) /\ Size(s[Len(s)].of) \in {2, 3}
      BY <3>1, PieceIs, <2>2 DEF Framed
    <3> QED  BY <3>1, <3>2 DEF Follows
  <2>3. CASE i > Len(s)
    <3>1. /\ t[i] = [of |-> f, at |-> i - Len(s)] /\ t[i + 1] = [of |-> f, at |-> i + 1 - Len(s)]
          /\ i - Len(s) < Size(f) /\ i + 1 - Len(s) = (i - Len(s)) + 1
      BY <1>1, <1>2, <2>3
    <3> QED  BY <3>1 DEF Follows
  <2> QED  BY <1>2, <1>1, <2>1, <2>2, <2>3
<1> QED
  BY <1>2, <1>3, <1>4, <1>5, <1>6 DEF Framed, t

LEMMA FramedBehind ==
  ASSUME NEW s \in Seq(PiecesOfAny), Framed(s), NEW k \in 1..Len(s),
         s[k].at = Size(s[k].of)
  PROVE  LET t == SubSeq(s, k + 1, Len(s))
         IN /\ t \in Seq(PiecesOfAny) /\ Framed(t)
            /\ t = <<>> => k = Len(s)
            /\ t # <<>> => /\ t[Len(t)] = s[Len(s)] /\ s # <<>>
                           /\ Told(s[k].of.up, t[1].of) = t[1].of.up
<1> DEFINE t == SubSeq(s, k + 1, Len(s))
<1>1. /\ t \in Seq(PiecesOfAny) /\ Len(t) = Len(s) - k
      /\ \A i \in 1..Len(s) - k : t[i] = s[k + i]
      /\ Len(s) \in Nat /\ k \in Nat /\ (t # <<>> <=> Len(t) > 0)
  <2>1. k \in 0..Len(s) /\ Len(s) \in Nat /\ k \in Nat
    OBVIOUS
  <2>2. /\ t \in Seq(PiecesOfAny) /\ Len(t) = Len(s) - k
        /\ \A i \in 1..Len(s) - k : t[i] = s[k + i]
    BY <2>1, Cut
  <2> HIDE DEF t
  <2> QED  BY <2>1, <2>2
<1> HIDE DEF t
<1>2. ASSUME NEW i \in 1..Len(t) PROVE t[i].at \in 1..Size(t[i].of)
  BY <1>1, k + i \in 1..Len(s) DEF Framed
<1>3. ASSUME NEW i \in 1..Len(t) - 1 PROVE Follows(t[i], t[i + 1])
  <2>1. k + i \in 1..Len(s) - 1 /\ i \in 1..Len(s) - k /\ i + 1 \in 1..Len(s) - k
        /\ k + (i + 1) = (k + i) + 1
    BY <1>1
  <2> QED  BY <1>1, <2>1 DEF Framed
<1>4. CASE t = <<>>
  <2>1. k = Len(s) /\ Len(t) = 0
    BY <1>1, <1>4
  <2> QED  BY <1>1, <1>2, <1>3, <1>4, <2>1 DEF Framed, t
<1>5. CASE t # <<>>
  <2>1. /\ k \in 1..Len(s) - 1 /\ t[1] = s[k + 1] /\ t[Len(t)] = s[Len(s)] /\ s # <<>>
    <3>1. Len(s) - k \in 1..Len(s) - k /\ 1 \in 1..Len(s) - k /\ k + (Len(s) - k) = Len(s)
      BY <1>1, <1>5
    <3> QED  BY <1>1, <1>5, <3>1
  <2>2. Follows(s[k], s[k + 1]) /\ Size(s[k].of) \in {2, 3}
    BY <2>1, PieceIs DEF Framed
  <2>3. t[1].at = 1 /\ Told(s[k].of.up, t[1].of) = t[1].of.up
    BY <2>1, <2>2 DEF Follows
  <2>4. t[Len(t)].at = Size(t[Len(t)].of)
    BY <2>1 DEF Framed
  <2> QED  BY <1>1, <1>2, <1>3, <1>5, <2>1, <2>3, <2>4 DEF Framed, t
<1> QED  BY <1>4, <1>5

LEMMA GotIs ==
  ASSUME OutputTypes, GotInv, got # <<>>
  PROVE  /\ (Len(got) = 1 \/ Len(got) = 2) /\ got[1].of \in Frames
         /\ Len(got) < Size(got[1].of) /\ Size(got[1].of) \in {2, 3}
<1>1. Len(got) \in Nat \ {0} /\ got \in Seq(PiecesOfAny) /\ 1 \in 1..Len(got)
  BY DEF OutputTypes
<1>2. got[1].of \in Frames /\ Size(got[1].of) \in {2, 3}
  BY <1>1, PieceIs
<1>3. Len(got) < Size(got[1].of)
  BY DEF GotInv
<1>4. Len(got) = 1 \/ Len(got) = 2
  <2>1. Len(got) \in Nat \ {0}
    BY <1>1
  <2>2. Size(got[1].of) = 2 \/ Size(got[1].of) = 3
    BY <1>2
  <2>3. \A k \in Nat \ {0}, m \in {2, 3} : k < m => k = 1 \/ k = 2
    OBVIOUS
  <2> QED  BY <1>2, <1>3, <2>1, <2>3
<1> QED  BY <1>2, <1>3, <1>4

LEMMA PendingIs ==
  ASSUME OutputTypes
  PROVE  /\ Unfinished \in Seq(PiecesOfAny) /\ wire \o rest \in Seq(PiecesOfAny)
         /\ Pending \in Seq(PiecesOfAny)
         /\ Pending = Unfinished \o (wire \o rest)
<1>1. Unfinished \in Seq(PiecesOfAny) /\ wire \in Seq(PiecesOfAny) /\ rest \in Seq(PiecesOfAny)
  <2>1. <<>> \in Seq(PiecesOfAny)
    OBVIOUS
  <2> QED  BY <2>1 DEF OutputTypes, Unfinished
<1>2. Pending = Unfinished \o (wire \o rest)
  BY <1>1, Regrouped DEF Pending
<1>3. wire \o rest \in Seq(PiecesOfAny)
  BY <1>1, Joined
<1> QED  BY <1>1, <1>2, <1>3, Joined

LEMMA OneRead ==
  ASSUME OutputTypes, GotInv, StreamInv, Reading, NEW n \in 1..Len(wire), n <= StillWanted
  PROVE  LET pieces == got \o SubSeq(wire, 1, n)
             f == pieces[1].of
             behind == SubSeq(wire, n + 1, Len(wire))
         IN /\ pieces \in Seq(PiecesOfAny) /\ behind \in Seq(PiecesOfAny) /\ f \in Frames
            /\ Len(pieces) = Len(got) + n
            /\ \A i \in 1..Len(pieces) : pieces[i] = [of |-> f, at |-> i]
            /\ Len(pieces) \in 1..Size(f) /\ Size(f) \in {2, 3}
            /\ WholeFrame(pieces) <=> Len(pieces) = Size(f)
            /\ pieces \o (behind \o rest) = Pending
            /\ Len(pieces) \in 1..Len(Pending) /\ Pending[Len(pieces)] = pieces[Len(pieces)]
            /\ Pending # <<>> /\ Pending[1].of = f
            /\ behind \o rest = SubSeq(Pending, Len(pieces) + 1, Len(Pending))
<1> DEFINE pieces == got \o SubSeq(wire, 1, n)
           f == pieces[1].of
           behind == SubSeq(wire, n + 1, Len(wire))
           first == SubSeq(wire, 1, n)
<1>1. /\ got \in Seq(PiecesOfAny) /\ wire \in Seq(PiecesOfAny) /\ rest \in Seq(PiecesOfAny)
      /\ Len(got) \in Nat /\ n \in Nat /\ n > 0 /\ n \in 0..Len(wire)
      /\ phase # "Over" /\ Unfinished = got
  BY DEF OutputTypes, Reading, Unfinished
<1>2. /\ first \in Seq(PiecesOfAny) /\ Len(first) = n
      /\ behind \in Seq(PiecesOfAny) /\ first \o behind = wire
  BY <1>1, Cut
<1> HIDE DEF first, behind
<1>3. pieces \in Seq(PiecesOfAny) /\ Len(pieces) = Len(got) + n
  <2>1. got \o first \in Seq(PiecesOfAny) /\ Len(got \o first) = Len(got) + Len(first)
    BY <1>1, <1>2, Joined
  <2> QED  BY <1>2, <2>1 DEF first
<1> HIDE DEF pieces
<1>4. pieces \o (behind \o rest) = Pending
  <2>1. Pending = got \o (wire \o rest)
    BY <1>1, PendingIs
  <2>2. wire \o rest = first \o (behind \o rest) /\ behind \o rest \in Seq(PiecesOfAny)
    <3>1. (first \o behind) \o rest = first \o (behind \o rest)
      <4>1. first \in Seq(PiecesOfAny) /\ behind \in Seq(PiecesOfAny) /\ rest \in Seq(PiecesOfAny)
        BY <1>1, <1>2
      <4> QED  BY <4>1, Regrouped
    <3>2. behind \o rest \in Seq(PiecesOfAny)
      BY <1>1, <1>2, Joined
    <3> QED  BY <1>2, <3>1, <3>2
  <2>3. got \o (first \o (behind \o rest)) = (got \o first) \o (behind \o rest)
    <3>1. /\ first \in Seq(PiecesOfAny) /\ behind \o rest \in Seq(PiecesOfAny)
          /\ got \in Seq(PiecesOfAny)
      BY <1>1, <1>2, <2>2
    <3> QED  BY <3>1, Regrouped
  <2> QED  BY <2>1, <2>2, <2>3 DEF pieces, first
<1>5. /\ behind \o rest \in Seq(PiecesOfAny)
      /\ Pending \in Seq(PiecesOfAny)
      /\ Len(Pending) = Len(pieces) + Len(behind \o rest)
      /\ \A i \in 1..Len(pieces) : Pending[i] = pieces[i]
      /\ \A j \in 1..Len(behind \o rest) : Pending[Len(pieces) + j] = (behind \o rest)[j]
  <2>1. behind \o rest \in Seq(PiecesOfAny)
    BY <1>1, <1>2, Joined
  <2>2. pieces \o (behind \o rest) \in Seq(PiecesOfAny)
        /\ Len(pieces \o (behind \o rest)) = Len(pieces) + Len(behind \o rest)
        /\ \A i \in 1..Len(pieces) : (pieces \o (behind \o rest))[i] = pieces[i]
        /\ \A j \in 1..Len(behind \o rest) :
             (pieces \o (behind \o rest))[Len(pieces) + j] = (behind \o rest)[j]
    BY <2>1, <1>3, Joined
  <2> DEFINE all == pieces \o (behind \o rest)
  <2>3. all = Pending
    BY <1>4
  <2>4. /\ all \in Seq(PiecesOfAny) /\ Len(all) = Len(pieces) + Len(behind \o rest)
        /\ \A i \in 1..Len(pieces) : all[i] = pieces[i]
        /\ \A j \in 1..Len(behind \o rest) : all[Len(pieces) + j] = (behind \o rest)[j]
    BY <2>2
  <2> HIDE DEF all
  <2> QED  BY <2>1, <2>3, <2>4
<1>6. /\ Len(pieces) \in Nat /\ Len(pieces) > 0 /\ Len(Pending) \in Nat
      /\ Len(behind \o rest) \in Nat /\ Len(pieces) \in 1..Len(Pending)
  BY <1>1, <1>3, <1>5
<1>7. /\ f \in Frames /\ Size(f) \in {2, 3} /\ pieces[1] = Pending[1]
      /\ pieces[1].at = 1 /\ pieces[1] = [of |-> f, at |-> 1]
  <2>1. 1 \in 1..Len(pieces) /\ Pending # <<>>
    BY <1>5, <1>6
  <2>2. pieces[1] \in PiecesOfAny /\ f \in Frames /\ Size(f) \in {2, 3}
    BY <1>3, <2>1, PieceIs
  <2>3. pieces[1] = Pending[1] /\ pieces[1].at = 1
    BY <1>1, <1>5, <2>1 DEF StreamInv, Framed
  <2> QED  BY <2>2, <2>3 DEF PiecesOfAny
<1>8. ASSUME NEW i \in 1..Len(pieces) - 1, pieces[i] = [of |-> f, at |-> i], i < Size(f)
      PROVE  pieces[i + 1] = [of |-> f, at |-> i + 1]
  <2>1. i \in 1..Len(Pending) - 1 /\ i \in 1..Len(pieces) /\ i + 1 \in 1..Len(pieces)
    BY <1>6
  <2>2. Follows(Pending[i], Pending[i + 1])
    BY <1>1, <2>1 DEF StreamInv, Framed
  <2>3. Follows(pieces[i], pieces[i + 1])
    BY <2>1, <2>2, <1>5
  <2> QED  BY <1>8, <2>3 DEF Follows
<1>9. Len(pieces) <= Size(f)
  <2>1. CASE got = <<>>
    <3>1. n <= 2
      BY <2>1 DEF StillWanted, Header
    <3> QED  BY <1>1, <1>3, <1>7, <2>1, <3>1
  <2>2. CASE got # <<>>
    <3>1. /\ (Len(got) = 1 \/ Len(got) = 2) /\ got[1].of \in Frames
          /\ Len(got) < Size(got[1].of)
          /\ Size(got[1].of) \in {2, 3}
      BY <2>2, GotIs
    <3>2. f = got[1].of
        <4>1. 1 \in 1..Len(got) /\ (got \o first)[1] = got[1]
        BY <1>1, <1>2, <3>1, Joined
      <4> QED  BY <4>1 DEF pieces, first
    <3>3. Len(Pieces(f)) = Size(f)
      BY <1>7, PiecesAre
    <3>4. n <= IF Len(got) < 2 THEN 2 - Len(got) ELSE Size(f) - Len(got)
      BY <3>2, <3>3 DEF StillWanted, Header
    <3> QED  BY <1>1, <1>3, <1>7, <3>1, <3>4
  <2> QED  BY <2>1, <2>2
<1>10. ASSUME NEW i \in 1..Len(pieces) PROVE pieces[i] = [of |-> f, at |-> i]
  <2>1. 1 \in 1..Len(pieces) /\ (Len(pieces) = 1 \/ Len(pieces) = 2 \/ Len(pieces) = 3)
    <3>1. Size(f) = 2 \/ Size(f) = 3
      BY <1>7
    <3>2. Len(pieces) \in Nat /\ Len(pieces) > 0
      BY <1>6
    <3>3. Len(pieces) <= 3
      BY <1>9, <3>1
    <3>4. Len(pieces) = 1 \/ Len(pieces) = 2 \/ Len(pieces) = 3
      BY <3>2, <3>3, UpToThree
    <3> QED  BY <3>2, <3>4
  <2>2. Len(pieces) > 1 => pieces[2] = [of |-> f, at |-> 2]
    BY <1>7, <1>8, <2>1
  <2>3. Len(pieces) > 2 => pieces[3] = [of |-> f, at |-> 3]
    BY <1>7, <1>8, <1>9, <2>1, <2>2
  <2> QED  BY <1>7, <2>1, <2>2, <2>3
<1>11. WholeFrame(pieces) <=> Len(pieces) = Size(f)
  <2>1. Len(Pieces(pieces[1].of)) = Size(f)
    BY <1>7, PiecesAre
  <2> QED  BY <1>3, <1>6, <1>7, <2>1 DEF WholeFrame, Header
<1>12. behind \o rest = SubSeq(Pending, Len(pieces) + 1, Len(Pending))
  <2> DEFINE k == Len(pieces)  t == SubSeq(Pending, k + 1, Len(Pending))  b == behind \o rest
  <2>1. k \in 0..Len(Pending)
    BY <1>6
  <2>2. t \in Seq(PiecesOfAny) /\ Len(t) = Len(Pending) - k
        /\ \A i \in 1..Len(Pending) - k : t[i] = Pending[k + i]
    BY <1>5, <2>1, Cut
  <2>3. b \in Seq(PiecesOfAny) /\ Len(b) = Len(Pending) - k
        /\ \A i \in 1..Len(Pending) - k : b[i] = Pending[k + i]
    BY <1>5, <1>6
  <2> HIDE DEF t, b, k
  <2>4. t = b
    BY <2>2, <2>3, SeqEqual
  <2> QED  BY <2>4 DEF t, b, k
<1>13. /\ Len(pieces) \in 1..Size(f) /\ Pending # <<>> /\ Pending[1].of = f
       /\ Len(pieces) \in 1..Len(Pending) /\ Pending[Len(pieces)] = pieces[Len(pieces)]
  BY <1>5, <1>6, <1>7, <1>9
<1> QED
  BY <1>2, <1>3, <1>4, <1>7, <1>10, <1>11, <1>12, <1>13 DEF pieces, behind

LEMMA FrameIs ==
  ASSUME OutputTypes,
         NEW kind \in {"Beat", "Request", "Response", "HealthCheck", "Empty"},
         NEW pairs \in SUBSET [device : Device, up : BOOLEAN], NEW now \in SUBSET Device
  PROVE  Frame(kind, pairs, now) \in Frames
  BY DEF Frame, Frames, OutputTypes

LEMMA SaysIt ==
  ASSUME OutputTypes, NEW f \in Frames, Says(f), UNCHANGED rest
  PROVE  /\ wire' \in Seq(PiecesOfAny) /\ rest = <<>> /\ phase # "Over"
         /\ wire' \o rest' = (wire \o rest) \o Pieces(f)
<1>1. wire \in Seq(PiecesOfAny) /\ rest \in Seq(PiecesOfAny) /\ Pieces(f) \in Seq(PiecesOfAny)
  BY PiecesAre DEF OutputTypes
<1>2. rest = <<>> /\ rest' = <<>> /\ wire' = wire \o Pieces(f) /\ phase # "Over"
  BY DEF Says, hung
<1>3. wire' \in Seq(PiecesOfAny)
  BY <1>1, <1>2, Joined
<1>4. wire' \o rest' = wire' /\ wire \o rest = wire
  BY <1>1, <1>2, <1>3, Joined
<1> QED  BY <1>2, <1>3, <1>4

LEMMA StopsIn ==
  ASSUME OutputTypes, StopsHalfway
  PROVE  \E f \in Frames :
           /\ wire' \in Seq(PiecesOfAny) /\ rest' \in Seq(PiecesOfAny) /\ rest = <<>>
           /\ wire' \o rest' = (wire \o rest) \o Pieces(f)
           /\ f.kind = "Beat" /\ f.up = devicesUp
<1> DEFINE f == Frame("Beat", {}, devicesUp)  p == Pieces(f)
<1>1. f \in Frames /\ f.kind = "Beat" /\ f.up = devicesUp
  <2>1. devicesUp \in SUBSET Device
    BY DEF OutputTypes
  <2> QED  BY <2>1, FrameIs DEF Frame
<1>2. p \in Seq(PiecesOfAny) /\ Len(p) = 3
  BY <1>1, PiecesAre DEF Size
<1>3. PICK n \in 1..Header : /\ wire' = wire \o SubSeq(p, 1, n)
                             /\ rest' = SubSeq(p, n + 1, Len(p))
  BY DEF StopsHalfway
<1>4. wire \in Seq(PiecesOfAny) /\ rest \in Seq(PiecesOfAny) /\ rest = <<>>
  BY DEF OutputTypes, StopsHalfway, hung
<1> HIDE DEF f, p
<1> DEFINE a == SubSeq(p, 1, n)  b == SubSeq(p, n + 1, Len(p))
<1>5. a \in Seq(PiecesOfAny) /\ b \in Seq(PiecesOfAny) /\ a \o b = p
  <2>1. n \in 0..Len(p)
    BY <1>2 DEF Header
  <2> QED  BY <1>2, <2>1, Cut
<1>6. wire' = wire \o a /\ rest' = b
  BY <1>3
<1> HIDE DEF a, b
<1>7. (wire \o a) \o b = wire \o (a \o b) /\ wire \o rest = wire /\ wire \o a \in Seq(PiecesOfAny)
  <2>1. (wire \o a) \o b = wire \o (a \o b)
    BY <1>4, <1>5, Regrouped
  <2> QED  BY <1>4, <1>5, <2>1, Joined
<1>8. wire' \o rest' = (wire \o rest) \o p
  BY <1>5, <1>6, <1>7
<1> QED  BY <1>1, <1>4, <1>5, <1>6, <1>7, <1>8 DEF p

LEMMA GoesOnIs ==
  ASSUME OutputTypes, GoesOn
  PROVE  /\ wire' \in Seq(PiecesOfAny) /\ rest' \in Seq(PiecesOfAny) /\ rest # <<>>
         /\ wire' \o rest' = wire \o rest
<1>1. PICK n \in 1..Len(rest) : /\ wire' = wire \o SubSeq(rest, 1, n)
                                /\ rest' = SubSeq(rest, n + 1, Len(rest))
  BY DEF GoesOn
<1>2. wire \in Seq(PiecesOfAny) /\ rest \in Seq(PiecesOfAny) /\ rest # <<>>
  BY DEF OutputTypes, GoesOn, hung
<1> DEFINE a == SubSeq(rest, 1, n)  b == SubSeq(rest, n + 1, Len(rest))
<1>3. a \in Seq(PiecesOfAny) /\ b \in Seq(PiecesOfAny) /\ a \o b = rest
  <2>1. n \in 0..Len(rest)
    BY <1>2
  <2> QED  BY <1>2, <2>1, Cut
<1>4. wire' = wire \o a /\ rest' = b
  BY <1>1
<1> HIDE DEF a, b
<1>5. (wire \o a) \o b = wire \o (a \o b)
  BY <1>2, <1>3, Regrouped
<1>6. wire \o a \in Seq(PiecesOfAny)
  BY <1>2, <1>3, Joined
<1> QED  BY <1>2, <1>3, <1>4, <1>5, <1>6

LEMMA ToldIs ==
  ASSUME NEW s \in SUBSET Device, NEW f \in Frames
  PROVE  /\ Told(s, f) \in SUBSET Device
         /\ f.kind \notin {"Request", "Response"} => Told(s, f) = s
  BY DEF Told

LEMMA LoopLeaves ==
  ASSUME Loop \/ PostAReport \/ Tick
  PROVE  UNCHANGED <<rest, devicesUp, said>>
  BY DEF Loop, ReachTheOutput, Turn, ReadSome, AnswerIt, ReadNothing, ReadGone, PostAReport,
         Tick, service

LEMMA GoesRoundIs ==
  ASSUME OutputTypes, OutputAssumption, phase \in {"Wait", "Read"},
         NEW s \in SUBSET Device, GoesRound(s)
  PROVE  /\ phase' \in {"Wait", "Serve", "Turn", "Over"}
         /\ status' \in SUBSET Device
         /\ got' \in Seq(PiecesOfAny)
         /\ bound' \in Nat /\ left' \in 0..bound'
         /\ beaten' \in Nat /\ since' \in Nat
         /\ phase' # "Over" => got' = <<>>
         /\ phase' = "Wait" => phase = "Wait" /\ status' = s
<1>1. CASE phase = "Wait" /\ Ready(s) /\ waited < Wait
  <2>1. beaten' \in Nat
    BY <1>1 DEF OutputTypes, OutputAssumption, GoesRound, WaitGoesRound
  <2>2. /\ phase' \in {"Serve", "Over"} /\ status' = {} /\ got' = <<>>
        /\ bound' = bound /\ left' = left /\ since' \in {0, since}
    BY <1>1 DEF OutputTypes, OutputAssumption, GoesRound, WaitGoesRound
  <2> QED  BY <2>1, <2>2, NoneYet DEF OutputTypes
<1>2. CASE phase = "Wait" /\ waited >= Wait
  BY <1>2 DEF OutputTypes, OutputAssumption, GoesRound, WaitGoesRound
<1>3. CASE phase = "Wait" /\ ~Ready(s) /\ waited < Wait
  <2>1. beaten' \in Nat
    BY <1>3 DEF OutputTypes, OutputAssumption, GoesRound, WaitGoesRound
  <2>2. bound' = Shortest /\ left' = Shortest /\ 0 <= Shortest /\ Shortest \in Nat
    BY <1>3 DEF OutputTypes, OutputAssumption, GoesRound, WaitGoesRound, StartAFill
  <2>3. phase' = "Wait" /\ status' = s /\ got' = <<>> /\ since' = since
    BY <1>3 DEF OutputTypes, OutputAssumption, GoesRound, WaitGoesRound, StartAFill
  <2> QED  BY <1>3, <2>1, <2>2, <2>3, NoneYet DEF OutputTypes
<1>4. CASE phase # "Wait"
  BY <1>4, NoneYet DEF OutputTypes, GoesRound, ServeGoesRound
<1>5. waited >= Wait \/ waited < Wait
  BY DEF OutputTypes, OutputAssumption
<1> QED  BY <1>1, <1>2, <1>3, <1>4, <1>5

LEMMA ServiceLeaves ==
  ASSUME Service
  PROVE  UNCHANGED <<phase, status, got, bound, left, read, owed, waited, beaten, since, heard, torn>>
<1>1. CASE SaysHowItIs
  BY <1>1 DEF SaysHowItIs, clocks
<1>2. CASE SaysSomethingElse
  BY <1>2 DEF SaysSomethingElse, clocks
<1>3. CASE BeatsAtTheRun
  BY <1>3 DEF BeatsAtTheRun
<1>4. CASE StopsHalfway
  BY <1>4 DEF StopsHalfway, clocks
<1>5. CASE GoesOn
  BY <1>5 DEF GoesOn, clocks
<1>6. CASE Closes
  BY <1>6 DEF Closes, clocks
<1> QED  BY <1>1, <1>2, <1>3, <1>4, <1>5, <1>6 DEF Service

LEMMA SomeRoom ==
  ASSUME OutputAssumption, OutputTypes, MaySay
  PROVE  said + 1 \in 0..Sayings
  BY DEF MaySay, OutputTypes, OutputAssumption

LEMMA OutputTypesStep ==
  ASSUME OutputAssumption, OutputTypes, StreamInv, GotInv, PhaseInv, [OutputNext]_outputVars
  PROVE  OutputTypes'
<1>1. CASE Service
  <2>1. UNCHANGED <<phase, status, got, bound, left, read, owed, waited, beaten, since, heard, torn>>
    BY <1>1, ServiceLeaves
  <2>2. /\ devicesUp' \subseteq Device /\ said' \in 0..Sayings
        /\ beat' \in Nat /\ open' \in BOOLEAN /\ paused' \in BOOLEAN
    <3>1. CASE SaysHowItIs
      BY <3>1, SomeRoom DEF SaysHowItIs, clocks, OutputTypes
    <3>2. CASE SaysSomethingElse
      BY <3>2, SomeRoom DEF SaysSomethingElse, clocks, OutputTypes
    <3>3. CASE BeatsAtTheRun
      BY <3>3 DEF BeatsAtTheRun, service, OutputTypes
    <3>4. CASE StopsHalfway
      BY <3>4, SomeRoom DEF StopsHalfway, clocks, OutputTypes
    <3>5. CASE GoesOn
      BY <3>5 DEF GoesOn, clocks, OutputTypes
    <3>6. CASE Closes
      BY <3>6 DEF Closes, clocks, service, OutputTypes
    <3> QED  BY <1>1, <3>1, <3>2, <3>3, <3>4, <3>5, <3>6 DEF Service
  <2>3. wire' \in Seq(PiecesOfAny) /\ rest' \in Seq(PiecesOfAny)
    <3>1. CASE SaysHowItIs
      <4>1. PICK now \in SUBSET Device, kind \in {"Request", "Response"}, told \in SUBSET Device :
              Says(Frame(kind, {[device |-> d, up |-> d \in now] : d \in told}, now))
        BY <3>1 DEF SaysHowItIs
      <4>2. {[device |-> d, up |-> d \in now] : d \in told} \in SUBSET [device : Device, up : BOOLEAN]
        BY \A d \in told : [device |-> d, up |-> d \in now] \in [device : Device, up : BOOLEAN]
      <4>3. Frame(kind, {[device |-> d, up |-> d \in now] : d \in told}, now) \in Frames
        BY <4>2, FrameIs
      <4> QED  BY <3>1, <4>1, <4>3, SaysIt DEF SaysHowItIs, OutputTypes
    <3>2. CASE SaysSomethingElse
      <4>1. PICK kind \in {"HealthCheck", "Empty"} : Says(Frame(kind, {}, devicesUp))
        BY <3>2 DEF SaysSomethingElse
      <4>2. Frame(kind, {}, devicesUp) \in Frames
        BY FrameIs DEF OutputTypes
      <4> QED  BY <3>2, <4>1, <4>2, SaysIt DEF SaysSomethingElse, OutputTypes
    <3>3. CASE BeatsAtTheRun
      <4>1. Says(Frame("Beat", {}, devicesUp)) /\ rest' = rest
        BY <3>3 DEF BeatsAtTheRun, service
      <4>2. Frame("Beat", {}, devicesUp) \in Frames
        BY FrameIs DEF OutputTypes
      <4> QED  BY <4>1, <4>2, SaysIt DEF OutputTypes
    <3>4. CASE StopsHalfway
      BY <3>4, StopsIn
    <3>5. CASE GoesOn
      BY <3>5, GoesOnIs
    <3>6. CASE Closes
      BY <3>6 DEF Closes, service, OutputTypes
    <3> QED  BY <1>1, <3>1, <3>2, <3>3, <3>4, <3>5, <3>6 DEF Service
  <2> QED  BY <2>1, <2>2, <2>3 DEF OutputTypes
<1>2. CASE ReachTheOutput
  <2>1. UNCHANGED <<status, got, read, owed, wire, paused, rest, devicesUp, said, since, torn>>
        /\ phase' \in {"Wait", "Over"} /\ open' \in BOOLEAN
    BY <1>2 DEF OutputTypes, ReachTheOutput, service
  <2>2. bound' \in Nat /\ left' \in 0..bound' /\ heard' \in Nat /\ beat' \in Nat
        /\ waited' \in Nat /\ beaten' \in Nat
    BY <1>2 DEF OutputTypes, ReachTheOutput, OutputAssumption
  <2> QED  BY <2>1, <2>2 DEF OutputTypes
<1>3. CASE Turn
  <2>1. /\ UNCHANGED <<status, read, owed, wire, open, rest, devicesUp, said, waited, beaten, beat, torn>>
        /\ phase' \in {"Read", "Over"}
        /\ got' \in Seq(PiecesOfAny)
    BY <1>3, NoneYet DEF OutputTypes, Turn, service, StartAFill
  <2>3. since' \in Nat /\ paused' \in BOOLEAN /\ heard' \in Nat
    <3>1. CASE UNCHANGED <<since, paused, heard>>
      BY <3>1 DEF OutputTypes
    <3>2. CASE since' = 0 /\ paused' = hung /\ Hears
      <4>1. paused' \in BOOLEAN
        BY <3>2 DEF hung
      <4>2. heard' \in Nat
        BY <3>2 DEF OutputTypes, Hears
      <4> QED  BY <3>2, <4>1, <4>2
    <3> QED  BY <1>3, <3>1, <3>2 DEF Turn, BeatIfItIsDue
  <2>2. bound' \in Nat /\ left' \in 0..bound'
    BY <1>3 DEF OutputTypes, Turn, LeftOf, StartAFill, OutputAssumption
  <2> QED  BY <2>1, <2>2, <2>3 DEF OutputTypes
<1>4. CASE ReadSome
  <2>1. PICK n \in 1..Len(wire) :
          LET pieces == got \o SubSeq(wire, 1, n)
              f == pieces[1].of
          IN /\ n <= StillWanted
             /\ wire' = SubSeq(wire, n + 1, Len(wire))
             /\ IF ~WholeFrame(pieces)
                THEN /\ got' = pieces /\ left' = bound
                     /\ UNCHANGED <<phase, status, bound, read, owed, beaten, since>>
                ELSE /\ read' = f
                     /\ IF AsksAnAnswer(f)
                        THEN /\ owed' = <<f>>
                             /\ status' = Told(status, f)
                             /\ UNCHANGED <<phase, got, bound, left, beaten, since>>
                        ELSE GoesRound(Told(status, f)) /\ UNCHANGED owed
    BY <1>4 DEF ReadSome
  <2> DEFINE pieces == got \o SubSeq(wire, 1, n)  f == pieces[1].of
  <2>2. Reading /\ phase \in {"Wait", "Read"}
        /\ UNCHANGED <<open, paused, rest, devicesUp, said, waited, heard, beat, torn>>
    BY <1>4 DEF ReadSome, Reading, service
  <2>3. /\ pieces \in Seq(PiecesOfAny) /\ f \in Frames
        /\ SubSeq(wire, n + 1, Len(wire)) \in Seq(PiecesOfAny)
    BY <2>1, <2>2, OneRead
  <2>4. status \in SUBSET Device /\ Told(status, f) \in SUBSET Device
    BY <2>3, ToldIs DEF OutputTypes
  <2>5. wire' \in Seq(PiecesOfAny)
    BY <2>1, <2>3
  <2> HIDE DEF pieces, f
  <2>6. CASE ~WholeFrame(pieces)
    <3>1. got' = pieces /\ left' = bound /\ UNCHANGED <<phase, status, bound, read, owed, beaten, since>>
      BY <2>1, <2>6 DEF pieces
    <3> QED  BY <2>2, <2>3, <2>5, <3>1 DEF OutputTypes
  <2>7. CASE WholeFrame(pieces) /\ AsksAnAnswer(f)
    <3>1. /\ read' = f /\ owed' = <<f>> /\ status' = Told(status, f)
          /\ UNCHANGED <<phase, got, bound, left, beaten, since>>
      BY <2>1, <2>7 DEF pieces, f
    <3> QED  BY <2>2, <2>3, <2>4, <2>5, <3>1 DEF OutputTypes
  <2>8. CASE WholeFrame(pieces) /\ ~AsksAnAnswer(f)
    <3>1. read' = f /\ UNCHANGED owed /\ GoesRound(Told(status, f))
      BY <2>1, <2>8 DEF pieces, f
    <3>2. /\ phase' \in {"Wait", "Serve", "Turn", "Over"} /\ status' \in SUBSET Device
          /\ got' \in Seq(PiecesOfAny)
          /\ bound' \in Nat /\ left' \in 0..bound' /\ beaten' \in Nat /\ since' \in Nat
      BY <2>2, <2>4, <3>1, GoesRoundIs
    <3> QED  BY <2>2, <2>3, <2>5, <3>1, <3>2 DEF OutputTypes
  <2> QED  BY <2>6, <2>7, <2>8
<1>5. CASE AnswerIt
  <2>1. owed' = <<>> /\ UNCHANGED <<read, wire, open, paused, rest, devicesUp, said, waited, beat, torn>>
        /\ heard' \in Nat
    BY <1>5 DEF AnswerIt, OutputTypes, service, Hears
  <2>2. CASE GoesRound(status)
    <3>1. phase \in {"Wait", "Read"} /\ status \in SUBSET Device
      BY <1>5 DEF AnswerIt, OutputTypes, PhaseInv
    <3>2. /\ phase' \in {"Wait", "Serve", "Turn", "Over"} /\ status' \in SUBSET Device
          /\ got' \in Seq(PiecesOfAny)
          /\ bound' \in Nat /\ left' \in 0..bound' /\ beaten' \in Nat /\ since' \in Nat
      BY <2>2, <3>1, GoesRoundIs
    <3> QED  BY <2>1, <3>2 DEF OutputTypes
  <2>3. CASE phase' = "Over" /\ UNCHANGED <<status, got, bound, left, beaten, since, heard>>
    BY <2>1, <2>3 DEF OutputTypes
  <2> QED  BY <1>5, <2>2, <2>3 DEF AnswerIt
<1>6. CASE ReadNothing
  <2>1. /\ read' = NoFrame
        /\ UNCHANGED <<owed, wire, open, paused, rest, devicesUp, said, waited, heard, beat, torn>>
        /\ phase \in {"Wait", "Read"} /\ status \in SUBSET Device
    BY <1>6 DEF ReadNothing, Reading, OutputTypes, service
  <2>2. CASE GoesRound(status)
    <3>1. /\ phase' \in {"Wait", "Serve", "Turn", "Over"} /\ status' \in SUBSET Device
          /\ got' \in Seq(PiecesOfAny)
          /\ bound' \in Nat /\ left' \in 0..bound' /\ beaten' \in Nat /\ since' \in Nat
      BY <2>1, <2>2, GoesRoundIs
    <3> QED  BY <2>1, <3>1 DEF OutputTypes
  <2>3. CASE phase' = "Over" /\ UNCHANGED <<status, got, bound, left, beaten, since>>
    BY <2>1, <2>3 DEF OutputTypes
  <2> QED  BY <1>6, <2>2, <2>3 DEF ReadNothing
<1>7. CASE ReadGone
  BY <1>7 DEF OutputTypes, ReadGone, service, clocks
<1>8. CASE PostAReport
  <2>1. UNCHANGED <<phase, status, got, bound, left, read, owed, wire, open, paused, rest, devicesUp,
                    said, waited, beaten, since, beat>>
    BY <1>8 DEF PostAReport, service
  <2>2. heard' \in Nat
    BY <1>8 DEF OutputTypes, PostAReport, Hears
  <2>3. torn' \in BOOLEAN
    BY <1>8 DEF OutputTypes, PostAReport
  <2> QED  BY <2>1, <2>2, <2>3 DEF OutputTypes
<1>9. CASE Tick
  BY <1>9 DEF OutputTypes, Tick, service
<1>10. CASE UNCHANGED outputVars
  BY <1>10 DEF OutputTypes, outputVars, service, clocks
<1> QED  BY <1>1, <1>2, <1>3, <1>4, <1>5, <1>6, <1>7, <1>8, <1>9, <1>10 DEF OutputNext, Loop

LEMMA PhaseStep ==
  ASSUME OutputAssumption, OutputTypes, PhaseInv, [OutputNext]_outputVars
  PROVE  PhaseInv'
<1>1. CASE Service
  <2>1. UNCHANGED <<phase, status, got, bound, left, read, owed, waited, beaten, since, heard, torn>>
    BY <1>1, ServiceLeaves
  <2>2. open /\ phase # "Over"
    BY <1>1 DEF Service, SaysHowItIs, SaysSomethingElse, BeatsAtTheRun, StopsHalfway, GoesOn,
                Closes, Says
  <2>3. phase # "Reach"
    BY <2>2 DEF PhaseInv
  <2>4. rest' # <<>> => paused'
    <3>1. CASE SaysHowItIs \/ SaysSomethingElse \/ BeatsAtTheRun \/ Closes
      <4>1. rest' = rest /\ paused' = paused
        BY <3>1 DEF SaysHowItIs, SaysSomethingElse, BeatsAtTheRun, Closes, service
      <4> QED  BY <2>2, <4>1 DEF PhaseInv, hung
    <3>2. CASE StopsHalfway
      BY <3>2 DEF StopsHalfway
    <3>3. CASE GoesOn
      BY <2>2, <3>3 DEF GoesOn, PhaseInv
    <3> QED  BY <1>1, <3>1, <3>2, <3>3 DEF Service
  <2> QED  BY <2>1, <2>3, <2>4 DEF PhaseInv, hung
<1>2. CASE ReachTheOutput
  <2>1. phase = "Reach" /\ phase' \in {"Wait", "Over"} /\ UNCHANGED <<owed, rest, torn>>
    BY <1>2 DEF ReachTheOutput, service
  <2> QED  BY <2>1 DEF PhaseInv, hung
<1>3. CASE Turn
  <2>1. /\ phase \in {"Serve", "Turn"} /\ phase' \in {"Read", "Over"} /\ UNCHANGED <<owed, rest, torn>>
        /\ (paused' <=> hung) \/ paused' = paused
    BY <1>3 DEF Turn, service, BeatIfItIsDue
  <2> QED  BY <2>1 DEF PhaseInv, hung
<1>4. CASE ReadSome
  <2>1. /\ phase \in {"Wait", "Read"} /\ owed = <<>>
        /\ UNCHANGED <<rest, paused, torn>>
    BY <1>4 DEF ReadSome, Reading, service
  <2>2. CASE phase' = phase
    BY <2>1, <2>2 DEF PhaseInv, hung
  <2>3. CASE phase' # phase
    <3>1. /\ \E f : GoesRound(Told(status, f))
          /\ owed' = owed
      BY <1>4, <2>3 DEF ReadSome
    <3>2. phase' \in {"Wait", "Serve", "Turn", "Over"} /\ (phase' = "Wait" => phase = "Wait")
          /\ (phase' # "Over" => got' = <<>>)
      BY <2>1, <3>1 DEF GoesRound, WaitGoesRound, ServeGoesRound, StartAFill
    <3> QED  BY <2>1, <3>1, <3>2 DEF PhaseInv, hung
  <2> QED  BY <2>2, <2>3
<1>5. CASE AnswerIt
  <2>1. /\ phase \in {"Wait", "Read"} /\ owed' = <<>> /\ UNCHANGED <<rest, paused, torn>>
    BY <1>5 DEF AnswerIt, service, PhaseInv
  <2>2. phase' = "Over" \/ GoesRound(status)
    BY <1>5 DEF AnswerIt
  <2>3. phase' \in {"Wait", "Serve", "Turn", "Over"} /\ (phase' = "Wait" => phase = "Wait")
        /\ (phase' # "Over" => got' = <<>>)
    BY <2>1, <2>2 DEF GoesRound, WaitGoesRound, ServeGoesRound, StartAFill
  <2> QED  BY <2>1, <2>3 DEF PhaseInv, hung
<1>6. CASE ReadNothing
  <2>1. /\ phase \in {"Wait", "Read"} /\ owed = <<>> /\ UNCHANGED <<owed, rest, paused, torn>>
    BY <1>6 DEF ReadNothing, Reading, service
  <2>2. phase' = "Over" \/ GoesRound(status)
    BY <1>6 DEF ReadNothing
  <2>3. phase' \in {"Wait", "Serve", "Turn", "Over"} /\ (phase' = "Wait" => phase = "Wait")
        /\ (phase' # "Over" => got' = <<>>)
    BY <2>1, <2>2 DEF GoesRound, WaitGoesRound, ServeGoesRound, StartAFill
  <2> QED  BY <2>1, <2>3 DEF PhaseInv, hung
<1>7. CASE ReadGone
  BY <1>7 DEF PhaseInv, ReadGone, Reading, service, hung
<1>8. CASE PostAReport
  <2>1. phase \in {"Serve", "Turn", "Read"} /\ UNCHANGED <<phase, got, owed, rest, paused>>
    BY <1>8 DEF PostAReport, Serving, service
  <2> QED  BY <2>1 DEF PhaseInv, hung
<1>9. CASE Tick
  <2>1. phase \in {"Wait", "Read"} /\ UNCHANGED <<phase, got, owed, rest, paused, torn>>
    BY <1>9 DEF Tick, Reading, service
  <2> QED  BY <2>1 DEF PhaseInv, hung
<1>10. CASE UNCHANGED outputVars
  BY <1>10 DEF PhaseInv, hung, outputVars, service, clocks
<1> QED  BY <1>1, <1>2, <1>3, <1>4, <1>5, <1>6, <1>7, <1>8, <1>9, <1>10 DEF OutputNext, Loop

(* One read, as ReadSome takes it.                                         *)
LEMMA ReadSomeIs ==
  ASSUME OutputTypes, GotInv, StreamInv, ReadSome
  PROVE  \E k \in 1..3, f \in Frames :
           /\ Len(got) < k /\ k <= Size(f) /\ k <= Len(Pending) /\ Size(f) \in {2, 3}
           /\ Pending # <<>> /\ Pending[1].of = f /\ Pending[k] = [of |-> f, at |-> k]
           /\ \/ /\ k < Size(f)
                 /\ Len(got') = k /\ \A i \in 1..k : got'[i] = [of |-> f, at |-> i]
                 /\ left' = bound /\ UNCHANGED <<phase, status, bound, read, owed, beaten, since>>
                 /\ got' \o (wire' \o rest') = Pending
              \/ /\ k = Size(f)
                 /\ read' = f
                 /\ wire' \o rest' = SubSeq(Pending, k + 1, Len(Pending))
                 /\ \/ /\ AsksAnAnswer(f) /\ owed' = <<f>> /\ status' = Told(status, f)
                       /\ UNCHANGED <<phase, got, bound, left, beaten, since>>
                    \/ /\ ~AsksAnAnswer(f) /\ UNCHANGED owed /\ GoesRound(Told(status, f))
<1>1. PICK n \in 1..Len(wire) :
        LET pieces == got \o SubSeq(wire, 1, n)
            f == pieces[1].of
        IN /\ n <= StillWanted
           /\ wire' = SubSeq(wire, n + 1, Len(wire))
           /\ IF ~WholeFrame(pieces)
              THEN /\ got' = pieces /\ left' = bound
                   /\ UNCHANGED <<phase, status, bound, read, owed, beaten, since>>
              ELSE /\ read' = f
                   /\ IF AsksAnAnswer(f)
                      THEN /\ owed' = <<f>>
                           /\ status' = Told(status, f)
                           /\ UNCHANGED <<phase, got, bound, left, beaten, since>>
                      ELSE GoesRound(Told(status, f)) /\ UNCHANGED owed
  BY DEF ReadSome
<1>2. Reading /\ rest' = rest
  BY DEF ReadSome, service
<1> DEFINE pieces == got \o SubSeq(wire, 1, n)
           f == pieces[1].of
           behind == SubSeq(wire, n + 1, Len(wire))
           k == Len(pieces)
<1>3. /\ pieces \in Seq(PiecesOfAny) /\ f \in Frames
      /\ k = Len(got) + n
      /\ \A i \in 1..k : pieces[i] = [of |-> f, at |-> i]
      /\ k \in 1..Size(f) /\ Size(f) \in {2, 3}
      /\ WholeFrame(pieces) <=> k = Size(f)
      /\ pieces \o (behind \o rest) = Pending
      /\ k \in 1..Len(Pending) /\ Pending[k] = pieces[k]
      /\ Pending # <<>> /\ Pending[1].of = f
      /\ behind \o rest = SubSeq(Pending, k + 1, Len(Pending))
  BY <1>1, <1>2, OneRead
<1>4. /\ n <= StillWanted /\ wire' = behind
      /\ ~WholeFrame(pieces) =>
           /\ got' = pieces /\ left' = bound
           /\ UNCHANGED <<phase, status, bound, read, owed, beaten, since>>
      /\ WholeFrame(pieces) => read' = f
      /\ WholeFrame(pieces) /\ AsksAnAnswer(f) =>
           /\ owed' = <<f>> /\ status' = Told(status, f)
           /\ UNCHANGED <<phase, got, bound, left, beaten, since>>
      /\ WholeFrame(pieces) /\ ~AsksAnAnswer(f) => GoesRound(Told(status, f)) /\ UNCHANGED owed
  BY <1>1
<1> HIDE DEF pieces, behind
<1>5. Len(got) \in Nat /\ n \in Nat /\ n > 0 /\ k \in Nat /\ Len(Pending) \in Nat
  <2>1. Len(got) \in Nat /\ Len(wire) \in Nat
    BY DEF OutputTypes
  <2>2. Pending \in Seq(PiecesOfAny)
    BY PendingIs
  <2> HIDE DEF k
  <2>3. k \in Nat /\ Len(Pending) \in Nat /\ n \in Nat /\ n > 0
    BY <1>3, <2>1, <2>2 DEF k
  <2> QED  BY <2>1, <2>3
<1>6. Size(f) = 2 \/ Size(f) = 3
  BY <1>3
<1> DEFINE m == Size(f)
<1> HIDE DEF f, k, m
<1>7. k \in 1..3 /\ Len(got) < k /\ k <= m /\ k <= Len(Pending) /\ (k < m \/ k = m)
  <2>1. k = Len(got) + n /\ k \in 1..m /\ k \in 1..Len(Pending)
    BY <1>3 DEF m, k, f
  <2>2. m = 2 \/ m = 3
    BY <1>6 DEF m
  <2>3. k > 0 /\ k <= m /\ k <= Len(Pending) /\ Len(got) < k
    BY <1>5, <2>1, <2>2
  <2>4. k <= 3
    BY <1>5, <2>2, <2>3
  <2> QED  BY <1>5, <2>2, <2>3, <2>4
<1>8. wire' \o rest' = behind \o rest
  BY <1>2, <1>4
<1>9. k = Len(pieces) /\ Pending[k] = [of |-> f, at |-> k]
  BY <1>3, <1>7 DEF k, m
<1>10. CASE k < m
  <2>1. ~WholeFrame(pieces)
    BY <1>3, <1>5, <1>6, <1>10 DEF m
  <2>2. /\ got' = pieces /\ left' = bound
        /\ UNCHANGED <<phase, status, bound, read, owed, beaten, since>>
        /\ got' \o (wire' \o rest') = Pending
    BY <1>3, <1>4, <1>8, <2>1
  <2> QED  BY <1>3, <1>7, <1>9, <1>10, <2>2 DEF m
<1>11. CASE k = m
  <2>1. WholeFrame(pieces)
    BY <1>3, <1>11 DEF m
  <2>2. wire' \o rest' = SubSeq(Pending, k + 1, Len(Pending)) /\ read' = f
    BY <1>3, <1>4, <1>8, <2>1
  <2> QED  BY <1>3, <1>4, <1>7, <1>9, <1>11, <2>1, <2>2 DEF m
<1> QED  BY <1>7, <1>10, <1>11

LEMMA GotStep ==
  ASSUME OutputAssumption, OutputTypes, GotInv, StreamInv, PhaseInv, [OutputNext]_outputVars
  PROVE  GotInv'
<1>1. CASE got' = got
  BY <1>1 DEF GotInv
<1>2. CASE got' = <<>>
  BY <1>2 DEF GotInv
<1>3. CASE ReadSome
  <2>1. PICK k \in 1..3, f \in Frames :
          \/ /\ k < Size(f)
             /\ Len(got') = k /\ \A i \in 1..k : got'[i] = [of |-> f, at |-> i]
          \/ got' = got
          \/ GoesRound(Told(status, f))
    BY <1>3, ReadSomeIs
  <2>2. CASE k < Size(f) /\ Len(got') = k /\ \A i \in 1..k : got'[i] = [of |-> f, at |-> i]
    <3>1. got'[1].of = f
      BY <2>2
    <3> QED  BY <2>2, <3>1 DEF GotInv
  <2>3. CASE GoesRound(Told(status, f))
    BY <1>1, <1>2, <2>3 DEF GoesRound, WaitGoesRound, ServeGoesRound, StartAFill
  <2> QED  BY <1>1, <2>1, <2>2, <2>3
<1>4. CASE Service
  BY <1>1, <1>4, ServiceLeaves
<1>5. CASE OutputNext /\ ~Service /\ ~ReadSome
  BY <1>1, <1>2, <1>5 DEF OutputNext, Loop, ReachTheOutput, Turn, AnswerIt, ReadNothing, ReadGone,
       PostAReport, Tick, GoesRound, WaitGoesRound, ServeGoesRound, StartAFill
<1>6. CASE UNCHANGED outputVars
  BY <1>1, <1>6 DEF outputVars
<1> QED  BY <1>3, <1>4, <1>5, <1>6

(* What is ahead of this end, when a frame is written whole or in part.    *)
LEMMA SameAhead ==
  ASSUME OutputTypes, OutputTypes', StreamInv, phase' = phase,
         Pending' = Pending, UNCHANGED <<status, read, devicesUp>>
  PROVE  StreamInv'
  BY DEF StreamInv, Framed, EndsAsReady, Continues

LEMMA MoreAhead ==
  ASSUME OutputTypes, OutputTypes', StreamInv, phase # "Over", NEW f \in Frames,
         UNCHANGED <<phase, status, got, read, owed>>,
         wire' \o rest' = (wire \o rest) \o Pieces(f),
         f.up = devicesUp', Told(devicesUp, f) = f.up
  PROVE  StreamInv'
<1>1. /\ Unfinished \in Seq(PiecesOfAny) /\ wire \o rest \in Seq(PiecesOfAny)
      /\ Pending \in Seq(PiecesOfAny) /\ Pending = Unfinished \o (wire \o rest)
  BY PendingIs
<1>2. Pending' = Unfinished' \o (wire' \o rest')
  <2>1. (OutputTypes => Pending = Unfinished \o (wire \o rest))'
    BY PendingIs, PTL
  <2> QED  BY <2>1
<1>3. Pieces(f) \in Seq(PiecesOfAny)
  BY PiecesAre
<1>4. Pending' = Pending \o Pieces(f)
  <2>1. Unfinished \o ((wire \o rest) \o Pieces(f)) = (Unfinished \o (wire \o rest)) \o Pieces(f)
    BY <1>1, <1>3, Regrouped
  <2> QED  BY <1>1, <1>2, <2>1 DEF Unfinished
<1>5. /\ Framed(Pending) /\ EndsAsReady(Pending)
      /\ phase = "Wait" => (read # NoFrame => status = read.up) /\ Continues(status, Pending)
  BY DEF StreamInv
<1>6. Pending # <<>> => Told(Pending[Len(Pending)].of.up, f) = f.up
  BY <1>5 DEF EndsAsReady
<1> DEFINE t == Pending \o Pieces(f)
<1>7. /\ Framed(t) /\ t # <<>> /\ t[Len(t)].of = f
      /\ IF Pending = <<>> THEN t[1].of = f ELSE t[1] = Pending[1]
  BY <1>1, <1>5, <1>6, FramedThen
<1> HIDE DEF t
<1>8. phase = "Wait" => Told(status, t[1].of) = t[1].of.up
  BY <1>5, <1>7 DEF Continues
<1>9. Pending' = t
  BY <1>4 DEF t
<1>10. t[Len(t)].of.up = devicesUp' /\ (phase = "Wait" => Told(status, t[1].of) = t[1].of.up)
  BY <1>7, <1>8
<1> QED  BY <1>5, <1>7, <1>9, <1>10 DEF StreamInv, EndsAsReady, Continues

LEMMA RoundAhead ==
  ASSUME OutputTypes, OutputTypes', phase \in {"Wait", "Read"}, NEW s \in SUBSET Device,
         GoesRound(s), owed' = <<>>, devicesUp' = devicesUp,
         NEW t, t = wire' \o rest', Framed(t), EndsAsReady(t),
         phase = "Wait" => (read' # NoFrame => s = read'.up) /\ Continues(s, t)
  PROVE  StreamInv'
<1>1. phase' # "Over" => got' = <<>>
  BY DEF GoesRound, WaitGoesRound, ServeGoesRound, StartAFill
<1>2. phase' = "Wait" => phase = "Wait" /\ status' = s
  BY DEF GoesRound, WaitGoesRound, ServeGoesRound
<1>3. ASSUME phase' # "Over" PROVE Pending' = t
  <2>1. Unfinished' = <<>>
    BY <1>1, <1>3 DEF Unfinished
  <2>2. (OutputTypes => wire \o rest \in Seq(PiecesOfAny) /\ Pending = Unfinished \o (wire \o rest))'
    BY PendingIs, PTL
  <2>3. t \in Seq(PiecesOfAny) /\ Pending' = <<>> \o t
    BY <2>1, <2>2
  <2> QED  BY <2>3, NoneYet, Joined
<1> QED
  BY <1>2, <1>3 DEF StreamInv, EndsAsReady, Continues

LEMMA StreamStep ==
  ASSUME OutputAssumption, OutputTypes, OutputTypes', GotInv, StreamInv, PhaseInv, [OutputNext]_outputVars
  PROVE  StreamInv'
<1> USE DEF hung
<1>0. devicesUp \in SUBSET Device /\ status \in SUBSET Device
  BY DEF OutputTypes
<1>1. CASE SaysHowItIs
  <2>1. PICK now \in SUBSET Device, kind \in {"Request", "Response"}, told \in SUBSET Device :
          /\ \A d \in Device : (d \in now) # (d \in devicesUp) => d \in told
          /\ Says(Frame(kind, {[device |-> d, up |-> d \in now] : d \in told}, now))
          /\ devicesUp' = now
    BY <1>1 DEF SaysHowItIs
  <2> DEFINE pairs == {[device |-> d, up |-> d \in now] : d \in told}
             f == Frame(kind, pairs, now)
  <2>2. pairs \in SUBSET [device : Device, up : BOOLEAN]
    BY \A d \in told : [device |-> d, up |-> d \in now] \in [device : Device, up : BOOLEAN]
  <2>3. f \in Frames /\ f.up = now /\ f.pairs = pairs /\ f.kind = kind
    <3> HIDE DEF pairs
    <3> QED  BY <2>2, FrameIs DEF Frame
  <2>4. UNCHANGED <<phase, status, got, read, owed, rest>>
    BY <1>1 DEF SaysHowItIs
  <2>5. Says(f)
    BY <2>1
  <2>6. Told(devicesUp, f) = now
    <3>1. ASSUME NEW d \in Device
          PROVE  /\ (\E p \in pairs : p.device = d) <=> d \in told
                 /\ [device |-> d, up |-> TRUE] \in pairs <=> d \in told /\ d \in now
      <4>1. ASSUME NEW p \in pairs PROVE p.device \in told /\ (p.up <=> p.device \in now)
                                        /\ p = [device |-> p.device, up |-> p.device \in now]
        <5>1. PICK e \in told : p = [device |-> e, up |-> e \in now]
          OBVIOUS
        <5> HIDE DEF pairs
        <5>2. p.device = e /\ p.up = (e \in now)
          BY <5>1
        <5> QED  BY <5>1, <5>2
      <4>2. d \in told => [device |-> d, up |-> d \in now] \in pairs
        OBVIOUS
      <4> HIDE DEF pairs
      <4>3. (\E p \in pairs : p.device = d) => d \in told
        BY <4>1
      <4>4. d \in told => \E p \in pairs : p.device = d
        BY <4>2
      <4>5. [device |-> d, up |-> TRUE] \in pairs => d \in told /\ d \in now
        BY <4>1
      <4>6. CASE d \in told /\ d \in now
        <5>1. [device |-> d, up |-> d \in now] = [device |-> d, up |-> TRUE]
          BY <4>6
        <5> QED  BY <4>2, <4>3, <4>4, <4>5, <4>6, <5>1
      <4>7. CASE ~(d \in told /\ d \in now)
        BY <4>3, <4>4, <4>5, <4>7
      <4> QED  BY <4>6, <4>7
    <3>2. ASSUME NEW d \in Device
          PROVE  (IF \E p \in pairs : p.device = d THEN [device |-> d, up |-> TRUE] \in pairs
                  ELSE d \in devicesUp) <=> d \in now
      <4> HIDE DEF pairs
      <4> QED  BY <2>1, <3>1
    <3>3. Told(devicesUp, f) = {d \in Device : IF \E p \in pairs : p.device = d
                                           THEN [device |-> d, up |-> TRUE] \in pairs
                                           ELSE d \in devicesUp}
      <4> HIDE DEF pairs, f
      <4> QED  BY <2>3 DEF Told
    <3> HIDE DEF pairs, f
    <3> QED  BY <3>2, <3>3
  <2> HIDE DEF f, pairs
  <2>7. phase # "Over" /\ wire' \o rest' = (wire \o rest) \o Pieces(f)
    BY <2>3, <2>4, <2>5, SaysIt
  <2> QED  BY <2>1, <2>3, <2>4, <2>6, <2>7, MoreAhead
<1>2. CASE SaysSomethingElse
  <2>1. PICK kind \in {"HealthCheck", "Empty"} : Says(Frame(kind, {}, devicesUp))
    BY <1>2 DEF SaysSomethingElse
  <2>2. UNCHANGED <<phase, status, got, read, owed, rest, devicesUp>>
    BY <1>2 DEF SaysSomethingElse
  <2> DEFINE f == Frame(kind, {}, devicesUp)
  <2>3. f \in Frames /\ f.up = devicesUp /\ f.kind \notin {"Request", "Response"}
    BY <1>0, FrameIs DEF Frame
  <2>4. Says(f)
    BY <2>1
  <2> HIDE DEF f
  <2>5. phase # "Over" /\ wire' \o rest' = (wire \o rest) \o Pieces(f)
    BY <2>2, <2>3, <2>4, SaysIt
  <2>6. Told(devicesUp, f) = devicesUp
    BY <1>0, <2>3, ToldIs
  <2> QED  BY <2>2, <2>3, <2>5, <2>6, MoreAhead
<1>3. CASE BeatsAtTheRun
  <2> DEFINE f == Frame("Beat", {}, devicesUp)
  <2>1. Says(f) /\ UNCHANGED <<phase, status, got, read, owed, rest, devicesUp>>
    BY <1>3 DEF BeatsAtTheRun, service
  <2>2. f \in Frames /\ f.up = devicesUp /\ f.kind \notin {"Request", "Response"}
    BY <1>0, FrameIs DEF Frame
  <2> HIDE DEF f
  <2>3. phase # "Over" /\ wire' \o rest' = (wire \o rest) \o Pieces(f)
    BY <2>1, <2>2, SaysIt
  <2>4. Told(devicesUp, f) = devicesUp
    BY <1>0, <2>2, ToldIs
  <2> QED  BY <2>1, <2>2, <2>3, <2>4, MoreAhead
<1>4. CASE StopsHalfway
  <2>1. PICK f \in Frames : wire' \o rest' = (wire \o rest) \o Pieces(f)
                            /\ f.kind = "Beat" /\ f.up = devicesUp
    BY <1>4, StopsIn
  <2>2. phase # "Over" /\ UNCHANGED <<phase, status, got, read, owed, devicesUp>>
    BY <1>4 DEF StopsHalfway
  <2>3. Told(devicesUp, f) = devicesUp
    BY <1>0, <2>1, ToldIs
  <2> QED  BY <2>1, <2>2, <2>3, MoreAhead
<1>5. CASE GoesOn
  <2>1. wire' \o rest' = wire \o rest /\ UNCHANGED <<phase, status, got, read, owed, devicesUp>>
    BY <1>5, GoesOnIs DEF GoesOn
  <2>2. Pending = Unfinished \o (wire \o rest)
    BY PendingIs
  <2>3. (OutputTypes => Pending = Unfinished \o (wire \o rest))'
    BY PendingIs, PTL
  <2>4. Pending' = Pending
    BY <2>1, <2>2, <2>3 DEF Unfinished
  <2> QED  BY <2>1, <2>4, SameAhead
<1>6. CASE Closes \/ PostAReport \/ Tick \/ UNCHANGED outputVars
  <2>1. UNCHANGED <<phase, status, got, read, owed, wire, rest, devicesUp>>
    BY <1>6 DEF Closes, PostAReport, Tick, outputVars, service
  <2> QED  BY <2>1, SameAhead DEF Pending, Unfinished
<1>7. CASE ReachTheOutput
  <2>1. /\ UNCHANGED <<status, got, read, owed, wire, rest, devicesUp>> /\ phase = "Reach"
    BY <1>7 DEF ReachTheOutput, service
  <2>2. got = <<>> /\ wire = <<>> /\ rest = <<>> /\ owed = <<>> /\ status = {} /\ devicesUp = {}
        /\ read = NoFrame
    BY <2>1 DEF PhaseInv
  <2>3. Pending' = <<>>
    BY <2>1, <2>2 DEF Pending, Unfinished
  <2> QED  BY <2>1, <2>2, <2>3 DEF StreamInv, Framed, EndsAsReady, Continues
<1>8. CASE Turn
  <2>1. CASE phase' = "Over"
    BY <2>1 DEF StreamInv
  <2>2. CASE phase' # "Over"
    <3>1. /\ UNCHANGED <<status, read, owed, wire, rest, devicesUp>> /\ got' = <<>> /\ got = <<>>
          /\ phase' = "Read" /\ phase # "Over"
      BY <1>8, <2>2 DEF Turn, service, StartAFill, PhaseInv
    <3>2. Pending' = Pending
      BY <3>1 DEF Pending, Unfinished
    <3> QED  BY <3>1, <3>2 DEF StreamInv, Framed, EndsAsReady
  <2> QED  BY <2>1, <2>2
<1>9. CASE ReadSome
  <2>1. PICK k \in 1..3, f \in Frames :
           /\ Len(got) < k /\ k <= Size(f) /\ k <= Len(Pending) /\ Size(f) \in {2, 3}
           /\ Pending # <<>> /\ Pending[1].of = f /\ Pending[k] = [of |-> f, at |-> k]
           /\ \/ /\ k < Size(f)
                 /\ Len(got') = k /\ \A i \in 1..k : got'[i] = [of |-> f, at |-> i]
                 /\ left' = bound /\ UNCHANGED <<phase, status, bound, read, owed, beaten, since>>
                 /\ got' \o (wire' \o rest') = Pending
              \/ /\ k = Size(f)
                 /\ read' = f
                 /\ wire' \o rest' = SubSeq(Pending, k + 1, Len(Pending))
                 /\ \/ /\ AsksAnAnswer(f) /\ owed' = <<f>> /\ status' = Told(status, f)
                       /\ UNCHANGED <<phase, got, bound, left, beaten, since>>
                    \/ /\ ~AsksAnAnswer(f) /\ UNCHANGED owed /\ GoesRound(Told(status, f))
    BY <1>9, ReadSomeIs
  <2>2. phase \in {"Wait", "Read"} /\ owed = <<>> /\ devicesUp' = devicesUp
    BY <1>9 DEF ReadSome, Reading, service
  <2>3. (OutputTypes => wire \o rest \in Seq(PiecesOfAny) /\ Pending = Unfinished \o (wire \o rest))'
    BY PendingIs, PTL
  <2>4. CASE /\ owed' = owed /\ got' \o (wire' \o rest') = Pending
             /\ UNCHANGED <<phase, status, read>>
    <3>1. Pending' = Pending
      BY <2>2, <2>3, <2>4 DEF Unfinished
    <3> QED  BY <2>2, <2>4, <3>1, SameAhead
  <2>5. CASE k = Size(f) /\ read' = f /\ wire' \o rest' = SubSeq(Pending, k + 1, Len(Pending))
    <3> DEFINE t == SubSeq(Pending, k + 1, Len(Pending))
    <3>1. Pending \in Seq(PiecesOfAny) /\ k \in 1..Len(Pending) /\ Framed(Pending)
          /\ EndsAsReady(Pending) /\ Pending[k].at = Size(Pending[k].of) /\ Pending[k].of = f
      <4>1. Pending \in Seq(PiecesOfAny)
        BY PendingIs
      <4>2. k \in 1..Len(Pending)
        BY <2>1, <4>1
      <4> QED  BY <2>1, <2>2, <2>5, <4>1, <4>2 DEF StreamInv
    <3>2. /\ t \in Seq(PiecesOfAny) /\ Framed(t)
          /\ t = <<>> => k = Len(Pending)
          /\ t # <<>> => t[Len(t)] = Pending[Len(Pending)] /\ Told(f.up, t[1].of) = t[1].of.up
      BY <3>1, FramedBehind
    <3> HIDE DEF t
    <3>3. EndsAsReady(t)
      BY <2>1, <3>1, <3>2 DEF EndsAsReady
    <3>4. t = <<>> => f.up = devicesUp
      BY <2>1, <3>1, <3>2 DEF EndsAsReady
    <3>5. Continues(f.up, t)
      BY <3>2, <3>4 DEF Continues
    <3>6. phase = "Wait" => Told(status, f) = f.up
      BY <2>1, <2>2 DEF StreamInv, Continues
    <3>7. wire' \o rest' = t
      BY <2>5 DEF t
    <3>8. CASE owed' = <<f>> /\ status' = Told(status, f) /\ phase' = phase
      <4>1. Unfinished' = <<>>
        BY <3>8 DEF Unfinished
      <4>2. Pending' = t
        BY <2>3, <3>2, <3>7, <4>1, NoneYet, Joined
      <4> QED  BY <2>2, <2>5, <3>2, <3>3, <3>5, <3>6, <3>8, <4>2 DEF StreamInv, EndsAsReady, Continues
    <3>9. CASE owed' = owed /\ GoesRound(Told(status, f))
      <4>1. Told(status, f) \in SUBSET Device
        BY <1>0, ToldIs
      <4>2. phase = "Wait" => (read' # NoFrame => Told(status, f) = read'.up)
                              /\ Continues(Told(status, f), t)
        BY <2>5, <3>5, <3>6
      <4> QED  BY <2>2, <3>2, <3>3, <3>7, <3>9, <4>1, <4>2, RoundAhead
    <3> QED  BY <2>1, <2>5, <3>8, <3>9
  <2> QED  BY <2>1, <2>4, <2>5
<1>10. CASE AnswerIt
  <2>1. /\ owed # <<>> /\ owed' = <<>> /\ UNCHANGED <<read, wire, rest, devicesUp>>
        /\ phase \in {"Wait", "Read"}
        /\ phase' = "Over" \/ GoesRound(status)
    BY <1>10 DEF AnswerIt, service, PhaseInv
  <2> DEFINE t == wire \o rest
  <2>2. Pending = t
    <3>1. wire \o rest \in Seq(PiecesOfAny) /\ Pending = Unfinished \o (wire \o rest)
      BY PendingIs
    <3> QED  BY <2>1, <3>1, NoneYet, Joined DEF Unfinished
  <2>3. t = wire' \o rest'
    BY <2>1
  <2> HIDE DEF t
  <2>4. CASE GoesRound(status)
    <3>1. /\ Framed(t) /\ EndsAsReady(t)
          /\ phase = "Wait" => (read' # NoFrame => status = read'.up) /\ Continues(status, t)
      BY <2>1, <2>2 DEF StreamInv
    <3> QED  BY <1>0, <2>1, <2>3, <2>4, <3>1, RoundAhead
  <2>5. CASE phase' = "Over"
    BY <2>5 DEF StreamInv
  <2> QED  BY <2>1, <2>4, <2>5
<1>11. CASE ReadNothing
  <2>1. /\ owed = <<>> /\ read' = NoFrame /\ UNCHANGED <<owed, wire, rest, devicesUp>>
        /\ phase \in {"Wait", "Read"}
        /\ phase' = "Over" \/ (got = <<>> /\ GoesRound(status))
    BY <1>11 DEF ReadNothing, Reading, service
  <2> DEFINE t == wire \o rest
  <2>2. t = wire' \o rest'
    BY <2>1
  <2>3. CASE got = <<>> /\ GoesRound(status)
    <3>1. wire \o rest \in Seq(PiecesOfAny) /\ Pending = Unfinished \o (wire \o rest)
      BY PendingIs
    <3>2. Pending = t
      BY <2>1, <2>3, <3>1, NoneYet, Joined DEF Unfinished
    <3> HIDE DEF t
    <3>3. /\ Framed(t) /\ EndsAsReady(t)
          /\ phase = "Wait" => (read' # NoFrame => status = read'.up) /\ Continues(status, t)
      BY <2>1, <3>2 DEF StreamInv
    <3> QED  BY <1>0, <2>1, <2>2, <2>3, <3>3, RoundAhead
  <2>4. CASE phase' = "Over"
    BY <2>4 DEF StreamInv
  <2> QED  BY <2>1, <2>3, <2>4
<1>12. CASE ReadGone
  BY <1>12 DEF ReadGone, StreamInv
<1> QED  BY <1>1, <1>2, <1>3, <1>4, <1>5, <1>6, <1>7, <1>8, <1>9, <1>10, <1>11, <1>12
         DEF OutputNext, Loop, Service

(* A read that waits with a frame begun waits for a service that stopped   *)
(* in it.                                                                  *)
LEMMA StoppedInIt ==
  ASSUME OutputTypes, GotInv, StreamInv, PhaseInv, Reading, wire = <<>>, ~paused
  PROVE  got = <<>>
<1> SUFFICES ASSUME got # <<>> PROVE FALSE
  OBVIOUS
<1>1. rest = <<>> /\ phase # "Over" /\ owed = <<>>
  BY DEF PhaseInv, Reading, hung
<1>2. got \in Seq(PiecesOfAny) /\ Pending = got
  <2>1. got \in Seq(PiecesOfAny)
    BY DEF OutputTypes
  <2>2. got \o <<>> = got
    BY <2>1, NoneYet, Joined
  <2> QED  BY <1>1, <2>1, <2>2 DEF Pending, Unfinished
<1>3. /\ Len(got) = 1 \/ Len(got) = 2
      /\ Len(got) < Size(got[1].of)
  BY GotIs
<1>4. got[Len(got)] = [of |-> got[1].of, at |-> Len(got)]
  BY <1>3 DEF GotInv
<1>5. got[Len(got)].at = Size(got[Len(got)].of)
  BY <1>1, <1>2 DEF StreamInv, Framed
<1>6. Len(got) = Size(got[1].of)
  BY <1>4, <1>5
<1> QED  BY <1>3, <1>6

(* What the run waited before what it reads next.                          *)
LEMMA FreshRead ==
  ASSUME OutputAssumption, NEW c \in Nat, NEW most \in Nat, NEW by \in Nat,
         got = <<>>, bound \in Nat, left = bound, bound <= by, c <= most
  PROVE  Within(c, most, by)
  BY DEF Within, ReadsLeft, Quick

LEMMA FirstOfThree ==
  ASSUME NEW a \in Nat, NEW b \in Nat, NEW c \in Nat, NEW n \in Nat, a + b + c <= n
  PROVE  a <= n
  OBVIOUS

LEMMA BelowTwo ==
  ASSUME NEW x \in Nat, NEW k \in 1..3, x < k, k < 3
  PROVE  (x = 0 /\ k = 1) \/ (x = 0 /\ k = 2) \/ (x = 1 /\ k = 2)
  OBVIOUS

LEMMA ClocksKept ==
  ASSUME OutputAssumption, OutputTypes, ClockInv,
         UNCHANGED <<phase, got, bound, left, waited, beaten, since>>,
         paused' = paused \/ paused' = TRUE,
         phase = "Wait" => heard' <= waited,
         Serving /\ torn' = FALSE => heard' <= waited + since,
         torn' \in BOOLEAN
  PROVE  ClockInv'
<1>0. /\ BeatEvery \in Nat /\ Shortest \in Nat /\ since \in Nat /\ paused \in BOOLEAN
  BY DEF OutputAssumption, OutputTypes
<1>1. Serving' = Serving /\ ReadsLeft' = ReadsLeft
  BY DEF Serving, ReadsLeft
<1>2. CASE paused' = paused
  BY <1>0, <1>1, <1>2 DEF ClockInv, Within, Quick, HeldUp, ReadsLeft
<1>3. CASE paused' = TRUE
  <2>1. Serving => since <= 3 * BeatEvery + Shortest
    <3>1. CASE paused
      BY <3>1 DEF ClockInv, HeldUp
    <3>2. CASE ~paused
      BY <1>0, <3>2 DEF ClockInv, HeldUp
    <3> QED  BY <3>1, <3>2
  <2> QED  BY <1>0, <1>1, <1>3, <2>1 DEF ClockInv, Within, Quick, HeldUp, ReadsLeft
<1> QED  BY <1>2, <1>3

LEMMA ClockRound ==
  ASSUME OutputAssumption, OutputTypes, ClockInv, PhaseInv, phase \in {"Wait", "Read"},
         NEW s \in SUBSET Device, GoesRound(s),
         UNCHANGED <<waited, paused, torn>>, heard' = 0 \/ heard' = heard,
         OutputTypes'
  PROVE  ClockInv'
<1>0. /\ BeatEvery \in Nat /\ Shortest \in Nat /\ Wait \in Nat /\ BeatWithin \in Nat
      /\ waited \in Nat /\ beaten \in Nat /\ since \in Nat /\ heard \in Nat
      /\ paused \in BOOLEAN /\ torn \in BOOLEAN /\ Shortest <= BeatEvery
  BY DEF OutputAssumption, OutputTypes
<1>1. CASE phase' = "Wait"
  <2>1. /\ phase = "Wait" /\ waited < Wait /\ bound' = Shortest /\ left' = bound' /\ got' = <<>>
        /\ beaten' = IF beaten >= BeatWithin THEN 0 ELSE beaten
    BY <1>1 DEF GoesRound, WaitGoesRound, ServeGoesRound, StartAFill
  <2>2. beaten' \in Nat /\ beaten' <= BeatWithin
    BY <1>0, <2>1
  <2>3. heard' <= waited
    BY <1>0, <2>1 DEF ClockInv
  <2>4. Within(beaten, BeatWithin, Shortest)' /\ Within(waited, Wait, Shortest)'
    BY <1>0, <2>1, <2>2 DEF Within, ReadsLeft, Quick
  <2> QED  BY <1>1, <2>1, <2>3, <2>4 DEF ClockInv, Serving
<1>2. CASE phase' = "Serve"
  <2>1. phase = "Wait" /\ since' = 0 /\ torn = FALSE
    BY <1>2 DEF GoesRound, WaitGoesRound, ServeGoesRound, PhaseInv, OutputTypes
  <2>2. heard' <= waited' + since'
    BY <1>0, <2>1 DEF ClockInv
  <2>3. since' <= HeldUp(BeatEvery)' + Shortest
    BY <1>0, <2>1 DEF HeldUp
  <2> QED  BY <1>2, <2>2, <2>3 DEF ClockInv
<1>3. CASE phase' = "Turn"
  <2>1. phase = "Read" /\ since' = since
    BY <1>3 DEF GoesRound, WaitGoesRound, ServeGoesRound
  <2>2. since' <= HeldUp(BeatEvery)' + Shortest
    BY <2>1 DEF ClockInv, HeldUp, Serving
  <2>3. ~torn' => heard' <= waited' + since'
    BY <1>0, <2>1 DEF ClockInv, Serving
  <2> QED  BY <1>3, <2>2, <2>3 DEF ClockInv
<1>4. CASE phase' = "Over"
  BY <1>4 DEF ClockInv, Serving
<1>5. phase' \in {"Wait", "Serve", "Turn", "Over"}
  BY GoesRoundIs
<1> QED  BY <1>1, <1>2, <1>3, <1>4, <1>5

LEMMA ClockStep ==
  ASSUME OutputAssumption, OutputTypes, OutputTypes', GotInv, StreamInv, PhaseInv, ClockInv,
         [OutputNext]_outputVars
  PROVE  ClockInv'
<1>0. /\ BeatEvery \in Nat /\ Shortest \in Nat /\ 0 < Shortest /\ Shortest <= BeatEvery
      /\ Wait \in Nat /\ BeatWithin \in Nat
      /\ waited \in Nat /\ beaten \in Nat /\ since \in Nat /\ heard \in Nat
      /\ bound \in Nat /\ left \in Nat /\ left <= bound
      /\ paused \in BOOLEAN /\ torn \in BOOLEAN
  BY DEF OutputAssumption, OutputTypes
<1>1. CASE Service
  <2>1. UNCHANGED <<phase, got, bound, left, waited, beaten, since, heard, torn>>
    BY <1>1, ServiceLeaves
  <2>2. paused' = paused \/ paused' = TRUE
    BY <1>1 DEF Service, SaysHowItIs, SaysSomethingElse, BeatsAtTheRun, StopsHalfway, GoesOn, Closes
  <2>3. (phase = "Wait" => heard' <= waited) /\ (Serving /\ torn' = FALSE => heard' <= waited + since)
    BY <2>1 DEF ClockInv
  <2> QED  BY <1>0, <2>1, <2>2, <2>3, ClocksKept
<1>2. CASE PostAReport
  <2>1. UNCHANGED <<phase, got, bound, left, waited, beaten, since, paused>> /\ Serving
        /\ phase # "Wait"
    BY <1>2 DEF PostAReport, Serving
  <2>2. torn' = FALSE => torn = FALSE /\ heard' = 0
    BY <1>2 DEF PostAReport, Hears
  <2>3. torn' \in BOOLEAN
    BY DEF OutputTypes
  <2>4. torn' = FALSE => heard' <= waited + since
    BY <1>0, <2>2
  <2> QED  BY <2>1, <2>3, <2>4, ClocksKept
<1>3. CASE ReachTheOutput
  <2>1. CASE phase' = "Over"
    BY <2>1 DEF ClockInv, Serving
  <2>2. CASE phase' # "Over"
    <3>1. /\ phase' = "Wait" /\ heard' = 0 /\ waited' = 0 /\ beaten' = 0
          /\ bound' = Shortest /\ left' = Shortest /\ got' = <<>>
      BY <1>3, <2>2 DEF ReachTheOutput, PhaseInv
    <3>2. Within(beaten, BeatWithin, Shortest)' /\ Within(waited, Wait, Shortest)'
      BY <1>0, <3>1 DEF Within, ReadsLeft, Quick
    <3> QED  BY <3>1, <3>2 DEF ClockInv, Serving
  <2> QED  BY <2>1, <2>2
<1>4. CASE Turn
  <2>1. CASE phase' = "Over"
    BY <2>1 DEF ClockInv, Serving
  <2>2. CASE phase' # "Over"
    <3>1. /\ phase' = "Read" /\ got' = <<>> /\ left' = bound' /\ UNCHANGED <<waited, torn>>
          /\ bound' = LeftOf(BeatEvery, since)
          /\ BeatIfItIsDue(Due) /\ Serving
      BY <1>4, <2>2 DEF Turn, StartAFill, Serving
    <3>2. CASE since >= BeatEvery
      <4>1. since' = 0 /\ bound' = Shortest /\ (torn = FALSE => heard' = 0)
        BY <1>0, <3>1, <3>2 DEF BeatIfItIsDue, Due, Hears, LeftOf
      <4>2. /\ bound' \in Shortest..BeatEvery
            /\ since' + left' + ReadsLeft' <= 3 * BeatEvery + Shortest
            /\ Quick(since)' <= BeatEvery + Shortest
            /\ since' <= BeatEvery + Shortest /\ since' <= 3 * BeatEvery + Shortest
        BY <1>0, <3>1, <4>1 DEF ReadsLeft, Quick
      <4>3. since' <= HeldUp(BeatEvery)' + Shortest
        BY <4>2 DEF HeldUp
      <4>4. ~torn' => heard' <= waited' + since'
        BY <1>0, <3>1, <4>1
      <4> QED  BY <3>1, <4>2, <4>3, <4>4 DEF ClockInv
    <3>3. CASE since < BeatEvery
      <4>1. since' = since /\ heard' = heard
        BY <1>0, <3>1, <3>3 DEF BeatIfItIsDue, Due
      <4>2. /\ bound' \in Nat /\ bound' >= Shortest /\ bound' <= BeatEvery
            /\ bound' = Shortest \/ since + bound' = BeatEvery
        BY <1>0, <3>1, <3>3 DEF LeftOf
      <4>3. since' <= BeatEvery + Shortest /\ since' <= 3 * BeatEvery + Shortest
        BY <1>0, <3>3, <4>1
      <4>4. /\ bound' \in Shortest..BeatEvery
            /\ since' + left' + ReadsLeft' <= 3 * BeatEvery + Shortest
            /\ Quick(since)' <= BeatEvery + Shortest
        BY <1>0, <3>1, <3>3, <4>1, <4>2 DEF ReadsLeft, Quick
      <4>5. since' <= HeldUp(BeatEvery)' + Shortest
        BY <4>3 DEF HeldUp
      <4>6. ~torn' => heard' <= waited' + since'
        BY <3>1, <4>1 DEF ClockInv
      <4> QED  BY <3>1, <4>4, <4>5, <4>6 DEF ClockInv
    <3> QED  BY <1>0, <3>2, <3>3
  <2> QED  BY <2>1, <2>2
<1>5. CASE ReadSome
  <2>1. phase \in {"Wait", "Read"} /\ UNCHANGED <<waited, paused, torn, heard>>
    BY <1>5 DEF ReadSome, Reading
  <2>2. PICK k \in 1..3, f \in Frames :
          /\ Len(got) < k /\ k <= Size(f) /\ Size(f) \in {2, 3}
          /\ \/ /\ k < Size(f) /\ Len(got') = k
                /\ left' = bound /\ UNCHANGED <<phase, bound, beaten, since>>
             \/ UNCHANGED <<phase, got, bound, left, beaten, since>>
             \/ GoesRound(Told(status, f))
    BY <1>5, ReadSomeIs
  <2>3. CASE UNCHANGED <<phase, got, bound, left, beaten, since>>
    BY <1>0, <2>1, <2>3 DEF ClockInv, Within, ReadsLeft, Quick, HeldUp, Serving
  <2>4. CASE GoesRound(Told(status, f))
    <3>1. Told(status, f) \in SUBSET Device
      BY ToldIs DEF OutputTypes
    <3> QED  BY <2>1, <2>4, <3>1, ClockRound
  <2>5. CASE /\ k < Size(f) /\ Len(got') = k
             /\ left' = bound /\ UNCHANGED <<phase, bound, beaten, since>>
    <3>1. /\ (Len(got) = 0 /\ k = 1) \/ (Len(got) = 0 /\ k = 2) \/ (Len(got) = 1 /\ k = 2)
          /\ (Len(got) = 0) <=> got = <<>>
          /\ got' # <<>>
      <4>1. Len(got) \in Nat /\ (Len(got) = 0 <=> got = <<>>)
        BY DEF OutputTypes
      <4>2. k < 3
        BY <2>2, <2>5
      <4>3. (Len(got) = 0 /\ k = 1) \/ (Len(got) = 0 /\ k = 2) \/ (Len(got) = 1 /\ k = 2)
        BY <2>2, <4>1, <4>2, BelowTwo
      <4>4. got' # <<>>
        BY <2>5, <4>3
      <4> QED  BY <4>1, <4>3, <4>4
    <3>2. ASSUME NEW c \in Nat, NEW most \in Nat, c + left + ReadsLeft <= most
          PROVE  c + left' + ReadsLeft' <= most
      BY <1>0, <2>5, <3>1, <3>2 DEF ReadsLeft
    <3>3. ASSUME NEW c \in Nat, NEW most \in Nat, Quick(c) <= most
          PROVE  (IF got' = <<>> THEN c + left' ELSE c) <= most
      BY <1>0, <3>1, <3>3 DEF Quick
    <3>4. phase = "Wait" => Within(beaten, BeatWithin, Shortest)' /\ Within(waited, Wait, Shortest)'
      BY <1>0, <2>1, <2>5, <3>2, <3>3 DEF ClockInv, Within, Quick
    <3>5. phase = "Read" => /\ since' + left' + ReadsLeft' <= 3 * BeatEvery + Shortest
                            /\ ~paused' => Quick(since)' <= BeatEvery + Shortest
      BY <1>0, <2>1, <2>5, <3>2, <3>3 DEF ClockInv, Quick
    <3> QED  BY <2>1, <2>5, <3>4, <3>5 DEF ClockInv, HeldUp, Serving
  <2> QED  BY <2>2, <2>3, <2>4, <2>5
<1>6. CASE AnswerIt
  <2>1. UNCHANGED <<waited, paused, torn>> /\ phase \in {"Wait", "Read"}
    BY <1>6 DEF AnswerIt, PhaseInv
  <2>2. CASE GoesRound(status) /\ Hears
    <3>1. heard' = 0 \/ heard' = heard
      BY <2>2 DEF Hears
    <3> QED  BY <2>1, <2>2, <3>1, ClockRound DEF OutputTypes
  <2>3. CASE phase' = "Over"
    BY <2>3 DEF ClockInv, Serving
  <2> QED  BY <1>6, <2>2, <2>3 DEF AnswerIt
<1>7. CASE ReadNothing
  <2>1. UNCHANGED <<waited, paused, torn, heard>> /\ phase \in {"Wait", "Read"}
    BY <1>7 DEF ReadNothing, Reading
  <2>2. CASE GoesRound(status)
    BY <2>1, <2>2, ClockRound DEF OutputTypes
  <2>3. CASE phase' = "Over"
    BY <2>3 DEF ClockInv, Serving
  <2> QED  BY <1>7, <2>2, <2>3 DEF ReadNothing
<1>8. CASE ReadGone
  BY <1>8 DEF ReadGone, ClockInv, Serving
<1>9. CASE Tick
  <2>1. /\ Reading /\ phase \in {"Wait", "Read"} /\ wire = <<>> /\ left > 0
        /\ left' = left - 1 /\ heard' = heard + 1
        /\ UNCHANGED <<phase, got, bound, paused, torn>>
    BY <1>9 DEF Tick, Reading
  <2>2. ~paused => got = <<>>
    BY <2>1, StoppedInIt
  <2>3. ASSUME NEW c \in Nat, NEW most \in Nat, c + left + ReadsLeft <= most
        PROVE  (c + 1) + left' + ReadsLeft' <= most
    BY <1>0, <2>1, <2>3 DEF ReadsLeft
  <2>4. ASSUME NEW c \in Nat, NEW most \in Nat, Quick(c) <= most, ~paused
        PROVE  /\ (IF got' = <<>> THEN (c + 1) + left' ELSE c + 1) <= most
               /\ c + 1 <= most
    BY <1>0, <2>1, <2>2, <2>4 DEF Quick
  <2>5. CASE phase = "Wait"
    <3>1. waited' = waited + 1 /\ beaten' = beaten + 1
      BY <1>9, <2>5 DEF Tick
    <3>2. Within(beaten, BeatWithin, Shortest)' /\ Within(waited, Wait, Shortest)'
      <4>1. /\ BeatWithin + 3 * Shortest \in Nat /\ Wait + 3 * Shortest \in Nat
            /\ BeatWithin + Shortest \in Nat /\ Wait + Shortest \in Nat
        BY <1>0
      <4>2. /\ beaten + left + ReadsLeft <= BeatWithin + 3 * Shortest
            /\ waited + left + ReadsLeft <= Wait + 3 * Shortest
            /\ ~paused => Quick(beaten) <= BeatWithin + Shortest
            /\ ~paused => Quick(waited) <= Wait + Shortest
        BY <2>5 DEF ClockInv, Within
      <4>3. /\ beaten' + left' + ReadsLeft' <= BeatWithin + 3 * Shortest
            /\ waited' + left' + ReadsLeft' <= Wait + 3 * Shortest
        BY <1>0, <2>3, <3>1, <4>1, <4>2
      <4>4. /\ ~paused => Quick(beaten)' <= BeatWithin + Shortest
            /\ ~paused => Quick(waited)' <= Wait + Shortest
        BY <1>0, <2>4, <3>1, <4>1, <4>2 DEF Quick
      <4> QED  BY <2>1, <4>3, <4>4 DEF Within
    <3>3. heard' <= waited'
      BY <1>0, <2>1, <2>5, <3>1 DEF ClockInv
    <3> QED  BY <2>1, <2>5, <3>2, <3>3 DEF ClockInv, Serving
  <2>6. CASE phase = "Read"
    <3>1. since' = since + 1 /\ waited' = waited
      BY <1>9, <2>6 DEF Tick
    <3>2. /\ since' + left' + ReadsLeft' <= 3 * BeatEvery + Shortest
          /\ ~paused' => Quick(since)' <= BeatEvery + Shortest
          /\ ~paused' => since' <= BeatEvery + Shortest
      BY <1>0, <2>1, <2>3, <2>4, <2>6, <3>1 DEF ClockInv, Quick
    <3>3. since' <= 3 * BeatEvery + Shortest
      <4>1. ReadsLeft' \in Nat /\ left' \in Nat /\ since' \in Nat
        BY <1>0, <2>1, <3>1 DEF ReadsLeft
      <4>2. 3 * BeatEvery + Shortest \in Nat
        BY <1>0
      <4> QED  BY <3>2, <4>1, <4>2, FirstOfThree
    <3>4. since' <= HeldUp(BeatEvery)' + Shortest
      BY <3>2, <3>3 DEF HeldUp
    <3>5. ~torn' => heard' <= waited' + since'
      BY <1>0, <2>1, <2>6, <3>1 DEF ClockInv, Serving
    <3>6. bound' \in Shortest..BeatEvery
      BY <2>1, <2>6 DEF ClockInv
    <3> QED  BY <2>1, <2>6, <3>2, <3>4, <3>5, <3>6 DEF ClockInv
  <2> QED  BY <2>1, <2>5, <2>6
<1>10. CASE UNCHANGED outputVars
  BY <1>10 DEF outputVars, clocks, ClockInv, Within, ReadsLeft, Quick, HeldUp, Serving
<1> QED  BY <1>1, <1>2, <1>3, <1>4, <1>5, <1>6, <1>7, <1>8, <1>9, <1>10 DEF OutputNext, Loop

-----------------------------------------------------------------------------
OutputInv == OutputTypes /\ GotInv /\ PhaseInv /\ StreamInv /\ ClockInv

LEMMA OutputInvAtFirst == ASSUME OutputAssumption, OutputInit PROVE OutputInv
<1>1. OutputTypes /\ GotInv
  <2>1. /\ got \in Seq(PiecesOfAny) /\ wire \in Seq(PiecesOfAny) /\ rest \in Seq(PiecesOfAny)
        /\ owed = <<>> /\ read = NoFrame /\ status = {} /\ devicesUp = {} /\ phase = "Reach"
        /\ open = FALSE /\ paused = FALSE /\ torn = FALSE
    BY NoneYet DEF OutputInit
  <2>2. /\ bound \in Nat /\ left \in 0..bound
        /\ waited \in Nat /\ beaten \in Nat /\ since \in Nat /\ heard \in Nat /\ beat \in Nat
        /\ said \in 0..Sayings
    BY DEF OutputInit, OutputAssumption
  <2>3. GotInv
    BY DEF OutputInit, GotInv
  <2> QED  BY <2>1, <2>2, <2>3 DEF OutputTypes
<1>2. PhaseInv /\ ClockInv
  BY DEF OutputInit, PhaseInv, ClockInv, Serving, hung
<1>3. StreamInv
  BY DEF OutputInit, StreamInv, Pending, Unfinished, Framed, EndsAsReady
<1> QED  BY <1>1, <1>2, <1>3 DEF OutputInv

LEMMA OutputStep == ASSUME OutputAssumption, OutputInv, [OutputNext]_outputVars PROVE OutputInv'
  BY OutputTypesStep, GotStep, PhaseStep, StreamStep, ClockStep DEF OutputInv

LEMMA OutputInvariant == OutputSpec => []OutputInv
<1>1. OutputInit => OutputInv
  BY OutputInvAtFirst, OutputAssumption
<1>2. OutputInv /\ [OutputNext]_outputVars => OutputInv'
  BY OutputStep, OutputAssumption
<1> QED  BY <1>1, <1>2, PTL DEF OutputSpec

LEMMA StatusIsHeld == ASSUME OutputAssumption, OutputInv PROVE StatusIsTheServices
<1>1. Reading => bound \in Shortest..BeatEvery
  BY DEF OutputInv, ClockInv, Reading, OutputAssumption
<1>2. Len(got) <= 2
  <2>1. CASE got = <<>>
    BY <2>1
  <2>2. CASE got # <<>>
    BY <2>2, GotIs DEF OutputInv
  <2> QED  BY <2>1, <2>2
<1>3. Len(owed) <= 1
  <2>1. CASE owed = <<>>
    BY <2>1
  <2>2. CASE owed # <<>>
    <3>1. PICK f \in Frames : owed = <<f>>
      BY <2>2 DEF OutputInv, OutputTypes
    <3>2. Len(<<f>>) = 1
      OBVIOUS
    <3> QED  BY <3>1, <3>2
  <2> QED  BY <2>1, <2>2
<1>4. OutputTypeOK
  BY <1>1, <1>2, <1>3 DEF OutputInv, OutputTypes, OutputTypeOK
<1>5. FramesAreWhole
  <2> SUFFICES ASSUME got # <<>> PROVE got = SubSeq(Pieces(got[1].of), 1, Len(got))
    BY DEF FramesAreWhole
  <2> DEFINE p == Pieces(got[1].of)  t == SubSeq(p, 1, Len(got))
  <2>1. /\ Len(got) = 1 \/ Len(got) = 2
        /\ got[1].of \in Frames /\ Len(got) < Size(got[1].of) /\ Size(got[1].of) \in {2, 3}
    BY GotIs DEF OutputInv
  <2>2. /\ p \in Seq(PiecesOfAny) /\ Len(p) = Size(got[1].of)
        /\ \A i \in 1..Size(got[1].of) : p[i] = [of |-> got[1].of, at |-> i]
    BY <2>1, PiecesAre
  <2>3. Len(got) \in 0..Len(p) /\ got \in Seq(PiecesOfAny)
    BY <2>1, <2>2 DEF OutputInv, OutputTypes
  <2> HIDE DEF p
  <2>4. t \in Seq(PiecesOfAny) /\ Len(t) = Len(got) /\ \A i \in 1..Len(got) : t[i] = p[i]
    BY <2>2, <2>3, Cut
  <2> HIDE DEF t
  <2>5. \A i \in 1..Len(got) : t[i] = got[i]
    BY <2>1, <2>2, <2>4 DEF OutputInv, GotInv
  <2>6. t = got
    BY <2>3, <2>4, <2>5, SeqEqual
  <2> QED  BY <2>6 DEF t, p
<1>6. phase = "Wait" /\ read # NoFrame => status = read.up
  BY DEF OutputInv, StreamInv
<1> QED  BY <1>4, <1>5, <1>6 DEF StatusIsTheServices

LEMMA BeatsAreHeld == ASSUME OutputAssumption, OutputInv PROVE BeatsInTime
<1>0. /\ BeatEvery \in Nat /\ Shortest \in Nat /\ Wait \in Nat /\ BeatWithin \in Nat /\ Silence \in Nat
      /\ waited \in Nat /\ beaten \in Nat /\ since \in Nat /\ heard \in Nat
      /\ bound \in Nat /\ left \in Nat
      /\ paused \in BOOLEAN /\ torn \in BOOLEAN
  BY DEF OutputAssumption, OutputInv, OutputTypes
<1>1. Serving => since <= HeldUp(BeatEvery) + Shortest
  BY DEF OutputInv, ClockInv
<1>2. ASSUME phase = "Wait" PROVE beaten <= BeatWithin + HeldUp(Shortest) /\ waited <= Wait + HeldUp(Shortest)
  <2>1. Within(beaten, BeatWithin, Shortest) /\ Within(waited, Wait, Shortest)
    BY <1>2 DEF OutputInv, ClockInv
  <2>2. CASE paused
    <3>1. /\ beaten + left + ReadsLeft <= BeatWithin + 3 * Shortest
          /\ waited + left + ReadsLeft <= Wait + 3 * Shortest
      BY <2>1 DEF Within
    <3>2. /\ ReadsLeft \in Nat /\ BeatWithin + 3 * Shortest \in Nat /\ Wait + 3 * Shortest \in Nat
      BY <1>0 DEF ReadsLeft
    <3>3. beaten <= BeatWithin + 3 * Shortest /\ waited <= Wait + 3 * Shortest
      BY <1>0, <3>1, <3>2, FirstOfThree
    <3> QED  BY <2>2, <3>3 DEF HeldUp
  <2>3. CASE ~paused
    BY <1>0, <2>1, <2>3 DEF Within, Quick, HeldUp
  <2> QED  BY <2>2, <2>3
<1>3. ASSUME Serving, heard >= Silence, ~torn, ~paused
      PROVE  waited + BeatEvery + Shortest >= Silence
  <2>1. since <= BeatEvery + Shortest
    BY <1>1, <1>3 DEF HeldUp
  <2>2. heard <= waited + since
    BY <1>3 DEF OutputInv, ClockInv
  <2> QED  BY <1>0, <1>3, <2>1, <2>2
<1> QED  BY <1>1, <1>2, <1>3 DEF BeatsInTime

(* While the devices are waited for, what the run takes to be up is what   *)
(* the service had up when it said the frame last read, however the frames *)
(* were cut into pieces: no frame is lost, read twice or mixed with the    *)
(* next (output.rs read_frame, told).                                      *)
THEOREM StatusIsAsTheServiceHadIt == OutputSpec => []StatusIsTheServices
<1>1. OutputInv => StatusIsTheServices
  BY StatusIsHeld, OutputAssumption
<1> QED  BY <1>1, OutputInvariant, PTL

(* The service is beaten at within a beat and one short read of the last   *)
(* beat, within three beats and the read if it stops inside a frame; the   *)
(* supervisor is beaten at, and the wait for the devices ends, within a    *)
(* short read of when they should be, or three.  The service closes for    *)
(* silence only where it stopped in a frame itself, where a report broke   *)
(* off, or where the wait before the first beat was that long (sink.rs     *)
(* bring_up_the_output, output.rs serving).                                *)
THEOREM TheServiceHearsInTime == OutputSpec => []BeatsInTime
<1>1. OutputInv => BeatsInTime
  BY BeatsAreHeld, OutputAssumption
<1> QED  BY <1>1, OutputInvariant, PTL
=============================================================================
