----------------------------- MODULE Keyboards -----------------------------
(***************************************************************************)
(* The thread that reads the converting machine's own keyboards: the loop  *)
(* of engine/src/capture.rs (convert) over the state host-macos/capture.rs *)
(* keeps for it.  It lists the devices, hands up what it finds, takes and  *)
(* reads those the run asks for, reads their queues dry, and gives back    *)
(* the ones that have gone.  The run is SinkRun.                           *)
(*                                                                         *)
(* A device is an entry of the registry: a keyboard plugged in again is    *)
(* another entry.  Each has one key here, and a queue that has room for    *)
(* one value: what keys do is Converter's.                                 *)
(***************************************************************************)
EXTENDS Naturals, Sequences, FiniteSets, SequencesExt

CONSTANTS
  Devices,
  Lively,     \* a bound of the model: the devices that come, go and are typed on;
              \* the others are here and idle
  Backlog     \* a bound of the model: nothing is plugged in or typed while this
              \* many events wait for the run

ASSUME KeyboardsAssumption == Lively \subseteq Devices /\ Backlog \in Nat

VARIABLES
  \* the machine
  plugged,    \* whether a device is away, here, or gone for good
  queued,     \* what waits on a device's queue
  seized,     \* the devices this process has open exclusively
  \* the thread
  cpc,
  here, arriving,   \* the two listings
  known,            \* the devices numbered so far, in the order of their numbers
  pending,          \* handles found and not read yet
  watched,          \* handles whose queue is read
  ready, gone,      \* what the callbacks have put down
  leaving,          \* the device being given back because it has gone, and where
                    \* on the list of those to be given back it was found
  \* what the two threads share
  held,             \* the handles to be given back at the end
  request,          \* what the run asks and nobody has taken up
  answering,        \* the ask the thread is on
  reply,            \* what came back to the run
  stream            \* what the run will see, in order

machine == <<plugged, queued>>
lists == <<known, pending, watched>>
asking == <<request, answering, reply>>
kvars == <<machine, seized, cpc, here, arriving, lists, ready, gone, leaving,
           held, asking, stream>>

Found(n) == [what |-> "Found", device |-> n]
Lost(n) == [what |-> "Lost", device |-> n]
Value(n, down) == [what |-> "Value", device |-> n, down |-> down]
Done(n) == [what |-> "Done", device |-> n]
Delay == [what |-> "Delay"]
Probe == [what |-> "Probe"]
AlongsideStopped == [what |-> "AlongsideStopped"]

NoAsk == [what |-> "None"]
Take(n, exclusive) == [what |-> "Take", device |-> n, exclusive |-> exclusive]
Read(n) == [what |-> "Read", device |-> n]

Handle(n, d) == [id |-> n, device |-> d]
DevicesOf(handles) == {h.device : h \in handles}
Number(d) == CHOOSE n \in 0..Len(known) - 1 : known[n + 1] = d
Deliver(events) == stream' = stream \o events

(* Taking a device off the list of those held is two looks at it, one for  *)
(* its place and one to take off what is at that place: the other thread   *)
(* may have the list in between, and a place behind its end is a panic.    *)
Place(d) == {i \in DOMAIN held :
               held[i].device = d /\ \A j \in 1..i - 1 : held[j].device # d}
OffTheEnd(places) == \E i \in places : i > Len(held)
TakeOff(places) ==
  \/ places = {} /\ UNCHANGED held
  \/ \E i \in places : held' = RemoveAt(held, i)

KInit ==
  /\ plugged \in [Devices -> {"Away", "Here"}]
  /\ \A d \in Devices \ Lively : plugged[d] = "Here"
  /\ queued = [d \in Devices |-> <<>>]
  /\ seized = {}
  /\ cpc = "Unstarted"
  /\ here = {} /\ arriving = {}
  /\ known = <<>> /\ pending = {} /\ watched = {}
  /\ ready = {} /\ gone = {}
  /\ leaving = {}
  /\ held = <<>>
  /\ request = NoAsk /\ answering = NoAsk /\ reply = "None"
  /\ stream = <<>>

-----------------------------------------------------------------------------
(* The machine.                                                            *)
Quiet == Len(stream) < Backlog

(* A device arrives on the second listing once arrivals were asked about.  *)
PlugIn(d) ==
  /\ Quiet
  /\ plugged[d] = "Away"
  /\ plugged' = [plugged EXCEPT ![d] = "Here"]
  /\ arriving' = IF cpc \in {"Unstarted", "Asking", "Failed"} THEN arriving
                 ELSE arriving \cup {d}
  /\ UNCHANGED <<queued, seized, cpc, here, lists, ready, gone,
                 leaving, held, asking, stream>>

PullOut(d) ==
  /\ plugged[d] = "Here"
  /\ plugged' = [plugged EXCEPT ![d] = "Gone"]
  /\ UNCHANGED <<queued, seized, cpc, here, arriving, lists, ready, gone,
                 leaving, held, asking, stream>>

(* A finger goes down or comes up: the queue over the device has it.  Its  *)
(* key may have been down before the queue was made, so either may be first.*)
Type(d) ==
  /\ Quiet
  /\ plugged[d] = "Here" /\ d \in DevicesOf(watched)
  /\ queued[d] = <<>>
  /\ \E down \in BOOLEAN : queued' = [queued EXCEPT ![d] = <<down>>]
  /\ UNCHANGED <<plugged, seized, cpc, here, arriving, lists, ready, gone,
                 leaving, held, asking, stream>>

-----------------------------------------------------------------------------
(* What of this turn is still to be done; an arrival that comes later waits *)
(* for the next one.                                                       *)
Phase(listed, r, g) ==
  IF listed # {} THEN "Devices" ELSE IF r # {} THEN "Values" ELSE IF g # {} THEN "Gone"
  ELSE "Turn"

(* Setting up: asking to be told of arrivals first, then listing what is   *)
(* here, each of them only if the one before it went.                      *)
AskToBeTold ==
  /\ cpc = "Asking"
  /\ \/ /\ cpc' = "Listing"
        /\ arriving' = {d \in Devices : plugged[d] = "Here"}
     \/ /\ cpc' = "Failed"
        /\ UNCHANGED arriving
  /\ UNCHANGED <<machine, seized, here, lists, ready, gone, leaving, held, asking,
                 stream>>

LookAtTheDevicesHere ==
  /\ cpc = "Listing"
  /\ \/ /\ here' = {d \in Devices : plugged[d] = "Here"}
        /\ cpc' = Phase(here' \cup arriving, ready, gone)
     \/ /\ cpc' = "Failed"
        /\ UNCHANGED here
  /\ UNCHANGED <<machine, seized, arriving, lists, ready, gone, leaving, held, asking,
                 stream>>

(* The next number is offered to a finding; a device already known by the  *)
(* registry's name for it gives its second handle back under that number.  *)
Keep(d) ==
  LET offered == Len(known)
      kept == pending \cup {Handle(offered, d)}
  IN IF d \in Range(known)
     THEN /\ pending' = {h \in kept : h.id # offered}
          /\ UNCHANGED <<known, stream>>
     ELSE /\ pending' = kept
          /\ known' = Append(known, d)
          /\ Deliver(<<Found(offered)>>)

(* An entry that will not open or has no name is passed over; the ones     *)
(* behind it are still read.                                               *)
OneDevice(d) ==
  \/ /\ plugged[d] = "Here"
     /\ Keep(d)
  \/ UNCHANGED <<known, pending, stream>>

DrainDevices ==
  /\ cpc = "Devices"
  /\ \E d \in IF here # {} THEN here ELSE arriving :
       /\ here' = here \ {d}
       /\ arriving' = IF here # {} THEN arriving ELSE arriving \ {d}
       /\ OneDevice(d)
  /\ cpc' = Phase(here' \cup arriving', ready, gone)
  /\ UNCHANGED <<machine, seized, watched, ready, gone, leaving, held, asking>>

-----------------------------------------------------------------------------
(* A turn of the loop ends after the first source it delivered: departures *)
(* may be told before values that waited as long.  The probes are answered *)
(* before anything is drained.  A turn with nothing to deliver, to answer  *)
(* or to drain changes nothing.                                            *)
Departed == {d \in DevicesOf(pending \cup watched) : plugged[d] = "Gone"}
WithValues == {d \in DevicesOf(watched) : queued[d] # <<>>}
SomethingToDo ==
  \/ Departed \cup WithValues \cup here \cup arriving # {}
  \/ request # NoAsk \/ answering # NoAsk
TakeProbes == IF Quiet THEN {<<>>, <<Probe>>} ELSE {<<>>}

TurnTheLoop ==
  /\ cpc = "Turn"
  /\ cpc' = "Asks"
  /\ gone' = Departed
  /\ ready' \in {WithValues} \cup (IF Departed = {} THEN {} ELSE {{}})
  /\ \E probes \in TakeProbes : (SomethingToDo \/ probes # <<>>) /\ Deliver(probes)
  /\ UNCHANGED <<machine, seized, here, arriving, lists, leaving, held, asking>>

-----------------------------------------------------------------------------
(* What the run asked, until it has asked nothing more; an ask about a     *)
(* device no longer waiting ends this too, and its answer is never sent:   *)
(* the way back is dropped when the next ask is looked for.                *)
Waiting(n) == {h \in pending : h.id = n}
CanAnswer(ask) == ask # NoAsk /\ Waiting(ask.device) # {}

NothingMoreAsked ==
  /\ cpc = "Asks"
  /\ ~CanAnswer(request)
  /\ answering' = request
  /\ request' = NoAsk
  /\ cpc' = Phase(here \cup arriving, ready, gone)
  /\ UNCHANGED <<machine, seized, here, arriving, lists, ready, gone, leaving, held,
                 reply, stream>>

(* What was opened exclusively, and only that, is kept to be given back.   *)
KeptWhatWasSeized(h, went, exclusive) ==
  held' = IF went /\ exclusive THEN Append(held, h) ELSE held

Seize ==
  /\ cpc = "Asks"
  /\ CanAnswer(request) /\ request.what = "Take"
  /\ answering' = request
  /\ request' = NoAsk
  /\ \E h \in Waiting(request.device), went \in BOOLEAN :
       /\ went => plugged[h.device] = "Here"
       /\ seized' = IF went /\ request.exclusive THEN seized \cup {h.device} ELSE seized
       /\ KeptWhatWasSeized(h, went, request.exclusive)
       /\ reply' = IF went THEN "Yes" ELSE "No"
  /\ UNCHANGED <<machine, cpc, here, arriving, lists, ready, gone, leaving, stream>>

(* A device with no elements, no queue, or nothing on its queue stays      *)
(* among those waiting.                                                    *)
StartReading ==
  /\ cpc = "Asks"
  /\ CanAnswer(request) /\ request.what = "Read"
  /\ answering' = request
  /\ request' = NoAsk
  /\ \E h \in Waiting(request.device) :
       \/ /\ watched' = watched \cup {h}
          /\ pending' = pending \ {h}
          /\ reply' = "Yes"
       \/ /\ reply' = "No"
          /\ UNCHANGED <<watched, pending>>
  /\ UNCHANGED <<machine, seized, cpc, here, arriving, known, ready, gone, leaving,
                 held, stream>>

-----------------------------------------------------------------------------
(* Every queue that said it had values is read dry, each value behind what *)
(* it measured, and what says it ran dry after it.                         *)
Values(h) ==
  IF queued[h.device] = <<>> THEN <<Done(h.id)>>
  ELSE <<Delay, Value(h.id, Head(queued[h.device])), Done(h.id)>>

DrainValues ==
  /\ cpc = "Values"
  /\ \E h \in {w \in watched : w.device \in ready} :
       /\ Deliver(Values(h))
       /\ queued' = [queued EXCEPT ![h.device] = <<>>]
       /\ ready' = ready \ {h.device}
  /\ cpc' = Phase({}, ready', gone)
  /\ UNCHANGED <<plugged, seized, here, arriving, lists, gone, leaving, held, asking>>

(* A device that went: its queue stopped and the device closed, whatever   *)
(* the close says; then off every list, and only then does the run hear.   *)
GiveItBack ==
  /\ cpc = "Gone"
  /\ leaving = {}
  /\ \E d \in gone :
       /\ leaving' = {[device |-> d, at |-> Place(d)]}
       /\ seized' = seized \ {d}
       /\ queued' = [queued EXCEPT ![d] = <<>>]
  /\ UNCHANGED <<plugged, cpc, here, arriving, lists, ready, gone, held,
                 asking, stream>>

ForgetIt ==
  /\ cpc = "Gone"
  /\ \E l \in leaving :
       /\ ~OffTheEnd(l.at)
       /\ TakeOff(l.at)
       /\ watched' = {h \in watched : h.device # l.device}
       /\ pending' = {h \in pending : h.device # l.device}
       /\ gone' = gone \ {l.device}
       /\ Deliver(<<Lost(Number(l.device))>>)
  /\ leaving' = {}
  /\ cpc' = Phase({}, {}, gone')
  /\ UNCHANGED <<machine, seized, here, arriving, known, ready, asking>>

(* The thread goes, and leaves the list's lock poisoned.                   *)
ThreadPanics ==
  /\ cpc = "Gone"
  /\ \E l \in leaving : OffTheEnd(l.at)
  /\ leaving' = {}
  /\ cpc' = "Panicked"
  /\ UNCHANGED <<machine, seized, here, arriving, lists, ready, gone, held, asking,
                 stream>>

-----------------------------------------------------------------------------
Machine == \E d \in Lively : PlugIn(d) \/ PullOut(d) \/ Type(d)

Capturing ==
  \/ AskToBeTold \/ LookAtTheDevicesHere
  \/ TurnTheLoop
  \/ NothingMoreAsked \/ Seize \/ StartReading
  \/ DrainDevices \/ DrainValues \/ GiveItBack \/ ForgetIt
  \/ ThreadPanics
=============================================================================
