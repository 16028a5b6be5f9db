------------------------------ MODULE SinkRun ------------------------------
(***************************************************************************)
(* One run of the converting machine (run, watch and what they call in     *)
(* engine/src/sink.rs), from the switch to the keyboards given back, with  *)
(* the thread that reads the keyboards (Keyboards) beside it.  What the    *)
(* converter makes of a key is Converter's and how the output comes up is  *)
(* Output's: here a key held on an attached keyboard is a key held at the  *)
(* OS for as long as the connection it was written to lasts.               *)
(***************************************************************************)
EXTENDS Keyboards

CONSTANTS
  Wanted,         \* the devices that are keyboards no setting leaves alone
  Requests,       \* what a run may be asked for, of AllRequests
  EventsPerLook,  \* a bound of the model: events handled within RESPONSIVENESS
  Causes,         \* a bound of the model: which of AllCauses the world brings
  MaxCauses       \* a bound of the model: how many of them at a time

AllRequests == {"Watch", "DryRun", "Injecting"}
AllCauses == {"SwitchedOff", "AskedToStop", "Stops", "Wedges", "LinkGone"}

ASSUME SinkRunAssumption ==
  /\ Wanted \subseteq Devices
  /\ Requests \subseteq AllRequests
  /\ EventsPerLook \in Nat
  /\ Causes \subseteq AllCauses
  /\ MaxCauses \in Nat

VARIABLES
  mode,         \* the request this run was started with
  \* the machine
  on,           \* whether converting is switched on
  stop,         \* whether a stop was asked for
  up,           \* what the run's bound does, once it has come
  output,       \* the connection to the output device
  os,           \* the devices whose key the OS was told is down
  serving,      \* whether the link's loop is turning, or has come back
  \* the run
  rpc,
  ending,
  untried,      \* JustBack: a connection nothing has been seen to cross
  stopped,      \* Facts: the link's loop has come back
  sinceLook,    \* events handled since the last look
  attached, down, \* the converter's keyboards, and those whose key it holds
  hand,         \* the handle being given back
  place         \* where on the list of those held it was found

world == <<on, stop, up, serving>>
sink == <<attached, down>>
giving == <<hand, place>>
rvars == <<mode, world, output, os, rpc, ending, untried, stopped, sinceLook,
           sink, giving>>
vars == <<kvars, rvars>>

Injecting == mode = "Injecting"
Opened == Injecting   \* whether asking about the output means anything

Init ==
  /\ KInit
  /\ mode \in Requests
  /\ on \in BOOLEAN
  /\ stop = FALSE /\ up = "NotYet"
  /\ output = "Unopened" /\ os = {}
  /\ serving = "No"
  /\ rpc = "Switch" /\ ending = "None"
  /\ untried = FALSE /\ stopped = FALSE
  /\ sinceLook = EventsPerLook   \* the first event is one to look after
  /\ attached = {} /\ down = {}
  /\ hand = {} /\ place = {}

-----------------------------------------------------------------------------
(* The world the run looks at.                                             *)
Running == rpc \notin {"Over", "Parked", "Panicked"}
Looking == Running /\ rpc \notin {"ReleaseAll", "GiveBack", "Closing", "TakingOff"}
Present == {c \in AllCauses :
  CASE c = "SwitchedOff" -> ~on
    [] c = "AskedToStop" -> stop
    [] c = "LinkGone" -> serving = "Returned"
    [] OTHER -> up = c}
Comes(c) == Looking /\ c \in Causes /\ Cardinality(Present) < MaxCauses

Switch ==
  /\ Looking /\ (on => Comes("SwitchedOff"))
  /\ on' = ~on
  /\ UNCHANGED <<kvars, mode, stop, up, serving, output, os, rpc, ending, untried,
                 stopped, sinceLook, sink, giving>>

AskToStop ==
  /\ ~stop /\ Comes("AskedToStop")
  /\ stop' = TRUE
  /\ UNCHANGED <<kvars, mode, on, up, serving, output, os, rpc, ending, untried,
                 stopped, sinceLook, sink, giving>>

BoundComesUp ==
  /\ up = "NotYet"
  /\ up' \in {"Stops", "Wedges"} /\ Comes(up')
  /\ UNCHANGED <<kvars, mode, on, stop, serving, output, os, rpc, ending, untried,
                 stopped, sinceLook, sink, giving>>

(* The service takes its devices, and the keys down on them, with it.      *)
OutputGoes ==
  /\ Running /\ output = "Up"
  /\ output' = "Gone"
  /\ os' = {}
  /\ UNCHANGED <<kvars, mode, world, rpc, ending, untried, stopped, sinceLook, sink,
                 giving>>

(* The link's loop comes back behind everything it delivered.              *)
LinkReturns ==
  /\ serving = "Turning" /\ Comes("LinkGone")
  /\ serving' = "Returned"
  /\ Deliver(<<AlongsideStopped>>)
  /\ UNCHANGED <<machine, seized, cpc, here, arriving, lists, ready, gone, leaving,
                 held, asking, mode, on, stop, up, output, os, rpc, ending, untried,
                 stopped, sinceLook, sink, giving>>

-----------------------------------------------------------------------------
(* Bringing the machine up: nothing is opened before the switch and the    *)
(* permission, nothing is taken before there is somewhere to type.         *)
GoTo(pc) == rpc' = pc /\ UNCHANGED ending
EndUnreleased(e) ==   \* mutant: the keys are left down
  /\ ending' = e
  /\ rpc' = IF cpc = "Unstarted" THEN "Over" ELSE "GiveBack"
EndWith(e) ==
  /\ ending' = e
  /\ rpc' = IF cpc = "Unstarted" THEN "Over"
            ELSE IF mode = "Watch" THEN "GiveBack" ELSE "ReleaseAll"

SwitchedOff ==
  /\ rpc = "Switch"
  /\ \/ on /\ GoTo("Permission")
     \/ ~on /\ (up # "NotYet" \/ stop) /\ EndWith("SwitchedOff")
  /\ UNCHANGED <<kvars, mode, world, output, os, untried, stopped, sinceLook, sink,
                 giving>>

TakesFirst ==   \* mutant: the keyboards before the output
  /\ rpc = "Permission"
  /\ \/ GoTo("Look")
     \/ EndWith("NoPermission")
  /\ UNCHANGED <<kvars, mode, world, output, os, untried, stopped, sinceLook, sink,
                 giving>>

MayReadInput ==
  /\ rpc = "Permission"
  /\ \/ GoTo(IF Injecting THEN "Output" ELSE "Look")
     \/ EndWith("NoPermission")
  /\ UNCHANGED <<kvars, mode, world, output, os, untried, stopped, sinceLook, sink,
                 giving>>

BringUpTheOutput ==
  /\ rpc = "Output"
  /\ \/ output' = "Up" /\ GoTo("Link")
     \/ UNCHANGED output /\ EndWith("NoOutput")
  /\ UNCHANGED <<kvars, mode, world, os, untried, stopped, sinceLook, sink, giving>>

(* Without an identity or a socket the run goes on with no link.           *)
Listen ==
  /\ rpc = "Link"
  /\ serving' \in {"No", "Turning"}
  /\ GoTo("Look")
  /\ UNCHANGED <<kvars, mode, on, stop, up, output, os, untried, stopped, sinceLook,
                 sink, giving>>

LookForDevices ==
  /\ rpc = "Look"
  /\ GoTo("Wait")
  /\ cpc' = "Asking"
  /\ UNCHANGED <<machine, seized, here, arriving, lists, ready, gone, leaving, held,
                 asking, stream, mode, world, output, os, untried, stopped, sinceLook,
                 sink, giving>>

-----------------------------------------------------------------------------
(* The loop: one event, or nothing within RESPONSIVENESS.                  *)
Next1 == Head(stream)
Absorbed == {"Delay", "AlongsideStopped"}
Resolves(e) == IF e.what = "Done" THEN FALSE
               ELSE e.what = "Found" => known[e.device + 1] \in Wanted
TheAskShared(n) == Take(n, FALSE)   \* mutant
TheAsk(n) == Take(n, Injecting)

(* A quarter of a second without a look is a look, whatever arrives.       *)
AfterAnEvent ==
  \/ /\ sinceLook < EventsPerLook
     /\ sinceLook' = sinceLook + 1
     /\ GoTo("Wait")
  \/ /\ sinceLook' = 0
     /\ GoTo("LookIn")

Writes == os' = IF output = "Up" THEN down' ELSE os

(* What arrives and says nothing is passed over without a look, unless the *)
(* run converts nothing anyway.                                            *)
PassedOver == IF mode = "Watch" THEN AfterAnEvent ELSE GoTo("Wait") /\ UNCHANGED sinceLook

Quietly == <<machine, seized, cpc, here, arriving, lists, ready, gone, leaving, held>>

TakesInAFact ==
  /\ rpc = "Wait" /\ stream # <<>> /\ Next1.what \in Absorbed
  /\ stream' = Tail(stream)
  /\ stopped' = (stopped \/ Next1.what = "AlongsideStopped")
  /\ GoTo("LookIn")
  /\ UNCHANGED <<Quietly, asking, mode, world, output, os, untried, sinceLook, sink,
                 giving>>

MeansNothing ==
  /\ rpc = "Wait" /\ stream # <<>> /\ Next1.what \notin Absorbed
  /\ ~Resolves(Next1)
  /\ stream' = Tail(stream)
  /\ PassedOver
  /\ UNCHANGED <<Quietly, asking, mode, world, output, os, untried, stopped, sink,
                 giving>>

TakeDevice ==
  /\ rpc = "Wait" /\ stream # <<>> /\ Next1.what = "Found" /\ Resolves(Next1)
  /\ request' = TheAsk(Next1.device)
  /\ GoTo("Taking")
  /\ UNCHANGED <<Quietly, answering, reply, stream, mode, world, output, os, untried,
                 stopped, sinceLook, sink, giving>>

(* The run waits for the capture thread's answer; a way back that was      *)
(* dropped is a refusal.                                                   *)
Dropped == request = NoAsk /\ answering = NoAsk /\ reply = "None"
AnsweredOnly == reply # "None"   \* mutant
Answered == reply # "None" \/ Dropped

Taken ==
  /\ rpc = "Taking" /\ Answered
  /\ reply' = "None"
  /\ IF reply = "Yes"
     THEN /\ request' = Read(Next1.device)
          /\ GoTo("Reading")
          /\ UNCHANGED <<stream, sinceLook>>
     ELSE /\ stream' = Tail(stream)
          /\ PassedOver
          /\ UNCHANGED request
  /\ UNCHANGED <<Quietly, answering, mode, world, output, os, untried, stopped, sink,
                 giving>>

BeingReadByOthers ==   \* mutant: a run that delivers nowhere attaches nothing
  /\ rpc = "Reading" /\ Answered
  /\ reply' = "None"
  /\ stream' = Tail(stream)
  /\ attached' = IF Injecting /\ reply = "Yes" THEN attached \cup {Next1.device} ELSE attached
  /\ IF reply = "Yes" THEN AfterAnEvent ELSE PassedOver
  /\ UNCHANGED <<Quietly, request, answering, mode, world, output, os, untried, stopped,
                 down, giving>>

BeingRead ==
  /\ rpc = "Reading" /\ Answered
  /\ reply' = "None"
  /\ stream' = Tail(stream)
  /\ IF reply = "Yes"
     THEN /\ attached' = attached \cup {Next1.device}
          /\ AfterAnEvent
     ELSE /\ PassedOver
          /\ UNCHANGED attached
  /\ UNCHANGED <<Quietly, request, answering, mode, world, output, os, untried, stopped,
                 down, giving>>

(* An event is handled before the look it may bring on.                    *)
Handle1 ==
  /\ rpc = "Wait" /\ stream # <<>> /\ Next1.what \in {"Value", "Lost", "Probe"}
  /\ stream' = Tail(stream)
  /\ down' = CASE mode = "Watch" -> down
             [] Next1.what = "Value" ->
                  IF Next1.down THEN down \cup {Next1.device} ELSE down \ {Next1.device}
             [] Next1.what = "Lost" -> down \ {Next1.device}
             [] Next1.what = "Probe" -> down
  /\ attached' = IF Next1.what = "Lost" THEN attached \ {Next1.device} ELSE attached
  /\ IF Injecting /\ down' # down THEN Writes ELSE UNCHANGED os
  /\ AfterAnEvent
  /\ UNCHANGED <<Quietly, asking, mode, world, output, untried, stopped, giving>>

NothingArrives ==
  /\ rpc = "Wait" /\ stream = <<>>
  /\ GoTo("LookIn")
  /\ UNCHANGED <<kvars, mode, world, output, os, untried, stopped, sinceLook, sink,
                 giving>>

-----------------------------------------------------------------------------
(* A look: the facts that make no event, in the order they are asked.  The *)
(* output is given one attempt at coming back for each time it was seen to *)
(* be there.                                                               *)
OutputGone == Opened /\ output # "Up"
Ended ==
  CASE OutputGone -> "OutputGone"
    [] stopped -> "LinkGone"
    [] up # "NotYet" -> IF up = "Wedges" THEN "Wedged" ELSE "Converted"
    [] stop -> "Converted"
    [] ~on -> "SwitchedOff"
    [] OTHER -> "None"

CarriesOn ==
  /\ rpc = "LookIn" /\ Ended = "None"
  /\ untried' = FALSE
  /\ GoTo("Wait")
  /\ UNCHANGED <<kvars, mode, world, output, os, stopped, sinceLook, sink, giving>>

Reconnect ==
  /\ rpc = "LookIn" /\ Ended = "OutputGone" /\ ~untried
  /\ \/ /\ output' = "Up"
        /\ untried' = TRUE
        /\ GoTo("Wait")
     \/ /\ EndWith("OutputGone")
        /\ UNCHANGED <<output, untried>>
  /\ UNCHANGED <<kvars, mode, world, os, stopped, sinceLook, sink, giving>>

Refused ==
  /\ rpc = "LookIn" /\ Ended = "OutputGone" /\ untried
  /\ EndWith("OutputGone")
  /\ UNCHANGED <<kvars, mode, world, output, os, untried, stopped, sinceLook, sink,
                 giving>>

EndsMeanwhile ==
  /\ rpc = "LookIn" /\ Ended \notin {"None", "OutputGone", "Wedged"}
  /\ EndWith(Ended)
  /\ UNCHANGED <<kvars, mode, world, output, os, untried, stopped, sinceLook, sink,
                 giving>>

Park ==
  /\ rpc = "LookIn" /\ Ended = "Wedged"
  /\ GoTo("Parked")
  /\ UNCHANGED <<kvars, mode, world, output, os, untried, stopped, sinceLook, sink,
                 giving>>

-----------------------------------------------------------------------------
(* The end: every key released at the OS, then the keyboards given back,   *)
(* the last one taken first, stopping at the first that would not close.   *)
ReleaseEverything ==
  /\ rpc = "ReleaseAll"
  /\ down' = {}
  /\ IF Injecting THEN Writes ELSE UNCHANGED os
  /\ GoTo("GiveBack")
  /\ UNCHANGED <<kvars, mode, world, output, untried, stopped, sinceLook, attached,
                 giving>>

Poisoned == cpc = "Panicked"   \* the thread panicked with the list in hand

AllButOne ==   \* mutant: off by one
  /\ rpc = "GiveBack" /\ ~Poisoned
  /\ \/ /\ Len(held) > 1
        /\ hand' = {Last(held)}
        /\ GoTo("Closing")
     \/ /\ Len(held) <= 1
        /\ GoTo("Over")
        /\ UNCHANGED hand
  /\ UNCHANGED <<kvars, mode, world, output, os, untried, stopped, sinceLook, sink,
                 place>>

NextHeld ==
  /\ rpc = "GiveBack" /\ ~Poisoned
  /\ \/ /\ held # <<>>
        /\ hand' = {Last(held)}
        /\ GoTo("Closing")
     \/ /\ held = <<>>
        /\ GoTo("Over")
        /\ UNCHANGED hand
  /\ UNCHANGED <<kvars, mode, world, output, os, untried, stopped, sinceLook, sink,
                 place>>

GivenBackAnyway(h, went) ==   \* mutant: whatever the close said
  place' = Place(h.device)
(* Off the list only where the close went, if it is on the list still.     *)
GivenBack(h, went) ==
  place' = IF went THEN Place(h.device) ELSE {}

Close ==
  /\ rpc = "Closing"
  /\ \E h \in hand, went \in BOOLEAN :
       /\ seized' = IF went THEN seized \ {h.device} ELSE seized
       /\ GivenBack(h, went)
       /\ GoTo(IF went /\ Poisoned THEN "Panicked" ELSE IF place' # {} THEN "TakingOff"
               ELSE IF went THEN "GiveBack" ELSE "Over")
  /\ hand' = {}
  /\ UNCHANGED <<machine, cpc, here, arriving, lists, ready, gone, leaving, held,
                 asking, stream, mode, world, output, os, untried, stopped, sinceLook,
                 sink>>

TakesItOff ==
  /\ rpc = "TakingOff" /\ ~Poisoned /\ ~OffTheEnd(place)
  /\ TakeOff(place)
  /\ place' = {}
  /\ GoTo("GiveBack")
  /\ UNCHANGED <<machine, seized, cpc, here, arriving, lists, ready, gone, leaving,
                 asking, stream, mode, world, output, os, untried, stopped, sinceLook,
                 sink, hand>>

(* The process goes with this thread, and what it held with the process.   *)
Panics ==
  /\ \/ rpc = "GiveBack" /\ Poisoned
     \/ rpc = "TakingOff" /\ (Poisoned \/ OffTheEnd(place))
  /\ GoTo("Panicked")
  /\ UNCHANGED <<kvars, mode, world, output, os, untried, stopped, sinceLook, sink,
                 giving>>

-----------------------------------------------------------------------------
World ==
  \/ Switch \/ AskToStop \/ BoundComesUp \/ OutputGoes \/ LinkReturns
  \/ Running /\ Machine /\ UNCHANGED rvars

Capture == rpc \notin {"Over", "Panicked"} /\ Capturing /\ UNCHANGED rvars

Run ==
  \/ SwitchedOff \/ MayReadInput \/ BringUpTheOutput \/ Listen \/ LookForDevices
  \/ TakesInAFact \/ MeansNothing \/ TakeDevice \/ Taken \/ BeingRead \/ Handle1
  \/ NothingArrives
  \/ CarriesOn \/ Reconnect \/ Refused \/ EndsMeanwhile \/ Park
  \/ ReleaseEverything \/ NextHeld \/ Close \/ TakesItOff \/ Panics

Next == World \/ Capture \/ Run

(* Both threads go on being scheduled, and a process that is over takes    *)
(* what it held with it; nothing else is promised.                         *)
Spec == Init /\ [][Next]_vars /\ WF_vars(Capture) /\ WF_vars(Run)

-----------------------------------------------------------------------------
TypeOK ==
  /\ plugged \in [Devices -> {"Away", "Here", "Gone"}]
  /\ seized \subseteq Devices
  /\ queued \in [Devices -> {<<>>, <<TRUE>>, <<FALSE>>}]
  /\ cpc \in {"Unstarted", "Asking", "Listing", "Failed", "Devices", "Values", "Gone",
              "Turn", "Asks", "Panicked"}
  /\ IsInjective(known) /\ Range(known) \subseteq Devices
  /\ pending \cap watched = {}
  /\ \A h \in pending \cup watched \cup Range(held) : known[h.id + 1] = h.device
  /\ ready \subseteq DevicesOf(watched)
  /\ Cardinality(leaving) <= 1 /\ DevicesOf(leaving) \subseteq gone
  /\ output \in {"Unopened", "Up", "Gone"}
  /\ attached \cup down \cup os \subseteq 0..Len(known) - 1
  /\ sinceLook \in 0..EventsPerLook
  /\ (hand # {}) = (rpc = "Closing")
  /\ place # {} => rpc \in {"TakingOff", "Panicked"}

(* What this run takes away it can give back: a device open exclusively is *)
(* on the list the end goes through, unless the capture thread has it in   *)
(* hand, whichever way an open or a close went.  Nothing is taken before   *)
(* there is somewhere to type.                                             *)
WhatIsTakenIsKept ==
  /\ TypeOK
  /\ seized \subseteq DevicesOf(Range(held))
  /\ (seized # {} => output # "Unopened")

InOrder(n, i) ==
  LET before == {stream[j] : j \in 1..i - 1}
  IN Lost(n) \notin before /\ (n \in attached \/ Found(n) \in before)
ValuesHaveAKeyboard ==
  \A i \in DOMAIN stream : stream[i].what = "Value" => InOrder(stream[i].device, i)

(* Nothing is typed twice: a key this run has down at the OS is a key of a *)
(* keyboard nothing else reads, or of one that is gone.  And nothing typed *)
(* is lost on the converter: a value comes from a keyboard it was told of  *)
(* and has not been told the loss of.                                      *)
NeverTypedTwice ==
  /\ \A n \in os : known[n + 1] \in seized \/ plugged[known[n + 1]] = "Gone"
  /\ ValuesHaveAKeyboard

(* A stop is heeded, however busy the keyboards are and whatever the       *)
(* output does, by a run that was not told to hang.                        *)
StopIsHeeded == stop ~> ~Running
=============================================================================
