-------------------------------- MODULE Link --------------------------------
(***************************************************************************)
(* What the forwarding machine tells the converting one over a link that   *)
(* may stop at any record (engine/src/source.rs Forwarding and the writes  *)
(* of relay; engine/src/link.rs serve; what sink.rs keeps of a device at   *)
(* the other end).                                                         *)
(*                                                                         *)
(* Each send is a step of its own, so the sink and the network move        *)
(* between two messages of one event.  A record opens in order or not at   *)
(* all: after a send that failed, every later one on that session is       *)
(* Unopenable.  A record sent into a connection the other end has gone     *)
(* from is lost, and whether the sender hears of it is its luck.           *)
(*                                                                         *)
(* Devices, keys and buttons are as the run reads them off its stream; the *)
(* chord and what is refused meanwhile are Source's.  A pointer has one    *)
(* button.                                                                 *)
(***************************************************************************)
EXTENDS Naturals, Sequences, SequencesExt

CONSTANTS
  Keyboard,  \* the devices keys come from
  Mouse,     \* the devices pointer reports come from
  Key,       \* the keys a keyboard has
  Room,      \* records the connection holds between the two machines
  Idle       \* the waits in a row with nothing sent that make the sink's
             \* thirty seconds of silence, from 120 of RUN_BOUND_POLL upward

ASSUME DeviceAssumption == Keyboard \cap Mouse = {}
ASSUME RoomAssumption == Room \in Nat \ {0}
ASSUME IdleAssumption == Idle \in Nat \ {0}

Device == Keyboard \cup Mouse

VARIABLES
  attached,   \* the devices this end was told of, and the kind of
  fingers,    \* the keys that are down
  announced,  \* the ones the sink was told of over the link that is up now
  held,       \* the keys each is holding, as the sink believes them
  dragging,   \* the pointers whose last relayed report had the button down
  driving,    \* whose the keyboard is, or that it is being let go of
  out,        \* what the last event turned into, not yet sent
  session,    \* whether this end has a session open
  cut,        \* nothing sent from here on arrives
  gap,        \* a record of this session was never sent, so none opens
  wire,       \* the records on their way
  quiet,      \* waits in a row that sent nothing
  serving,    \* whether the sink is reading a session
  seen,       \* the devices it has mentioned
  releasing,  \* the devices of the last session not yet said to be lost
  mirrored,   \* the devices the converter has been told of
  sinkHeld,   \* the keys it holds for each
  sinkButton  \* whether the last report it relayed had the button down

forwarding == <<attached, announced, held, dragging>>
network == <<session, cut, gap, wire, quiet>>
sink == <<serving, seen, releasing, mirrored, sinkHeld, sinkButton>>
vars == <<fingers, forwarding, driving, out, network, sink>>

Attached(d) == [kind |-> "Attached", device |-> d]
Detached(d) == [kind |-> "Detached", device |-> d]
KeyDown(d, k) == [kind |-> "KeyDown", device |-> d, key |-> k]
KeyUp(d, k) == [kind |-> "KeyUp", device |-> d, key |-> k]
Pointer(d, down) == [kind |-> "Pointer", device |-> d, down |-> down]
StillHere == [kind |-> "StillHere"]
Unopenable == [kind |-> "Unopenable"]

Input ==
  [kind : {"Attached", "Detached"}, device : Device]
    \cup [kind : {"KeyDown", "KeyUp"}, device : Keyboard, key : Key]
    \cup [kind : {"Pointer"}, device : Mouse, down : BOOLEAN]
Sealed == Input \cup [kind : {"StillHere", "Unopenable"}]

NothingHeld == [d \in Device |-> <<>>]

Init ==
  /\ fingers = {}
  /\ attached = {} /\ announced = {} /\ held = NothingHeld /\ dragging = {}
  /\ driving = "Here" /\ out = <<>>
  /\ session = FALSE /\ cut = TRUE /\ gap = FALSE /\ wire = <<>> /\ quiet = 0
  /\ serving = FALSE /\ seen = {} /\ releasing = {}
  /\ mirrored = {} /\ sinkHeld = [d \in Device |-> {}] /\ sinkButton = FALSE

-----------------------------------------------------------------------------
(* Reading one event.  Nothing is read while a message is still to go, or  *)
(* while a link is looked for.                                             *)

Reads == out = <<>> /\ (driving = "Here" \/ (driving = "There" /\ session))

Quieter == IF quiet < Idle THEN quiet + 1 ELSE quiet

(* note, and what of relay sends nothing.                                  *)
SaysNothing ==
  /\ quiet' = Quieter
  /\ UNCHANGED <<out, session, cut, gap, wire>>
Says(messages) ==
  /\ out' = messages
  /\ UNCHANGED network

(* An announcement in front of what is relayed, if the link that is up has *)
(* not had it.                                                             *)
Announces(d) == d \in attached \ announced
Announced(d, m) == IF Announces(d) THEN <<Attached(d), m>> ELSE <<m>>
Relays(d, m) ==
  /\ Says(Announced(d, m))
  /\ announced' = IF Announces(d) THEN announced \cup {d} ELSE announced

Attach(d) ==
  /\ Reads
  /\ d \notin attached
  /\ attached' = attached \cup {d}
  /\ held' = [held EXCEPT ![d] = <<>>]
  /\ IF driving = "There"
     THEN Says(<<Attached(d)>>) /\ announced' = announced \cup {d}
     ELSE SaysNothing /\ UNCHANGED announced
  /\ UNCHANGED <<fingers, dragging, driving, sink>>

(* The keys under a keyboard torn out come up with nothing said of them.   *)
Detach(d) ==
  /\ Reads
  /\ d \in attached
  /\ attached' = attached \ {d}
  /\ fingers' = {f \in fingers : f[1] # d}
  /\ announced' = announced \ {d}
  /\ held' = [held EXCEPT ![d] = <<>>]
  /\ dragging' = dragging \ {d}
  /\ IF driving = "There" /\ d \in announced THEN Says(<<Detached(d)>>)
     ELSE SaysNothing
  /\ UNCHANGED <<driving, sink>>

Holds(d, k) == \E i \in 1..Len(held[d]) : held[d][i] = k

(* A press, or the platform's auto-repeat of one.                          *)
KeyGoesDown(d, k) ==
  /\ Reads
  /\ d \in attached
  /\ fingers' = fingers \cup {<<d, k>>}
  /\ IF driving = "There" /\ ~Holds(d, k)
     THEN held' = [held EXCEPT ![d] = Append(@, k)] /\ Relays(d, KeyDown(d, k))
     ELSE SaysNothing /\ UNCHANGED <<held, announced>>
  /\ UNCHANGED <<attached, dragging, driving, sink>>

KeyComesUp(d, k) ==
  /\ Reads
  /\ <<d, k>> \in fingers
  /\ fingers' = fingers \ {<<d, k>>}
  /\ IF driving = "There" /\ Holds(d, k)
     THEN /\ \E i \in 1..Len(held[d]) :
               held[d][i] = k /\ held' = [held EXCEPT ![d] = RemoveAt(@, i)]
          /\ Relays(d, KeyUp(d, k))
     ELSE SaysNothing /\ UNCHANGED <<held, announced>>
  /\ UNCHANGED <<attached, dragging, driving, sink>>

(* A report without motion is worth sending only where the button changed. *)
Points(d, down, still) ==
  /\ Reads
  /\ d \in attached
  /\ IF driving = "There"
     THEN /\ dragging' = IF down THEN dragging \cup {d} ELSE dragging \ {d}
          /\ IF still /\ (down <=> d \in dragging)
             THEN SaysNothing /\ UNCHANGED announced
             ELSE Relays(d, Pointer(d, down))
     ELSE SaysNothing /\ UNCHANGED <<dragging, announced>>
  /\ UNCHANGED <<attached, fingers, held, driving, sink>>

AskForTheSink ==
  /\ Reads
  /\ driving = "Here"
  /\ driving' = "There"
  /\ SaysNothing
  /\ UNCHANGED <<fingers, forwarding, sink>>

AskForThisMachine ==
  /\ Reads
  /\ driving = "There"
  /\ driving' = "LettingGo"
  /\ SaysNothing
  /\ UNCHANGED <<fingers, forwarding, sink>>

-----------------------------------------------------------------------------
(* The link, from this end.                                                *)

(* seal_and_send.  A send that waits for room goes or times out.           *)
HandOver(m, went) ==
  /\ went => cut \/ Len(wire) < Room
  /\ wire' = IF went /\ ~cut THEN Append(wire, IF gap THEN Unopenable ELSE m)
             ELSE wire
  /\ gap' = (gap \/ ~went)
  /\ quiet' = IF went THEN 0 ELSE quiet
  /\ UNCHANGED cut

(* A message of the event being relayed.  The first that does not go ends  *)
(* the session, and the rest of the event with it.                         *)
Send(went) ==
  /\ out # <<>>
  /\ HandOver(Head(out), went)
  /\ out' = IF went THEN Tail(out) ELSE <<>>
  /\ session' = went
  /\ UNCHANGED <<fingers, forwarding, driving, sink>>

(* let_go, one message at a time and whether or not each one goes.         *)
LetGoOfAKey(d, went) ==
  /\ driving = "LettingGo"
  /\ held[d] # <<>>
  /\ HandOver(KeyUp(d, Last(held[d])), went)
  /\ held' = [held EXCEPT ![d] = Front(@)]
  /\ UNCHANGED <<fingers, attached, announced, dragging, driving, out, session, sink>>

LetGoOfAButton(d, went) ==
  /\ driving = "LettingGo"
  /\ d \in dragging
  /\ HandOver(Pointer(d, FALSE), went)
  /\ dragging' = dragging \ {d}
  /\ UNCHANGED <<fingers, attached, announced, held, driving, out, session, sink>>

ForgetsToLetGo == TRUE                         \* mutant
HasLetGo == dragging = {} /\ \A d \in Device : held[d] = <<>>
ComeBack ==
  /\ driving = "LettingGo"
  /\ HasLetGo
  /\ driving' = "Here"
  /\ UNCHANGED <<fingers, forwarding, out, network, sink>>

(* A wait that came back empty.  The keyboard being here, it is said that  *)
(* this end still is; the sink's, nothing is said.                         *)
WaitHere(went) ==
  /\ Reads
  /\ driving = "Here"
  /\ session
  /\ HandOver(StillHere, went)
  /\ session' = went
  /\ UNCHANGED <<fingers, forwarding, driving, out, sink>>

WaitThere ==
  /\ Reads
  /\ driving = "There"
  /\ SaysNothing
  /\ UNCHANGED <<fingers, forwarding, driving, sink>>

(* A link comes up, the sink being back at its listener; a sink that has   *)
(* not paired this machine answers the handshake and lets it go.           *)
KeptAnnounced == announced                     \* mutant
NewlyAnnounced == {}
KeptHeld == held                               \* mutant
NewlyHeld == NothingHeld
LinkComes(paired) ==
  /\ driving = "There"
  /\ ~session
  /\ ~serving /\ releasing = {}
  /\ session' = TRUE
  /\ announced' = NewlyAnnounced
  /\ held' = NewlyHeld
  /\ cut' = ~paired /\ gap' = FALSE /\ wire' = <<>> /\ quiet' = 0
  /\ serving' = paired /\ seen' = {}
  /\ UNCHANGED <<fingers, attached, dragging, driving, out,
                 releasing, mirrored, sinkHeld, sinkButton>>

(* The network stops: some of what was on its way still arrives.           *)
CutOff(n) ==
  /\ serving
  /\ ~cut
  /\ cut' = TRUE
  /\ wire' = SubSeq(wire, 1, n)
  /\ UNCHANGED <<fingers, forwarding, driving, out, session, gap, quiet, sink>>

-----------------------------------------------------------------------------
(* The sink.  A delivered record is converted as it is delivered: the      *)
(* stream keeps its order, and no other device has one of these names.     *)

Taken(m) ==
  /\ seen' = CASE m.kind = "StillHere" -> seen
               [] m.kind = "Detached" -> seen \ {m.device}
               [] OTHER -> seen \cup {m.device}
  /\ mirrored' = CASE m.kind = "Attached" -> mirrored \cup {m.device}
                   [] m.kind = "Detached" -> mirrored \ {m.device}
                   [] OTHER -> mirrored
  /\ sinkHeld' = CASE m.kind = "KeyDown" ->
                        [sinkHeld EXCEPT ![m.device] = @ \cup {m.key}]
                   [] m.kind = "KeyUp" ->
                        [sinkHeld EXCEPT ![m.device] = @ \ {m.key}]
                   [] m.kind = "Detached" ->
                        [sinkHeld EXCEPT ![m.device] = {}]
                   [] OTHER -> sinkHeld
  /\ sinkButton' = IF m.kind = "Pointer" THEN m.down ELSE sinkButton

Take ==
  /\ serving
  /\ wire # <<>>
  /\ Head(wire) # Unopenable
  /\ Taken(Head(wire))
  /\ wire' = Tail(wire)
  /\ UNCHANGED <<fingers, forwarding, driving, out, session, cut, gap, quiet,
                 serving, releasing>>

(* The session is over, whichever way: a record that does not open, the    *)
(* connection closed or dead, or a silence as long as the read allows.     *)
ReleasedUnlessRefused == IF wire = <<>> THEN seen ELSE {}  \* mutant
Lost == seen
SessionEnds ==
  /\ serving
  /\ IF wire = <<>> THEN cut \/ ~session \/ quiet = Idle
     ELSE Head(wire) = Unopenable
  /\ serving' = FALSE
  /\ releasing' = Lost
  /\ seen' = {}
  /\ cut' = TRUE
  /\ wire' = <<>>
  /\ UNCHANGED <<fingers, forwarding, driving, out, session, gap, quiet,
                 mirrored, sinkHeld, sinkButton>>

DeviceLost(d) ==
  /\ d \in releasing
  /\ releasing' = releasing \ {d}
  /\ mirrored' = mirrored \ {d}
  /\ sinkHeld' = [sinkHeld EXCEPT ![d] = {}]
  /\ UNCHANGED <<fingers, forwarding, driving, out, network, serving, seen, sinkButton>>

-----------------------------------------------------------------------------
Person ==
  \/ \E d \in Device : Attach(d) \/ Detach(d)
  \/ \E d \in Keyboard, k \in Key : KeyGoesDown(d, k) \/ KeyComesUp(d, k)
  \/ \E d \in Mouse, down, still \in BOOLEAN : Points(d, down, still)
  \/ AskForTheSink
  \/ AskForThisMachine

Run ==
  \/ \E went \in BOOLEAN : Send(went) \/ WaitHere(went)
  \/ \E d \in Keyboard, went \in BOOLEAN : LetGoOfAKey(d, went)
  \/ \E d \in Mouse, went \in BOOLEAN : LetGoOfAButton(d, went)
  \/ ComeBack
  \/ WaitThere

Serve ==
  \/ Take
  \/ SessionEnds
  \/ \E d \in Device : DeviceLost(d)

Network ==
  \/ \E paired \in BOOLEAN : LinkComes(paired)
  \/ \E n \in 0..Len(wire) : CutOff(n)

Next == Person \/ Run \/ Serve \/ Network

(* Both programs are scheduled.  The person may stop at any moment, and no *)
(* link need ever come or be cut.                                          *)
Spec == Init /\ [][Next]_vars /\ WF_vars(Run) /\ WF_vars(Serve)

-----------------------------------------------------------------------------
(* Every variable has its type.                                            *)
TypeOK ==
  /\ attached \in SUBSET Device
  /\ fingers \in SUBSET (Keyboard \X Key)
  /\ announced \in SUBSET Device
  /\ held \in [Device -> Seq(Key)]
  /\ dragging \in SUBSET Mouse
  /\ driving \in {"Here", "There", "LettingGo"}
  /\ out \in Seq(Input)
  /\ session \in BOOLEAN /\ cut \in BOOLEAN /\ gap \in BOOLEAN
  /\ wire \in Seq(Sealed)
  /\ quiet \in 0..Idle
  /\ serving \in BOOLEAN
  /\ seen \in SUBSET Device
  /\ releasing \in SUBSET Device
  /\ mirrored \in SUBSET Device
  /\ sinkHeld \in [Device -> SUBSET Key]
  /\ sinkButton \in BOOLEAN

(* However a session ended, once its devices have been said to be lost the *)
(* sink holds no key of any of them and converts for none (ADR-0002).      *)
NothingLeftHeld ==
  ~serving /\ releasing = {} =>
    mirrored = {} /\ \A d \in Device : sinkHeld[d] = {}

(* What has been said on this session and the sink has not read.           *)
Said == wire \o out
About(m, d, k) == m \in {KeyDown(d, k), KeyUp(d, k), Detached(d)}
LastAbout(i, d, k) ==
  /\ About(Said[i], d, k)
  /\ \A j \in i + 1..Len(Said) : ~About(Said[j], d, k)

SameKeysDown ==
  session /\ ~cut /\ ~gap =>
    \A d \in Keyboard, k \in Key :
      Holds(d, k) <=>
        \/ \E i \in 1..Len(Said) : LastAbout(i, d, k) /\ Said[i] = KeyDown(d, k)
        \/ k \in sinkHeld[d] /\ \A i \in 1..Len(Said) : ~About(Said[i], d, k)

ToldOf(d, i) ==
  \/ \E j \in 1..i - 1 : /\ wire[j] = Attached(d)
                         /\ \A n \in j + 1..i - 1 : wire[n] # Detached(d)
  \/ d \in mirrored /\ \A n \in 1..i - 1 : wire[n] # Detached(d)
SaidOfAKeyboardItKnows ==
  \A i \in 1..Len(wire) : wire[i].kind = "KeyDown" => ToldOf(wire[i].device, i)

(* On a session nothing has been lost from, the keys this end believes the *)
(* sink holds are the ones it will hold when it has read what was said:    *)
(* what the next release, and letting go, are decided from.  And a key is  *)
(* only ever said of a keyboard the sink knows of by then, or the layout   *)
(* silently stops applying (ADR-0003).                                     *)
Agreement == SameKeysDown /\ SaidOfAKeyboardItKnows

(* A finger that comes off is a key that comes up on the sink, whatever    *)
(* became of the link and wherever the keyboard has gone since.            *)
FingerComesOff ==
  \A d \in Keyboard, k \in Key :
    (k \in sinkHeld[d] /\ <<d, k>> \notin fingers) ~> k \notin sinkHeld[d]
=============================================================================
