------------------------------- MODULE Source -------------------------------
(***************************************************************************)
(* The forwarding machine (engine/src/source.rs with the procedure Windows *)
(* calls, host-windows/src/suppress.rs): one keyboard, the machine it is   *)
(* plugged into and the sink it can drive instead.                         *)
(*                                                                         *)
(* Two threads run.  The procedure answers every stroke as it is made,     *)
(* under whatever is being refused at that moment, and hands it to the     *)
(* run; the run takes the strokes later, in order, and decides what is     *)
(* refused from then on.  The stream between the two is what every         *)
(* property here is about.  The pointer and the devices are Link's.        *)
(***************************************************************************)
EXTENDS Naturals, Sequences, FiniteSets, SequencesExt

CONSTANTS
  Key,          \* the keyboard's keys
  Option,       \* the option keys: the chord's modifier
  TheModifier,  \* the option key the machine is shown on coming back
  ToTheSink,    \* SWITCH_TO_THE_SINK, n
  BackHere,     \* SWITCH_BACK, s
  Backlog       \* strokes the run may be behind, which the code does not bound

ASSUME ChordAssumption ==
  /\ Option \subseteq Key
  /\ TheModifier \in Option
  /\ ToTheSink \in Key \ Option
  /\ BackHere \in Key \ Option
  /\ ToTheSink # BackHere
ASSUME BacklogAssumption == Backlog \in Nat

VARIABLES
  fingers,   \* the keys physically down
  refusing,  \* what the procedure refuses, one atomic number
  heldHere,  \* the keys this machine was let see go down and not yet up
  machine,   \* the keys this machine believes are down
  stream,    \* what was handed to the run and not yet taken
  place,     \* where the run is
  session,   \* whether a session with the sink is open
  option,    \* the option keys down, as far as the run has read
  held,      \* the keys the sink was told are down
  over,      \* the run has read that nothing more is coming
  bound      \* the time this run was given has passed

vars == <<fingers, refusing, heldHere, machine, stream, place, session, option,
          held, over, bound>>

KeyDown(k) == [kind |-> "KeyDown", key |-> k]
KeyUp(k) == [kind |-> "KeyUp", key |-> k]
Asked(driving) == [kind |-> "Asked", driving |-> driving]
NothingMore == [kind |-> "NothingMore"]        \* a Quit, or the capture gone

Driving == {"TheSink", "ThisMachine"}
Stroke == [kind : {"KeyDown", "KeyUp"}, key : Key]
Event == Stroke \cup [kind : {"Asked"}, driving : Driving] \cup {NothingMore}
Suppressing == {"Nothing", "TheSwitch", "Everything"}

(* Here: the keyboard is this machine's.  Looking: it was asked to go over *)
(* and there is no link.  There: it drives the sink.  Returning: the sink  *)
(* has been let go of and this machine is still refused everything.        *)
Place == {"Here", "Looking", "There", "Returning", "Ended"}

Init ==
  /\ fingers = {}
  /\ refusing = "TheSwitch"
  /\ heldHere = {}
  /\ machine = {}
  /\ stream = <<>>
  /\ place = "Here"
  /\ session = FALSE
  /\ option = {}
  /\ held = {}
  /\ over = FALSE
  /\ bound = FALSE

-----------------------------------------------------------------------------
(* The procedure.                                                          *)

IsTheSwitch(k) == k \in {ToTheSink, BackHere} /\ machine \cap Option # {}

RefusesEveryRelease(k, released) ==            \* mutant
  CASE refusing = "Everything" -> TRUE
    [] refusing = "TheSwitch" -> IsTheSwitch(k)
    [] refusing = "Nothing" -> FALSE
Refuses(k, released) ==
  CASE refusing = "Everything" -> ~(released /\ k \in heldHere)
    [] refusing = "TheSwitch" -> IsTheSwitch(k)
    [] refusing = "Nothing" -> FALSE

HandsOver(e) ==
  /\ Len(stream) < Backlog
  /\ stream' = Append(stream, e)

RunUnmoved == UNCHANGED <<refusing, place, session, option, held, over, bound>>

(* One stroke answered: handed over first, and then let see here or not.   *)
(* The tap that masks a refused chord goes down and up again, so it leaves *)
(* this machine believing what it did.                                     *)
Press(k) ==
  /\ HandsOver(KeyDown(k))
  /\ fingers' = fingers \cup {k}
  /\ IF Refuses(k, FALSE) THEN UNCHANGED <<heldHere, machine>>
     ELSE heldHere' = heldHere \cup {k} /\ machine' = machine \cup {k}
  /\ RunUnmoved

LetsGoHere(k) ==
  IF Refuses(k, TRUE) THEN UNCHANGED <<heldHere, machine>>
  ELSE heldHere' = heldHere \ {k} /\ machine' = machine \ {k}
Release(k) ==
  /\ k \in fingers
  /\ HandsOver(KeyUp(k))
  /\ fingers' = fingers \ {k}
  /\ LetsGoHere(k)
  /\ RunUnmoved

(* What reaches the stream from outside the keyboard: the tray item asking *)
(* for the keyboard, its Quit, and the capture thread going.               *)
AskFromOutside(e) ==
  /\ HandsOver(e)
  /\ UNCHANGED <<fingers, heldHere, machine>>
  /\ RunUnmoved

BoundPasses ==
  /\ ~bound
  /\ bound' = TRUE
  /\ UNCHANGED <<fingers, refusing, heldHere, machine, stream, place, session,
                 option, held, over>>

-----------------------------------------------------------------------------
(* The run.                                                                *)

(* Chording: the option keys down, and what one event asks for.            *)
Followed(e) ==
  CASE e.kind = "KeyDown" -> option \cup ({e.key} \cap Option)
    [] e.kind = "KeyUp" -> option \ {e.key}
    [] OTHER -> option
AskedByChordAlone(e) ==                        \* mutant: the tray item unheard
  IF e.kind # "KeyDown" \/ option = {} THEN "Neither"
  ELSE IF e.key = ToTheSink THEN "TheSink"
  ELSE IF e.key = BackHere THEN "ThisMachine" ELSE "Neither"
AskedFor(e) ==
  IF e.kind = "Asked" THEN e.driving
  ELSE IF e.kind # "KeyDown" \/ option = {} THEN "Neither"
  ELSE IF e.key = ToTheSink THEN "TheSink"
  ELSE IF e.key = BackHere THEN "ThisMachine" ELSE "Neither"

Arrives == stream # <<>> /\ Head(stream) # NothingMore
Took == stream' = Tail(stream)
Refuse(what) == refusing' = what
HandsUnmoved == UNCHANGED <<fingers, heldHere>>

(* An event while the keyboard is this machine's.                          *)
TakeHere ==
  LET asked == AskedFor(Head(stream)) IN
  /\ place = "Here"
  /\ Arrives
  /\ Took
  /\ option' = Followed(Head(stream))
  /\ IF asked # "TheSink" THEN UNCHANGED <<place, refusing>>
     ELSE IF session THEN place' = "There" /\ Refuse("Everything")
     ELSE place' = "Looking" /\ Refuse("Nothing")
  /\ HandsUnmoved
  /\ UNCHANGED <<machine, session, held, over, bound>>

(* A wait that came back empty.  What a Quit leaves behind is remembered.  *)
Empty == IF stream = <<>> THEN TRUE ELSE Head(stream) = NothingMore
CameBackEmpty ==
  /\ Empty
  /\ stream' = IF stream = <<>> THEN stream ELSE Tail(stream)
  /\ over' = (over \/ stream # <<>>)
  /\ HandsUnmoved
  /\ UNCHANGED <<machine, option, held, bound>>

(* The session goes with the run that held it.                             *)
Ends ==
  /\ place' = "Ended"
  /\ session' = FALSE
  /\ Refuse("Nothing")

(* With the keyboard here, an empty wait is when the session is kept: what *)
(* is sent to keep it may find that it has gone.                           *)
WaitHere ==
  /\ place = "Here"
  /\ CameBackEmpty
  /\ IF over' \/ bound THEN Ends
     ELSE /\ session' \in {session, FALSE}
          /\ UNCHANGED <<place, refusing>>

(* A link has just come up, so nothing has been said over it.              *)
OnANewLink == held' = {}
LinkComes ==
  /\ place = "Looking"
  /\ ~bound
  /\ session' = TRUE
  /\ OnANewLink
  /\ place' = "There"
  /\ Refuse("Everything")
  /\ HandsUnmoved
  /\ UNCHANGED <<machine, stream, option, over, bound>>

(* Nothing is looked for once the bound has passed.                        *)
StopLooking ==
  /\ place = "Looking"
  /\ bound
  /\ place' = "Ended"
  /\ HandsUnmoved
  /\ UNCHANGED <<refusing, machine, stream, session, option, held, over, bound>>

KeepsEverything == Refuse("Everything")        \* mutant
GivesBack == Refuse("Nothing")
LinkGone ==
  /\ session' = FALSE
  /\ place' = "Looking"
  /\ GivesBack

(* What the sink has been told after one event: an option it has not heard *)
(* of goes in front of a key pressed under it.                             *)
Relayed(e) ==
  CASE e.kind = "KeyDown" -> held \cup {e.key} \cup
                             (IF e.key \in Option THEN {} ELSE option)
    [] e.kind = "KeyUp" -> held \ {e.key}
    [] OTHER -> held

(* An event while the keyboard drives the sink, and neither chord.         *)
TakeThere ==
  LET e == Head(stream) IN
  /\ place = "There"
  /\ Arrives
  /\ AskedFor(e) = "Neither"
  /\ Took
  /\ option' = Followed(e)
  /\ held' = Relayed(e)
  /\ \/ UNCHANGED <<place, refusing, session>>
     \/ LinkGone
  /\ HandsUnmoved
  /\ UNCHANGED <<machine, over, bound>>

(* The chord for where the keyboard already is does nothing.               *)
TakeAgain ==
  /\ place = "There"
  /\ Arrives
  /\ AskedFor(Head(stream)) = "TheSink"
  /\ Took
  /\ HandsUnmoved
  /\ UNCHANGED <<refusing, machine, place, session, option, held, over, bound>>

(* Asked to come back: everything the sink was told is let go of, whether  *)
(* or not it gets through, and this machine is shown the modifier a finger *)
(* is still on.                                                            *)
LetGoOfNothing == UNCHANGED held               \* mutant
LetGo == held' = {}
WithTheModifier == IF option = {} THEN machine ELSE machine \cup {TheModifier}
ComeBack ==
  /\ place = "There"
  /\ Arrives
  /\ AskedFor(Head(stream)) = "ThisMachine"
  /\ Took
  /\ LetGo
  /\ machine' = WithTheModifier
  /\ place' = "Returning"
  /\ HandsUnmoved
  /\ UNCHANGED <<refusing, session, option, over, bound>>

Returned ==
  /\ place = "Returning"
  /\ place' = "Here"
  /\ Refuse("TheSwitch")
  /\ HandsUnmoved
  /\ UNCHANGED <<machine, stream, session, option, held, over, bound>>

(* An empty wait is when the recording is handed over, which may find that *)
(* the link has gone; only then is the run asked whether it is over.       *)
WaitThere ==
  /\ place = "There"
  /\ CameBackEmpty
  /\ \/ LinkGone
     \/ IF over' \/ bound THEN Ends
        ELSE UNCHANGED <<place, refusing, session>>

-----------------------------------------------------------------------------
Hands ==
  \/ \E k \in Key : Press(k)
  \/ \E k \in Key : Release(k)
  \/ \E driving \in Driving : AskFromOutside(Asked(driving))
  \/ AskFromOutside(NothingMore)
  \/ BoundPasses

Run ==
  \/ TakeHere
  \/ WaitHere
  \/ TakeThere
  \/ TakeAgain
  \/ ComeBack
  \/ Returned
  \/ WaitThere
  \/ StopLooking

Next == place # "Ended" /\ (Hands \/ LinkComes \/ Run)

(* The run's loop keeps turning.  Nothing promises that a finger moves, or *)
(* that a sink is ever found.                                              *)
Spec == Init /\ [][Next]_vars /\ WF_vars(Run)

-----------------------------------------------------------------------------
(* Every variable has its type.                                            *)
TypeOK ==
  /\ fingers \in SUBSET Key
  /\ refusing \in Suppressing
  /\ heldHere \in SUBSET Key
  /\ machine \in SUBSET Key
  /\ stream \in Seq(Event)
  /\ place \in Place
  /\ session \in BOOLEAN
  /\ option \in SUBSET Option
  /\ held \in SUBSET Key
  /\ over \in BOOLEAN
  /\ bound \in BOOLEAN

(* Nothing is refused but the chord unless a session carries it instead,   *)
(* or the run is on its way to giving it back: a keyboard is never taken   *)
(* from the machine it is plugged into and sent nowhere (ADR-0008).        *)
NeverSentNowhere ==
  refusing = "Everything" => place \in {"There", "Returning"} /\ session

(* A key this machine believes is down with no finger on it is the chord's *)
(* own: however the keyboard moves, and whatever is refused meanwhile, the *)
(* release of any other key the machine was let see reaches it (ADR-0013). *)
OthersComeUpHere ==
  machine \ fingers \subseteq Option \cup {ToTheSink, BackHere}

(* The bits say what the machine was shown, less the modifier it was shown *)
(* on coming back.                                                         *)
HeldHereIsShown == heldHere \subseteq machine /\ machine \ heldHere \subseteq {TheModifier}

WillComeUp(k) == k \in fingers \/ \E i \in 1..Len(stream) : stream[i] = KeyUp(k)

(* A key the sink was told is down, over a link that is up, has a finger   *)
(* on it or a release on its way; and with the keyboard back here the sink *)
(* holds nothing.                                                          *)
SinkLetsGo ==
  session => /\ \A k \in held : place = "There" /\ WillComeUp(k)
             /\ place \in {"Here", "Returning"} => held = {}

(* An ask to have the keyboard back is answered: whatever else is waiting  *)
(* in front of it, this machine stops being refused everything.            *)
AskedBack == \E i \in 1..Len(stream) : stream[i] = Asked("ThisMachine")
KeyboardComesBack == AskedBack ~> refusing # "Everything"

(* The chord's letters are keys like any other when they are let go of: "a *)
(* refused release leaves it down for as long as nobody presses that key   *)
(* again" (source.rs).                                                     *)
LettersComeUpHere == machine \ fingers \subseteq Option
=============================================================================
