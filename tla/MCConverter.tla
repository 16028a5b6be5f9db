---------------------------- MODULE MCConverter ----------------------------
(***************************************************************************)
(* The converter on a small vocabulary: a space bar that taps or shifts, a *)
(* control key that taps too so that two holds can wait at once, a layer   *)
(* key, a letter two rules move, the shift it borrows, Caps Lock and a key *)
(* no report can name; on a keyboard the layout knows as built in and on   *)
(* one it leaves alone.                                                    *)
(***************************************************************************)
EXTENDS Converter

CONSTANT MaxFingers \* fingers down at once, which the code does not bound

MCModifierKey == Key \cap {"shift", "control", "caps"}
MCKind == {"SHIFT", "CONTROL", "CAPS"}
MCKindOf == [k \in MCModifierKey |->
  CASE k = "shift" -> "SHIFT" [] k = "control" -> "CONTROL" [] k = "caps" -> "CAPS"]
MCLeftOf == [k \in {MCKindOf[m] : m \in MCModifierKey \ LockKey} |->
  CHOOSE m \in MCModifierKey : MCKindOf[m] = k]
MCPageOf == [k \in Key |-> "keyboard"]

EmitOf(k, consumed, added) ==
  [kind |-> "Emit", key |-> k, consumed |-> consumed, added |-> added]

(* The shape of dudrack's rules, on the built in keyboard: the space bar is *)
(* a shift, and under the layer key a letter needs a shift of its own and  *)
(* another is swallowed; outside it a shift on the letter is consumed.     *)
Moved == IF "b" \in Key THEN "b" ELSE "space"
TapHoldOf(hold, tap) == [kind |-> "TapHold", hold |-> hold, tap |-> tap]
MCLayout ==
  [r \in Info \X Key \X (SUBSET MCKind) \X BOOLEAN |->
    LET key == r[2]
        shifted == "SHIFT" \in r[3]
        layer == r[4]
    IN CASE r[1] = "external" -> EmitOf(key, {}, {})
         [] key = "space" -> TapHoldOf("shift", "space")
         [] key = "control" -> TapHoldOf("control", "a")
         [] key = "layer" -> [kind |-> "HoldHenkan"]
         [] key = "a" /\ layer -> EmitOf(Moved, {}, {"SHIFT"})
         [] key = "a" /\ shifted -> EmitOf(Moved, {"SHIFT"}, {})
         [] key = "b" /\ layer -> [kind |-> "Swallow"]
         [] OTHER -> EmitOf(key, {}, {})]

(* What the converter is given when it runs: dudrack itself, whose tables   *)
(* are judged before the first step.  Labels are typed, on the machine     *)
(* itself and through a hook; every character is in reach, and no accident *)
(* is let through by the order the rules stand in.                         *)
Dudrack == INSTANCE Layout
TypesItsLabels == Init => Dudrack!TypesItsLabels /\ Dudrack!DudrackIsWhole

FewFingers == Len(order) <= MaxFingers

-----------------------------------------------------------------------------
(* What a finger's press is remembered by, to judge its release.           *)
VARIABLES
  taken,    \* the modifiers the OS was told the finger's key went down with
  company   \* whether anything else was pressed since the finger was

(* The last handler's injections judge the step that made them and are no  *)
(* part of what happens next.                                              *)
WithoutInjected == <<info, held, order, repeating, buttons, os, ended, taken, company>>

Pressing(f) == ~IsDown(f) /\ IsDown(f)'
ClickOnWay == buttons' # buttons /\ buttons' # {}

HInit ==
  /\ Init
  /\ taken = [f \in Finger |-> {}]
  /\ company = [f \in Finger |-> FALSE]

HNext ==
  /\ Next
  /\ taken' = [f \in Finger |-> IF Pressing(f) THEN os'.mods
                                ELSE IF ~IsDown(f)' THEN {} ELSE taken[f]]
  /\ company' = [f \in Finger |->
       IF ~IsDown(f) \/ ~IsDown(f)' THEN FALSE
       ELSE company[f] \/ ClickOnWay \/ \E g \in Finger : Pressing(g)]

HSpec == HInit /\ [][HNext]_<<vars, taken, company>>

Releasing(f) == IsDown(f) /\ ~IsDown(f)'
UpsOf(k) == {i \in DOMAIN injected' : injected'[i].event = "KeyUp" /\ injected'[i].key = k}
DownsOf(k) == {i \in DOMAIN injected' : injected'[i].event = "KeyDown" /\ injected'[i].key = k}

(* A key goes up under the modifiers it was taken with, whatever has been  *)
(* pressed or let go of since, and also when its keyboard is torn out: a   *)
(* shifted character is released as shifted.                               *)
ReleasedAsTaken ==
  [][\A f \in Told(held) :
       Releasing(f) /\ held[f].kind = "Down" /\ held[f].key \notin ModifierKey \cup Unsayable
         => \E i \in UpsOf(held[f].key) : Bits(injected'[i].mods) = taken[f]]_vars

(* A tap is typed only by a finger that was alone from its press to its    *)
(* release: no other key and no button went down in between, and the       *)
(* window was still open.                                                  *)
TapMeansAlone ==
  [][\A f \in Unsent(held) :
       Releasing(f) /\ DownsOf(held[f].tap) # {} => ~company[f] /\ ~held[f].late]_vars

(* A fresh character or a click reaches the OS behind every hold it was     *)
(* pressed under: no lazy hold is left unsent by a press that types, and    *)
(* wherever holds are sent, each is said in a report of its own, in front   *)
(* of the character's or the click's, in the order their keys went down and *)
(* with every hold pressed before it.                                       *)
TypesOrClicks ==
  \/ \E f \in Finger : Pressing(f) /\ held'[f].kind = "Down" /\ held'[f].key \notin ModifierKey
  \/ ClickOnWay
SendsHolds == \E f \in Unsent(held) : held'[f].kind = "Sent"
Strokes ==
  {i \in DOMAIN injected' :
     \/ injected'[i].event = "Pointer"
     \/ injected'[i].event = "KeyDown" /\ injected'[i].key \notin ModifierKey}
SaidInTurn ==
  \E at \in [Unsent(held) -> DOMAIN injected'] : \A g \in Unsent(held) :
    /\ at[g] \in DownsOf(held[g].hold)
    /\ \A f \in Unsent(held) : Position(f) < Position(g) => at[f] < at[g]
    /\ \A f \in Unsent(held) : Position(f) <= Position(g) => held[f].hold \in injected'[at[g]].mods
    /\ \A i \in Strokes : at[g] < i
HoldsReachTheOsFirst ==
  [][TypesOrClicks \/ SendsHolds => Unsent(held') = {} /\ SaidInTurn]_vars

(* When a keyboard goes or the run ends, a modifier leaves the reports only *)
(* after every key pressed later than it has been let go of.               *)
LatestFirst ==
  [][\A f, g \in Told(held) :
       /\ Releasing(f) /\ Releasing(g) /\ f # g
       /\ held[f].key \in ModifierKey /\ held[g].key \notin ModifierKey
       /\ Position(f) < Position(g)
       => \A i \in {n \in UpsOf(held[f].key) : held[f].key \notin injected'[n].mods} :
            \E j \in UpsOf(held[g].key) : j < i]_vars
=============================================================================
