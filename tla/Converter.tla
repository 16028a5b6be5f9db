----------------------------- MODULE Converter -----------------------------
(***************************************************************************)
(* The sink's converter (engine/src/sink.rs, struct Sink): what becomes of *)
(* every physical key that is down, and what the operating system has been *)
(* told is down because of it.  One action per event the converter is      *)
(* handed; each is the whole of Sink::handle for that event, every report  *)
(* it writes included.                                                     *)
(*                                                                         *)
(* A finger is a physical key on one keyboard, the identity the held list  *)
(* is searched by.  The held list itself is two variables: what each       *)
(* finger resolved to (held) and the order the presses came in (order).    *)
(* Time is abstracted: the tap window of an undecided key closes by an     *)
(* action of its own, and the repeat's wake-up may come whenever a repeat  *)
(* is armed.                                                               *)
(***************************************************************************)
EXTENDS Naturals, Sequences, FiniteSets, SequencesExt

CONSTANTS
  Device,       \* keyboards and pointers, by the id the host gave them
  Info,         \* what a device can be announced as (built in, external, ...)
  Key,          \* physical keys and the keys a layout emits: one vocabulary
  ModifierKey,  \* the keys a set of modifier keys can hold
  LockKey,      \* the modifier keys a report has no bit for: Caps Lock
  Unsayable,    \* the keys no report has a usage for
  Page,         \* the device's reports; each has its own slots
  PageOf,       \* the report a key's usage is declared in
  Slots,        \* how many usages one report carries
  Kind,         \* modifiers with no side: what a rule is matched against
  KindOf,       \* the modifier a modifier key stands for
  LeftOf,       \* the key an added modifier is delivered as
  Button,       \* pointer buttons
  Layout,       \* what a press resolves to
  Repeats       \* whether this run produces the auto-repeat itself

Finger == Device \X Key

(* What Layout::resolve can answer.  A tap-hold's hold is a modifier key   *)
(* the keyboard report has a bit for: "A modifier while held, a key when   *)
(* tapped", and the layout's only one holds the left shift.                *)
Outcome ==
  [kind : {"Emit"}, key : Key, consumed : SUBSET Kind, added : SUBSET Kind]
    \cup [kind : {"TapHold"}, hold : ModifierKey \ LockKey, tap : Key]
    \cup [kind : {"Swallow", "HoldHenkan"}]

ASSUME VocabularyAssumption ==
  /\ LockKey \subseteq ModifierKey
  /\ ModifierKey \subseteq Key
  /\ Unsayable \subseteq Key \ ModifierKey
  /\ PageOf \in [Key -> Page]
  /\ Slots \in Nat
ASSUME ModifierAssumption ==
  /\ KindOf \in [ModifierKey -> Kind]
  /\ DOMAIN LeftOf \subseteq Kind
  /\ \A k \in DOMAIN LeftOf : LeftOf[k] \in ModifierKey
ASSUME LayoutAssumption ==
  Layout \in [Info \X Key \X (SUBSET Kind) \X BOOLEAN -> Outcome]
ASSUME RepeatsAssumption == Repeats \in BOOLEAN

Unannounced == "unannounced"
NoFinger == <<>>

VARIABLES
  info,       \* what each device was announced as
  held,       \* what became of each finger that is down
  order,      \* the fingers that are down, first pressed first
  repeating,  \* the finger whose repeat is armed
  buttons,    \* the pointer buttons last relayed
  os,         \* what the reports written so far say is down
  injected,   \* what the last event handled had injected, in order
  ended       \* whether the run has let go of everything and gone

vars == <<info, held, order, repeating, buttons, os, injected, ended>>

-----------------------------------------------------------------------------
(* What a held key can be.  An undecided key whose hold was sent is "Sent" *)
(* and keeps only what its release reads.                                  *)

NotDown == [kind |-> "NotDown"]
Swallowed == [kind |-> "Swallowed"]
Henkan == [kind |-> "Henkan"]
Down(k, ms) == [kind |-> "Down", key |-> k, mods |-> ms]
Sent(k, ms) == [kind |-> "Sent", key |-> k, mods |-> ms]
Undecided(hold, tap) ==
  [kind |-> "Undecided", hold |-> hold, tap |-> tap,
   alone |-> TRUE, late |-> FALSE]

HeldState ==
  [kind : {"NotDown", "Swallowed", "Henkan"}]
    \cup [kind : {"Down", "Sent"}, key : Key, mods : SUBSET ModifierKey]
    \cup [kind : {"Undecided"}, hold : ModifierKey \ LockKey, tap : Key,
          alone : BOOLEAN, late : BOOLEAN]

BitKey == ModifierKey \ LockKey
SlotKey == Key \ (BitKey \cup Unsayable)
IsDown(f) == held[f] # NotDown

(* The fingers whose key the OS has been told of, and those whose hold it  *)
(* has not.                                                                *)
Told(h) == {f \in Finger : h[f].kind \in {"Down", "Sent"}}
Unsent(h) == {f \in Finger : h[f].kind = "Undecided"}

KeysInEffect(h) == {h[f].key : f \in Told(h)} \cap ModifierKey
HoldsOf(h, S) == {h[f].hold : f \in S}

Kinds(ms) == {KindOf[k] : k \in ms}
ModifiersForRules(h) == Kinds(KeysInEffect(h)) \cup Kinds(HoldsOf(h, Unsent(h)))
HenkanHeld(h) == \E f \in Finger : h[f] = Henkan

WithoutKinds(ms, kinds) == {k \in ms : KindOf[k] \notin kinds}
WithKinds(ms, kinds) ==
  ms \cup {LeftOf[k] : k \in (kinds \ Kinds(ms)) \cap DOMAIN LeftOf}

-----------------------------------------------------------------------------
(* The reports.  A report is the whole state of the device, so what the OS *)
(* believes is what the last one said.                                     *)

KeyDownOf(k, ms) == [event |-> "KeyDown", key |-> k, mods |-> ms]
KeyUpOf(k, ms) == [event |-> "KeyUp", key |-> k, mods |-> ms]
ModifiersOf(ms) == [event |-> "Modifiers", mods |-> ms]
PointerOf(bs) == [event |-> "Pointer", buttons |-> bs]

Bits(ms) == ms \ LockKey
Room(keys, k) == Cardinality({j \in keys : PageOf[j] = PageOf[k]}) < Slots
Pressed(keys, k) == IF k \in keys \/ Room(keys, k) THEN keys \cup {k} ELSE keys

Rendered(dev, i) ==
  CASE i.event = "Pointer" -> [dev EXCEPT !.buttons = i.buttons]
    [] i.event = "Modifiers" -> [dev EXCEPT !.mods = Bits(i.mods)]
    [] i.event \in {"KeyDown", "KeyUp"} ->
         IF i.key \in Unsayable THEN dev
         ELSE [dev EXCEPT !.mods = Bits(i.mods),
                          !.keys = IF i.key \in BitKey THEN @
                                   ELSE IF i.event = "KeyDown" THEN Pressed(@, i.key)
                                   ELSE @ \ {i.key}]

(* A handler's progress: what the device says by now, and what was         *)
(* injected to make it say so.                                             *)
Begin == [dev |-> os, log |-> <<>>]
Inject(p, i) == [dev |-> Rendered(p.dev, i), log |-> Append(p.log, i)]

(* release_at_the_os, the finger's entry being gone from h already.        *)
UpOfWhatIsLeft(h, k, ms) == KeyUpOf(k, KeysInEffect(h))  \* mutant
UpOf(h, k, ms) == KeyUpOf(k, IF k \in ModifierKey THEN KeysInEffect(h) ELSE ms)
ReleaseUnsettled(p, h, k, ms) == Inject(p, UpOf(h, k, ms))  \* mutant
ReleaseAtTheOs(p, h, k, ms) ==
  IF UpOf(h, k, ms).mods = KeysInEffect(h)
  THEN Inject(p, UpOf(h, k, ms))
  ELSE Inject(Inject(p, UpOf(h, k, ms)), ModifiersOf(KeysInEffect(h)))

(* The members of S that are in s, in the order they are there.            *)
Among(s, S) ==
  LET so_far[i \in 0..Len(s)] ==
        IF i = 0 THEN <<>>
        ELSE IF s[i] \in S THEN Append(so_far[i - 1], s[i]) ELSE so_far[i - 1]
  IN so_far[Len(s)]

(* send_lazy_holds: every unsent hold, in the order the keys went down,    *)
(* each under what is in effect by then and itself.                        *)
Position(f) == CHOOSE i \in 1..Len(order) : order[i] = f
HoldAlone(h, f) == KeysInEffect(h) \cup {h[f].hold}  \* mutant: not those before it
HoldMods(h, f) ==
  KeysInEffect(h) \cup HoldsOf(h, {g \in Unsent(h) : Position(g) <= Position(f)})
HoldsSent(h) ==
  [f \in Finger |-> IF f \in Unsent(h) THEN Sent(h[f].hold, HoldMods(h, f)) ELSE h[f]]
SendLazyHolds(p, h) ==
  LET turn == Among(order, Unsent(h))
  IN [dev |-> IF Unsent(h) = {} THEN p.dev
              ELSE [p.dev EXCEPT !.mods = Bits(KeysInEffect(HoldsSent(h)))],
      log |-> p.log \o [i \in 1..Len(turn) |->
                          KeyDownOf(h[turn[i]].hold, HoldMods(h, turn[i]))]]

TapsUninterrupted(h) == h                      \* mutant
TapsInterrupted(h) ==
  [f \in Finger |-> IF f \in Unsent(h) THEN [h[f] EXCEPT !.alone = FALSE] ELSE h[f]]

(* release_held: the fingers in S leave the list last pressed first, and   *)
(* each one's release settles the modifiers behind it.  What is left once  *)
(* they all have is what the last report that goes out says; a key with no *)
(* usage and nothing to settle sends none.                                 *)
Without(h, S) == [f \in Finger |-> IF f \in S THEN NotDown ELSE h[f]]
FirstPressedFirst == order                     \* mutant
LastPressedFirst == Reverse(order)
ReleaseLog(h, S) ==
  LET turn == LastPressedFirst
      Gone(n) == {turn[j] : j \in 1..n} \cap S
      Of(n) ==
        LET f == turn[n]
            left == Without(h, Gone(n))
            up == UpOf(left, h[f].key, h[f].mods)
        IN IF f \notin S \cap Told(h) THEN <<>>
           ELSE IF up.mods = KeysInEffect(left) THEN <<up>>
           ELSE <<up, ModifiersOf(KeysInEffect(left))>>
  IN FlattenSeq([n \in 1..Len(turn) |-> Of(n)])
ReleaseHeld(p, h, S) ==
  LET gone == S \cap Told(h)
      left == KeysInEffect(Without(h, S))
      says == \E f \in gone : h[f].key \notin Unsayable \/ h[f].mods # left
  IN [dev |-> [p.dev EXCEPT
                 !.keys = @ \ ({h[f].key : f \in gone} \ (Unsayable \cup BitKey)),
                 !.mods = IF says THEN Bits(left) ELSE @],
      log |-> p.log \o ReleaseLog(h, S)]

-----------------------------------------------------------------------------
Init ==
  /\ info = [d \in Device |-> Unannounced]
  /\ held = [f \in Finger |-> NotDown]
  /\ order = <<>>
  /\ repeating = NoFinger
  /\ buttons = {}
  /\ os = [keys |-> {}, mods |-> {}, buttons |-> {}]
  /\ injected = <<>>
  /\ ended = FALSE

Reports(p) == os' = p.dev /\ injected' = p.log
NoReport == Reports(Begin)
TakenOff(S) == order' = Among(order, Finger \ S)
DisarmIfReleased(S) == repeating' = IF repeating \in S THEN NoFinger ELSE repeating

(* A device (re)announced.  What it was holding stays held.                *)
DeviceAttached(d, i) ==
  /\ info' = [info EXCEPT ![d] = i]
  /\ NoReport
  /\ UNCHANGED <<held, order, repeating, buttons, ended>>

(* Everything one keyboard was holding is let go of, and it is forgotten.  *)
DeviceDetached(d) ==
  LET fingers == {d} \X Key
  IN /\ Reports(ReleaseHeld(Begin, held, fingers))
     /\ held' = Without(held, fingers)
     /\ TakenOff(fingers)
     /\ DisarmIfReleased(fingers)
     /\ info' = [info EXCEPT ![d] = Unannounced]
     /\ UNCHANGED <<buttons, ended>>

(* What a press resolves to.  A keyboard never announced passes through.   *)
Resolved(f) ==
  IF info[f[1]] = Unannounced
  THEN [kind |-> "Emit", key |-> f[2], consumed |-> {}, added |-> {}]
  ELSE Layout[<<info[f[1]], f[2], ModifiersForRules(held), HenkanHeld(held)>>]

(* mutant: a repeated press resolved anew *)
KeyDownResolvedAgain(f) ==
  /\ IsDown(f)
  /\ IF held[f].kind = "Down" /\ Resolved(f).kind = "Emit"
     THEN Reports(Inject(Begin, KeyDownOf(Resolved(f).key, held[f].mods)))
     ELSE NoReport
  /\ UNCHANGED <<info, held, order, repeating, buttons, ended>>

(* A press of a key already down: what the first one resolved to, again.   *)
KeyDownAgain(f) ==
  /\ IsDown(f)
  /\ IF held[f].kind = "Down"
     THEN Reports(Inject(Begin, KeyDownOf(held[f].key, held[f].mods)))
     ELSE NoReport
  /\ UNCHANGED <<info, held, order, repeating, buttons, ended>>

(* mutant: the lazy holds sent behind the key they were waiting for *)
KeyDownEmitsFirst(f) ==
  LET out == Resolved(f)
      types == out.key \notin ModifierKey
      alone == TapsInterrupted(held)
      h == IF types THEN HoldsSent(alone) ELSE alone
      ms == WithKinds(WithoutKinds(KeysInEffect(h), out.consumed), out.added)
              \cup ({out.key} \cap ModifierKey)
      p == Inject(Begin, KeyDownOf(out.key, ms))
  IN /\ ~IsDown(f)
     /\ out.kind = "Emit"
     /\ Reports(IF types THEN SendLazyHolds(p, alone) ELSE p)
     /\ held' = [h EXCEPT ![f] = Down(out.key, ms)]
     /\ order' = Append(order, f)
     /\ repeating' = IF types /\ Repeats THEN f ELSE repeating
     /\ UNCHANGED <<info, buttons, ended>>

(* A press that emits a key.  A key that is no modifier of its own needs   *)
(* every lazy hold real first, and takes over the repeat.                  *)
KeyDownEmits(f) ==
  LET out == Resolved(f)
      types == out.key \notin ModifierKey
      alone == TapsInterrupted(held)
      h == IF types THEN HoldsSent(alone) ELSE alone
      p == IF types THEN SendLazyHolds(Begin, alone) ELSE Begin
      ms == WithKinds(WithoutKinds(KeysInEffect(h), out.consumed), out.added)
              \cup ({out.key} \cap ModifierKey)
  IN /\ ~IsDown(f)
     /\ out.kind = "Emit"
     /\ Reports(Inject(p, KeyDownOf(out.key, ms)))
     /\ held' = [h EXCEPT ![f] = Down(out.key, ms)]
     /\ order' = Append(order, f)
     /\ repeating' = IF types /\ Repeats THEN f ELSE repeating
     /\ UNCHANGED <<info, buttons, ended>>

(* A press that injects nothing yet.                                       *)
KeyDownSilent(f) ==
  LET out == Resolved(f)
  IN /\ ~IsDown(f)
     /\ out.kind # "Emit"
     /\ held' = [TapsInterrupted(held) EXCEPT ![f] =
                   CASE out.kind = "Swallow" -> Swallowed
                     [] out.kind = "HoldHenkan" -> Henkan
                     [] out.kind = "TapHold" -> Undecided(out.hold, out.tap)]
     /\ order' = Append(order, f)
     /\ NoReport
     /\ UNCHANGED <<info, repeating, buttons, ended>>

(* A release with no press behind it goes through unconverted.             *)
KeyUpUnheld(f) ==
  /\ ~IsDown(f)
  /\ Reports(Inject(Begin, KeyUpOf(f[2], KeysInEffect(held))))
  /\ UNCHANGED <<info, held, order, repeating, buttons, ended>>

IsTap(s) == s.kind = "Undecided" /\ s.alone /\ ~s.late

(* The release of a held key: its output goes up, or its tap is typed.     *)
KeyUpHeld(f) ==
  LET s == held[f]
      h == Without(held, {f})
      typed == Inject(Begin, KeyDownOf(s.tap, KeysInEffect(h)))
  IN /\ IsDown(f)
     /\ Reports(CASE f \in Told(held) -> ReleaseAtTheOs(Begin, h, s.key, s.mods)
                   [] IsTap(s) -> ReleaseAtTheOs(typed, h, s.tap, KeysInEffect(h))
                   [] OTHER -> Begin)
     /\ held' = h
     /\ TakenOff({f})
     /\ DisarmIfReleased({f})
     /\ UNCHANGED <<info, buttons, ended>>

(* The last moment a release could still be a tap goes by.                 *)
TapWindowCloses(f) ==
  /\ held[f].kind = "Undecided"
  /\ ~held[f].late
  /\ held' = [held EXCEPT ![f].late = TRUE]
  /\ injected' = <<>>
  /\ UNCHANGED <<info, order, repeating, buttons, os, ended>>

(* The repeat is due: the key is let go of and pressed again, under the    *)
(* modifiers it went down with both times.                                 *)
Timer ==
  LET s == held[repeating]
  IN /\ repeating # NoFinger
     /\ IF IsDown(repeating) /\ s.kind = "Down"
        THEN Reports(Inject(Inject(Begin, KeyUpOf(s.key, s.mods)),
                            KeyDownOf(s.key, s.mods)))
        ELSE NoReport
     /\ repeating' = IF IsDown(repeating) THEN repeating ELSE NoFinger
     /\ UNCHANGED <<info, held, order, buttons, ended>>

(* A pointer report: its buttons, and whether anything moved.  A button    *)
(* going down needs the lazy holds real first; motion does not.            *)
NeverSettles(bs) == FALSE                      \* mutant
Settles(bs) == bs # buttons /\ bs # {}
Pointer(bs, still) ==
  LET p == IF Settles(bs) THEN SendLazyHolds(Begin, held) ELSE Begin
  IN /\ held' = IF Settles(bs) THEN HoldsSent(held) ELSE held
     /\ IF still /\ bs = buttons
        THEN Reports(p) /\ UNCHANGED buttons
        ELSE Reports(Inject(p, PointerOf(bs))) /\ buttons' = bs
     /\ UNCHANGED <<info, order, repeating, ended>>

(* A probe, and a chord this end has no say in: arriving is the answer.    *)
Arrives ==
  /\ NoReport
  /\ UNCHANGED <<info, held, order, repeating, buttons, ended>>

(* The run is over: everything it said was down is let go of, and then     *)
(* every button.                                                           *)
ButtonsForgotten(p) == p                       \* mutant
ButtonsLetGo(p) == IF buttons # {} THEN Inject(p, PointerOf({})) ELSE p
ReleaseEverything ==
  /\ Reports(ButtonsLetGo(ReleaseHeld(Begin, held, Finger)))
  /\ held' = Without(held, Finger)
  /\ TakenOff(Finger)
  /\ DisarmIfReleased(Finger)
  /\ buttons' = {}
  /\ ended' = TRUE
  /\ UNCHANGED info

Next ==
  /\ ~ended
  /\ \/ \E d \in Device, i \in Info : DeviceAttached(d, i)
     \/ \E d \in Device : DeviceDetached(d)
     \/ \E f \in Finger : KeyDownAgain(f)
     \/ \E f \in Finger : KeyDownEmits(f)
     \/ \E f \in Finger : KeyDownSilent(f)
     \/ \E f \in Finger : KeyUpUnheld(f)
     \/ \E f \in Finger : KeyUpHeld(f)
     \/ \E f \in Finger : TapWindowCloses(f)
     \/ Timer
     \/ \E bs \in SUBSET Button, still \in BOOLEAN : Pointer(bs, still)
     \/ Arrives
     \/ ReleaseEverything

Spec == Init /\ [][Next]_vars

-----------------------------------------------------------------------------
(* What the converter keeps, whatever the layout and whatever order the    *)
(* events come in.                                                         *)

(* Every variable the reports depend on has its type.                      *)
TypeOK ==
  /\ info \in [Device -> Info \cup {Unannounced}]
  /\ held \in [Finger -> HeldState]
  /\ repeating \in Finger \cup {NoFinger}
  /\ buttons \in SUBSET Button
  /\ os \in [keys : SUBSET SlotKey, mods : SUBSET BitKey, buttons : SUBSET Button]
  /\ ended \in BOOLEAN

(* No key is down at the OS unless a finger still holds what put it there: *)
(* across layers, remaps, repeats, announcements and torn out keyboards,   *)
(* a release lets go of what its own press resolved to.                    *)
NothingStuck == \A k \in os.keys : \E f \in Told(held) : held[f].key = k

(* The modifiers the OS believes are the ones in effect, or those one key  *)
(* that is still down was sent with.  So a modifier a rule added, or one   *)
(* let go of under a repeating key, lasts no longer than that key.         *)
ModifiersAccountedFor ==
  \/ os.mods = Bits(KeysInEffect(held))
  \/ \E f \in Finger : /\ held[f].kind = "Down"
                       /\ held[f].key \notin Unsayable
                       /\ os.mods = Bits(held[f].mods)

(* An armed repeat is always a finger still down on a key that reached the *)
(* OS and is no modifier, so the wake-up can never find its key gone: every *)
(* way a finger leaves takes the repeat with it.                           *)
RepeatHasAFinger ==
  repeating # NoFinger => /\ held[repeating].kind = "Down"
                          /\ held[repeating].key \notin ModifierKey

(* Nothing goes on by itself: whatever is down at the OS, or repeating at  *)
(* it, is held by a finger.                                                *)
NothingGoesOnAlone == NothingStuck /\ RepeatHasAFinger

(* A run that has let go of everything leaves the OS with nothing of its   *)
(* own down: no key, no modifier, no button.                               *)
EndsClean == ended => os = [keys |-> {}, mods |-> {}, buttons |-> {}]
=============================================================================
