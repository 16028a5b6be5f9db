-------------------------- MODULE ConverterProofs --------------------------
(***************************************************************************)
(* Proofs that the converter leaves nothing stuck, and that what it says   *)
(* it says in the right order and under the right modifiers: for every     *)
(* layout, every set of keyboards and every order of events.               *)
(*                                                                         *)
(* The argument is carried by Accounts(h, dev): what the reports say is    *)
(* down (dev) is explained by what the fingers resolved to (h).  Each      *)
(* building block of a handler, sending the lazy holds, releasing one key, *)
(* releasing many, keeps it; an event composes those blocks.               *)
(*                                                                         *)
(* What a step says is another matter: Goes lists the ways a step goes,    *)
(* each with what is injected in it, and HistoryInv ties what a finger's   *)
(* press is remembered by to its entry in the list.                        *)
(***************************************************************************)
EXTENDS MCConverter, TLAPS, WellFoundedInduction

Dev == [keys : SUBSET SlotKey, mods : SUBSET BitKey, buttons : SUBSET Button]
Fingers == [Finger -> HeldState]

KeysExplained(h, keys) == \A k \in keys : \E f \in Told(h) : h[f].key = k
ModsExplained(h, mods) ==
  \/ mods = Bits(KeysInEffect(h))
  \/ \E f \in Finger : /\ h[f].kind = "Down"
                       /\ h[f].key \notin Unsayable
                       /\ mods = Bits(h[f].mods)
Accounts(h, dev) == KeysExplained(h, dev.keys) /\ ModsExplained(h, dev.mods)

(* A step that only takes the reports where they already are keeps it; so  *)
(* the inductive invariant is the accounts, the type, and that the repeat  *)
(* and the end of the run agree with the list.                             *)
IndInv ==
  /\ TypeOK
  /\ NothingStuck
  /\ ModifiersAccountedFor
  /\ RepeatHasAFinger
  /\ os.buttons = buttons
  /\ ended => held = Without(held, Finger) /\ buttons = {}


-----------------------------------------------------------------------------
(* Reading a report: what one injection changes in it.                     *)

(* A key down says its modifiers and may take a slot for itself.           *)
LEMMA KeyDownRendered ==
  ASSUME NEW dev \in Dev, NEW k \in Key, NEW ms \in SUBSET ModifierKey
  PROVE  LET r == Rendered(dev, KeyDownOf(k, ms))
         IN /\ r \in Dev
            /\ r.keys \subseteq dev.keys \cup {k}
            /\ r.mods = IF k \in Unsayable THEN dev.mods ELSE Bits(ms)
            /\ r.buttons = dev.buttons
<1> DEFINE i == KeyDownOf(k, ms)
<1>2. Rendered(dev, i) =
        IF k \in Unsayable THEN dev
        ELSE [dev EXCEPT !.mods = Bits(ms),
                         !.keys = IF k \in BitKey THEN @ ELSE Pressed(@, k)]
  BY DEF Rendered, KeyDownOf, KeyUpOf, Dev
<1>3. Pressed(dev.keys, k) \in SUBSET (dev.keys \cup {k})
  BY DEF Pressed
<1>4. Bits(ms) \in SUBSET BitKey
  BY DEF Bits, BitKey
<1>5. CASE k \in Unsayable
  BY <1>2, <1>5
<1>6. CASE k \notin Unsayable /\ k \in BitKey
  BY <1>2, <1>4, <1>6 DEF Dev
<1>7. CASE k \notin Unsayable /\ k \notin BitKey
  <2>1. Pressed(dev.keys, k) \in SUBSET SlotKey
    BY <1>3, <1>7 DEF Dev, SlotKey
  <2>2. Rendered(dev, i) = [dev EXCEPT !.mods = Bits(ms), !.keys = Pressed(@, k)]
    BY <1>2, <1>7
  <2> QED
    BY <1>3, <1>4, <1>7, <2>1, <2>2 DEF Dev
<1> QED
  BY <1>5, <1>6, <1>7

(* A key up says its modifiers and gives its slot back.                    *)
LEMMA KeyUpRendered ==
  ASSUME NEW dev \in Dev, NEW k \in Key, NEW ms \in SUBSET ModifierKey
  PROVE  LET r == Rendered(dev, KeyUpOf(k, ms))
         IN /\ r \in Dev
            /\ r.keys = dev.keys \ {k}
            /\ r.mods = IF k \in Unsayable THEN dev.mods ELSE Bits(ms)
            /\ r.buttons = dev.buttons
<1> DEFINE i == KeyUpOf(k, ms)
<1>2. Rendered(dev, i) =
        IF k \in Unsayable THEN dev
        ELSE [dev EXCEPT !.mods = Bits(ms),
                         !.keys = IF k \in BitKey THEN @ ELSE @ \ {k}]
  BY DEF Rendered, KeyDownOf, KeyUpOf, Dev
<1>3. k \in BitKey \cup Unsayable => k \notin dev.keys
  BY DEF Dev, SlotKey
<1>4. Bits(ms) \in SUBSET BitKey
  BY DEF Bits, BitKey
<1> HIDE DEF i
<1>5. CASE k \in Unsayable
  BY <1>2, <1>3, <1>5 DEF i
<1>6. CASE k \notin Unsayable
  <2>1. PICK K, B : K = dev.keys \ {k} /\ B = Bits(ms)
    OBVIOUS
  <2>2. dev.keys \in SUBSET SlotKey /\ K \in SUBSET SlotKey /\ B \in SUBSET BitKey
    BY <1>4, <2>1 DEF Dev
  <2>3. Rendered(dev, i) = [dev EXCEPT !.mods = B, !.keys = K]
    <3>1. K = IF k \in BitKey THEN dev.keys ELSE dev.keys \ {k}
      BY <1>3, <2>1
    <3>2. Rendered(dev, i) = [dev EXCEPT !.mods = Bits(ms),
                                         !.keys = IF k \in BitKey THEN @ ELSE @ \ {k}]
      BY <1>2, <1>6
    <3> QED  BY <2>1, <3>1, <3>2 DEF Dev
  <2> QED  BY <1>6, <2>1, <2>2, <2>3 DEF Dev, i
<1> QED
  BY <1>5, <1>6

(* A set of modifiers on its own changes nothing else.                     *)
LEMMA ModifiersRendered ==
  ASSUME NEW dev \in Dev, NEW ms \in SUBSET ModifierKey
  PROVE  LET r == Rendered(dev, ModifiersOf(ms))
         IN /\ r \in Dev
            /\ r.keys = dev.keys
            /\ r.mods = Bits(ms)
            /\ r.buttons = dev.buttons
  BY DEF Rendered, ModifiersOf, Dev, BitKey, Bits

(* A pointer report says its buttons and nothing of the keys.              *)
LEMMA PointerRendered ==
  ASSUME NEW dev \in Dev, NEW bs \in SUBSET Button
  PROVE  LET r == Rendered(dev, PointerOf(bs))
         IN /\ r \in Dev
            /\ r.keys = dev.keys
            /\ r.mods = dev.mods
            /\ r.buttons = bs
  BY DEF Rendered, PointerOf, Dev

-----------------------------------------------------------------------------
(* What a held key's record holds, and where modifiers come from.          *)

(* The fields of an entry, by what became of it.                           *)
LEMMA StateFields ==
  ASSUME NEW s \in HeldState
  PROVE  /\ s.kind \in {"Down", "Sent"} => s.key \in Key /\ s.mods \in SUBSET ModifierKey
         /\ s.kind = "Undecided" => s.hold \in BitKey /\ s.tap \in Key
         /\ s = NotDown => s.kind = "NotDown"
         /\ s.kind = "NotDown" => s = NotDown
  BY DEF HeldState, NotDown, BitKey

(* The entries a handler writes.                                           *)
LEMMA StateTypes ==
  ASSUME NEW k \in Key, NEW ms \in SUBSET ModifierKey
  PROVE  /\ Down(k, ms) \in HeldState
         /\ Sent(k, ms) \in HeldState
         /\ NotDown \in HeldState /\ Swallowed \in HeldState /\ Henkan \in HeldState
         /\ \A hold \in BitKey : Undecided(hold, k) \in HeldState
  BY DEF HeldState, Down, Sent, NotDown, Swallowed, Henkan, Undecided, BitKey

(* The modifiers in effect are modifier keys, and so are the holds.        *)
LEMMA EffectTypes ==
  ASSUME NEW h \in Fingers
  PROVE  /\ KeysInEffect(h) \in SUBSET ModifierKey
         /\ \A S \in SUBSET Unsent(h) : HoldsOf(h, S) \in SUBSET BitKey
         /\ \A f \in Finger : HoldMods(h, f) \in SUBSET ModifierKey
<1>1. KeysInEffect(h) \in SUBSET ModifierKey
  BY DEF KeysInEffect
<1>2. ASSUME NEW S \in SUBSET Unsent(h) PROVE HoldsOf(h, S) \in SUBSET BitKey
  BY StateFields DEF HoldsOf, Unsent, Fingers
<1>3. \A f \in Finger : HoldMods(h, f) \in SUBSET ModifierKey
  BY <1>1, <1>2 DEF HoldMods, BitKey
<1> QED
  BY <1>1, <1>2, <1>3

(* Only the entries the OS was told of explain a report.                   *)
LEMMA SameTold ==
  ASSUME NEW h \in Fingers, NEW g \in Fingers, NEW dev \in Dev,
         Told(g) = Told(h), \A f \in Told(h) : g[f] = h[f]
  PROVE  /\ KeysInEffect(g) = KeysInEffect(h)
         /\ Accounts(h, dev) => Accounts(g, dev)
<1>1. KeysInEffect(g) = KeysInEffect(h)
  BY DEF KeysInEffect
<1>2. \A f \in Finger : h[f].kind = "Down" => g[f] = h[f]
  BY DEF Told
<1> QED
  BY <1>1, <1>2 DEF Accounts, KeysExplained, ModsExplained

(* Fingers leave.  A report that gave up what they held and says what is   *)
(* left in effect, or says nothing because none of them had anything to    *)
(* say, is explained by the fingers that stay.                             *)
LEMMA FingersLeave ==
  ASSUME NEW h \in Fingers, NEW S \in SUBSET Finger, NEW dev \in Dev, NEW after \in Dev,
         Accounts(h, dev),
         after.keys = dev.keys \ {h[f].key : f \in S \cap Told(h)},
         \/ after.mods = Bits(KeysInEffect(Without(h, S)))
         \/ /\ \A f \in S \cap Told(h) : h[f].key \in Unsayable
            /\ after.mods = dev.mods
  PROVE  /\ Without(h, S) \in Fingers
         /\ Accounts(Without(h, S), after)
<1> DEFINE g == Without(h, S)
<1>1. g \in Fingers
  BY DEF Without, Fingers, HeldState, NotDown
<1>2. /\ \A f \in Finger \ S : g[f] = h[f]
      /\ \A f \in S : g[f].kind = "NotDown"
  BY DEF Without, NotDown
<1>3. Told(g) = Told(h) \ S
  BY <1>2 DEF Told
<1>4. KeysExplained(g, after.keys)
  BY <1>2, <1>3 DEF KeysExplained, Accounts, Told
<1>5. ModsExplained(g, after.mods)
  <2>1. CASE after.mods = Bits(KeysInEffect(g))
    BY <2>1 DEF ModsExplained
  <2>2. CASE /\ \A f \in S \cap Told(h) : h[f].key \in Unsayable
             /\ after.mods = dev.mods
    <3>1. KeysInEffect(g) = KeysInEffect(h)
      <4>1. \A f \in Told(h) : h[f].key \in ModifierKey => f \in Told(g) /\ g[f] = h[f]
        BY <1>2, <1>3, <2>2, VocabularyAssumption DEF Told
      <4>2. \A f \in Told(g) : f \in Told(h) /\ g[f] = h[f]
        BY <1>2, <1>3 DEF Told
      <4> QED
        BY <4>1, <4>2 DEF KeysInEffect
    <3>2. \A f \in Finger : h[f].kind = "Down" /\ h[f].key \notin Unsayable => g[f] = h[f]
      BY <1>2, <2>2 DEF Told
    <3>3. CASE dev.mods = Bits(KeysInEffect(h))
      BY <2>2, <3>1, <3>3 DEF ModsExplained
    <3>4. ASSUME NEW f \in Finger, h[f].kind = "Down", h[f].key \notin Unsayable,
                 dev.mods = Bits(h[f].mods)
          PROVE  ModsExplained(g, after.mods)
      BY <2>2, <3>2, <3>4 DEF ModsExplained
    <3> QED
      BY <3>3, <3>4 DEF ModsExplained, Accounts
  <2> QED
    BY <2>1, <2>2
<1> QED
  BY <1>1, <1>4, <1>5 DEF Accounts
-----------------------------------------------------------------------------
(* The blocks a handler is built of.                                       *)

(* release_at_the_os: the key's slot is given back and what is left in     *)
(* effect is what the reports end on, unless no report carries the key and *)
(* nothing it was sent with has to be settled.                             *)
LEMMA ReleaseAtTheOsReports ==
  ASSUME NEW p, p.dev \in Dev, NEW g \in Fingers,
         NEW k \in Key, NEW ms \in SUBSET ModifierKey
  PROVE  LET r == ReleaseAtTheOs(p, g, k, ms).dev
         IN /\ r \in Dev
            /\ r.keys = p.dev.keys \ {k}
            /\ r.buttons = p.dev.buttons
            /\ \/ r.mods = Bits(KeysInEffect(g))
               \/ k \in Unsayable /\ r.mods = p.dev.mods
<1> DEFINE left == KeysInEffect(g)
           up == UpOf(g, k, ms)
           one == Rendered(p.dev, up)
<1>1. left \in SUBSET ModifierKey
  BY EffectTypes
<1>2. PICK us \in SUBSET ModifierKey : up = KeyUpOf(k, us) /\ up.mods = us
  BY <1>1 DEF UpOf, KeyUpOf
<1>3. /\ one \in Dev
      /\ one.keys = p.dev.keys \ {k}
      /\ one.mods = IF k \in Unsayable THEN p.dev.mods ELSE Bits(us)
      /\ one.buttons = p.dev.buttons
  BY <1>2, KeyUpRendered
<1>4. CASE up.mods = left
  <2>1. ReleaseAtTheOs(p, g, k, ms).dev = one
    BY <1>4 DEF ReleaseAtTheOs, Inject
  <2> QED
    BY <1>2, <1>3, <1>4, <2>1
<1>5. CASE up.mods # left
  <2>1. ReleaseAtTheOs(p, g, k, ms).dev = Rendered(one, ModifiersOf(left))
    BY <1>5 DEF ReleaseAtTheOs, Inject
  <2> QED
    BY <1>1, <1>3, <2>1, ModifiersRendered
<1> QED
  BY <1>4, <1>5

(* Sending the lazy holds: every hold becomes an entry the OS was told of, *)
(* and the reports end on what is then in effect.                          *)
LEMMA SendLazyHoldsAccounts ==
  ASSUME NEW h \in Fingers, NEW p, p.dev \in Dev, Accounts(h, p.dev)
  PROVE  LET r == SendLazyHolds(p, h).dev
         IN /\ HoldsSent(h) \in Fingers
            /\ r \in Dev
            /\ r.buttons = p.dev.buttons
            /\ Accounts(HoldsSent(h), r)
<1> DEFINE g == HoldsSent(h)
           r == SendLazyHolds(p, h).dev
<1>1. \A f \in Unsent(h) : g[f] = Sent(h[f].hold, HoldMods(h, f))
  BY DEF HoldsSent, Unsent
<1>2. \A f \in Finger \ Unsent(h) : g[f] = h[f]
  BY DEF HoldsSent
<1>3. g \in Fingers
  <2>1. \A f \in Unsent(h) : h[f].hold \in Key
    BY StateFields, VocabularyAssumption DEF Unsent, Fingers, BitKey
  <2>2. \A f \in Finger : g[f] \in HeldState
    BY <1>1, <1>2, <2>1, EffectTypes, StateTypes DEF Fingers, Unsent
  <2> QED
    BY <2>2 DEF HoldsSent, Fingers
<1>4. /\ r \in Dev
      /\ r.keys = p.dev.keys
      /\ r.buttons = p.dev.buttons
      /\ r.mods = IF Unsent(h) = {} THEN p.dev.mods ELSE Bits(KeysInEffect(g))
  <2>1. Bits(KeysInEffect(g)) \in SUBSET BitKey
    BY <1>3, EffectTypes DEF Bits, BitKey
  <2>2. r = IF Unsent(h) = {} THEN p.dev
            ELSE [p.dev EXCEPT !.mods = Bits(KeysInEffect(g))]
    BY DEF SendLazyHolds
  <2> QED
    BY <2>1, <2>2 DEF Dev
<1>5. \A f \in Told(h) : f \in Told(g) /\ g[f] = h[f]
  BY <1>2 DEF Told, Unsent
<1>6. KeysExplained(g, r.keys)
  BY <1>4, <1>5 DEF KeysExplained, Accounts
<1>7. ModsExplained(g, r.mods)
  <2>1. CASE Unsent(h) = {}
    <3>1. Told(g) = Told(h) /\ \A f \in Told(h) : g[f] = h[f]
      BY <1>2, <2>1 DEF Told
    <3> QED
      BY <1>3, <1>4, <2>1, <3>1, SameTold DEF Accounts
  <2>2. CASE Unsent(h) # {}
    BY <1>4, <2>2 DEF ModsExplained
  <2> QED
    BY <2>1, <2>2
<1> QED
  BY <1>3, <1>4, <1>6, <1>7 DEF Accounts

(* Releasing many: a keyboard torn out, or the end of the run.             *)
LEMMA ReleaseHeldAccounts ==
  ASSUME NEW h \in Fingers, NEW S \in SUBSET Finger, NEW p, p.dev \in Dev,
         Accounts(h, p.dev)
  PROVE  LET r == ReleaseHeld(p, h, S).dev
         IN /\ Without(h, S) \in Fingers
            /\ r \in Dev
            /\ r.buttons = p.dev.buttons
            /\ Accounts(Without(h, S), r)
<1> DEFINE gone == S \cap Told(h)
           out == {h[f].key : f \in gone}
           left == KeysInEffect(Without(h, S))
           says == \E f \in gone : h[f].key \notin Unsayable \/ h[f].mods # left
           r == ReleaseHeld(p, h, S).dev
<1>1. Without(h, S) \in Fingers
  BY DEF Without, Fingers, HeldState, NotDown
<1>2. Bits(left) \in SUBSET BitKey
  BY <1>1, EffectTypes DEF Bits, BitKey
<1>3. r = [p.dev EXCEPT !.keys = @ \ (out \ (Unsayable \cup BitKey)),
                        !.mods = IF says THEN Bits(left) ELSE @]
  BY DEF ReleaseHeld
<1>4. p.dev.keys \ (out \ (Unsayable \cup BitKey)) = p.dev.keys \ out
  BY DEF Dev, SlotKey
<1>5. /\ r \in Dev
      /\ r.keys = p.dev.keys \ out
      /\ r.mods = IF says THEN Bits(left) ELSE p.dev.mods
      /\ r.buttons = p.dev.buttons
  <2>1. p.dev.keys \ out \in SUBSET SlotKey
    BY DEF Dev
  <2>2. r = [p.dev EXCEPT !.keys = p.dev.keys \ out,
                          !.mods = IF says THEN Bits(left) ELSE p.dev.mods]
    BY <1>3, <1>4
  <2> HIDE DEF out, says, left, r
  <2> QED
    BY <1>2, <2>1, <2>2 DEF Dev
<1>6. \/ r.mods = Bits(left)
      \/ /\ \A f \in S \cap Told(h) : h[f].key \in Unsayable
         /\ r.mods = p.dev.mods
  BY <1>5
<1> QED
  BY <1>1, <1>5, <1>6, FingersLeave

(* A key goes down: the finger it is recorded for explains what its own    *)
(* report says.                                                            *)
LEMMA KeyDownAccounts ==
  ASSUME NEW h \in Fingers, NEW f \in Finger, h[f].kind = "NotDown",
         NEW dev \in Dev, Accounts(h, dev),
         NEW k \in Key, NEW ms \in SUBSET ModifierKey
  PROVE  LET g == [h EXCEPT ![f] = Down(k, ms)]
             r == Rendered(dev, KeyDownOf(k, ms))
         IN /\ g \in Fingers
            /\ r \in Dev
            /\ r.buttons = dev.buttons
            /\ Accounts(g, r)
<1> DEFINE g == [h EXCEPT ![f] = Down(k, ms)]
           r == Rendered(dev, KeyDownOf(k, ms))
<1>1. g \in Fingers
  BY StateTypes DEF Fingers
<1>2. g[f].kind = "Down" /\ g[f].key = k /\ g[f].mods = ms
  BY DEF Fingers, Down
<1>3. \A e \in Finger \ {f} : g[e] = h[e]
  BY DEF Fingers
<1>4. /\ r \in Dev
      /\ r.keys \subseteq dev.keys \cup {k}
      /\ r.mods = IF k \in Unsayable THEN dev.mods ELSE Bits(ms)
      /\ r.buttons = dev.buttons
  BY KeyDownRendered
<1>5. Told(g) = Told(h) \cup {f} /\ f \notin Told(h)
  BY <1>2, <1>3 DEF Told
<1> HIDE DEF g, r
<1>6. KeysExplained(g, r.keys)
  <2>1. \A e \in Told(h) : e \in Told(g) /\ g[e] = h[e]
    BY <1>3, <1>5 DEF Told
  <2>2. f \in Told(g)
    BY <1>5
  <2> QED
    BY <1>2, <1>4, <2>1, <2>2 DEF KeysExplained, Accounts
<1>7. ModsExplained(g, r.mods)
  <2>1. CASE k \notin Unsayable
    BY <1>2, <1>4, <2>1 DEF ModsExplained
  <2>2. CASE k \in Unsayable
    <3>1. KeysInEffect(g) = KeysInEffect(h)
      <4>1. \A e \in Told(h) : e \in Told(g) /\ g[e] = h[e]
        BY <1>3, <1>5 DEF Told
      <4>2. \A e \in Told(g) : g[e].key \in ModifierKey => e \in Told(h) /\ g[e] = h[e]
        BY <1>2, <1>3, <1>5, <2>2, VocabularyAssumption DEF Told
      <4> QED
        BY <4>1, <4>2 DEF KeysInEffect
    <3>2. \A e \in Finger : h[e].kind = "Down" => g[e] = h[e]
      BY <1>3
    <3> QED
      BY <1>4, <2>2, <3>1, <3>2 DEF ModsExplained, Accounts
  <2> QED
    BY <2>1, <2>2
<1> QED
  BY <1>1, <1>4, <1>6, <1>7 DEF Accounts, g, r

(* A key that is down is said again, as its own press said it.             *)
LEMMA SaidAgain ==
  ASSUME NEW h \in Fingers, NEW f \in Finger, h[f].kind = "Down",
         NEW dev \in Dev, NEW said \in Dev, Accounts(h, said),
         dev.keys \subseteq said.keys \cup {h[f].key},
         dev.mods = IF h[f].key \in Unsayable THEN said.mods ELSE Bits(h[f].mods)
  PROVE  Accounts(h, dev)
<1>1. KeysExplained(h, dev.keys)
  BY DEF KeysExplained, Accounts, Told
<1>2. ModsExplained(h, dev.mods)
  BY DEF ModsExplained, Accounts
<1> QED
  BY <1>1, <1>2 DEF Accounts
-----------------------------------------------------------------------------
(* The events.                                                             *)

RepeatAgrees(r, h) ==
  /\ r \in Finger \cup {NoFinger}
  /\ r # NoFinger => h[r].kind = "Down" /\ h[r].key \notin ModifierKey

(* What the invariant says, in the terms the blocks are stated in.         *)
LEMMA Opened ==
  ASSUME IndInv
  PROVE  /\ info \in [Device -> Info \cup {Unannounced}]
         /\ held \in Fingers /\ os \in Dev /\ Accounts(held, os)
         /\ buttons \in SUBSET Button /\ os.buttons = buttons
         /\ RepeatAgrees(repeating, held)
         /\ Begin.dev = os /\ ended \in BOOLEAN
  BY DEF IndInv, TypeOK, NothingStuck, ModifiersAccountedFor, RepeatHasAFinger,
         RepeatAgrees, Accounts, KeysExplained, ModsExplained, Fingers, Dev, Begin

(* An event that keeps the accounts, while the run goes on, keeps it.      *)
LEMMA Closed ==
  ASSUME info' \in [Device -> Info \cup {Unannounced}],
         held' \in Fingers, os' \in Dev, Accounts(held', os'),
         buttons' \in SUBSET Button, os'.buttons = buttons',
         RepeatAgrees(repeating', held'), ended' = ended, ended \in BOOLEAN, ~ended
  PROVE  IndInv'
  BY DEF IndInv, TypeOK, NothingStuck, ModifiersAccountedFor, RepeatHasAFinger,
         RepeatAgrees, Accounts, KeysExplained, ModsExplained, Fingers, Dev, Told

(* An event that touches no entry and ends on reports that are explained.  *)
LEMMA ListUntouched ==
  ASSUME IndInv, ~ended, held' = held, repeating' = repeating, ended' = ended,
         info' \in [Device -> Info \cup {Unannounced}],
         os' \in Dev, Accounts(held, os'),
         buttons' \in SUBSET Button, os'.buttons = buttons'
  PROVE  IndInv'
  BY Opened, Closed

LEMMA DeviceAttachedStep ==
  ASSUME IndInv, ~ended, NEW d \in Device, NEW i \in Info, DeviceAttached(d, i)
  PROVE  IndInv'
  BY Opened, ListUntouched DEF DeviceAttached, Reports, NoReport

(* Fingers leaving take the repeat with them.                              *)
LEMMA RepeatAfterLeaving ==
  ASSUME NEW h \in Fingers, NEW S \in SUBSET Finger, NEW r, RepeatAgrees(r, h)
  PROVE  RepeatAgrees(IF r \in S THEN NoFinger ELSE r, Without(h, S))
  BY DEF RepeatAgrees, Without, Fingers

LEMMA DeviceDetachedStep ==
  ASSUME IndInv, ~ended, NEW d \in Device, DeviceDetached(d)
  PROVE  IndInv'
<1> DEFINE S == {d} \X Key
<1>1. S \in SUBSET Finger
  BY DEF Finger
<1>2. held' = Without(held, S) /\ os' = ReleaseHeld(Begin, held, S).dev
  BY DEF DeviceDetached, Reports
<1>3. RepeatAgrees(repeating', held')
  BY <1>1, <1>2, Opened, RepeatAfterLeaving DEF DeviceDetached, DisarmIfReleased
<1>4. /\ held' \in Fingers /\ os' \in Dev
      /\ os'.buttons = os.buttons /\ Accounts(held', os')
  <2>1. /\ held \in Fingers /\ Begin.dev \in Dev /\ Accounts(held, Begin.dev)
        /\ Begin.dev = os
    BY Opened
  <2> HIDE DEF S
  <2> QED
    BY <1>1, <1>2, <2>1, ReleaseHeldAccounts
<1> QED
  BY <1>3, <1>4, Opened, Closed DEF DeviceDetached

LEMMA KeyDownAgainStep ==
  ASSUME IndInv, ~ended, NEW f \in Finger, KeyDownAgain(f)
  PROVE  IndInv'
<1>1. CASE held[f].kind = "Down"
  <2>1. held[f].key \in Key /\ held[f].mods \in SUBSET ModifierKey
    BY <1>1, Opened, StateFields DEF Fingers
  <2>2. os' = Rendered(os, KeyDownOf(held[f].key, held[f].mods))
    BY <1>1 DEF KeyDownAgain, Reports, Inject, Begin
  <2>3. os' \in Dev /\ os'.buttons = os.buttons /\ Accounts(held, os')
    BY <1>1, <2>1, <2>2, Opened, KeyDownRendered, SaidAgain DEF Fingers
  <2> QED
    BY <2>3, Opened, ListUntouched DEF KeyDownAgain
<1>2. CASE held[f].kind # "Down"
  BY <1>2, Opened, ListUntouched DEF KeyDownAgain, NoReport, Reports, Begin
<1> QED
  BY <1>1, <1>2

(* Interrupting the taps touches nothing the OS was told of.               *)
LEMMA TapsInterruptedAccounts ==
  ASSUME NEW h \in Fingers, NEW dev \in Dev, Accounts(h, dev)
  PROVE  LET g == TapsInterrupted(h)
         IN /\ g \in Fingers /\ Accounts(g, dev)
            /\ \A f \in Finger \ Unsent(h) : g[f] = h[f]
<1> DEFINE g == TapsInterrupted(h)
<1>1. \A f \in Finger \ Unsent(h) : g[f] = h[f]
  BY DEF TapsInterrupted
<1>2. ASSUME NEW f \in Unsent(h)
      PROVE  g[f] \in HeldState /\ g[f].kind = "Undecided"
  <2>1. g[f] = [h[f] EXCEPT !.alone = FALSE] /\ h[f] \in HeldState
    BY DEF TapsInterrupted, Unsent, Fingers
  <2> QED
    BY <2>1 DEF Unsent, HeldState
<1>3. g \in Fingers
  BY <1>1, <1>2 DEF TapsInterrupted, Fingers, Unsent
<1>4. Told(g) = Told(h) /\ \A f \in Told(h) : g[f] = h[f]
  BY <1>1, <1>2 DEF Told, Unsent
<1> QED
  BY <1>1, <1>3, <1>4, SameTold

(* Nor does sending the holds touch any entry but theirs.                  *)
LEMMA HoldsSentElsewhere ==
  ASSUME NEW h \in Fingers
  PROVE  \A f \in Finger \ Unsent(h) : HoldsSent(h)[f] = h[f]
  BY DEF HoldsSent
(* A press resolves to something the layout can answer.                    *)
LEMMA ResolvedType ==
  ASSUME IndInv, NEW f \in Finger
  PROVE  Resolved(f) \in Outcome
<1>1. f[1] \in Device /\ f[2] \in Key
  BY DEF Finger
<1>2. CASE info[f[1]] = Unannounced
  <2>1. Resolved(f) = [kind |-> "Emit", key |-> f[2], consumed |-> {}, added |-> {}]
    BY <1>2 DEF Resolved
  <2> QED
    BY <1>1, <2>1 DEF Outcome
<1>3. CASE info[f[1]] # Unannounced
  <2>1. info[f[1]] \in Info
    BY <1>1, <1>3, Opened
  <2>2. \A ms \in SUBSET ModifierKey : Kinds(ms) \in SUBSET Kind
    BY ModifierAssumption DEF Kinds
  <2>3. KeysInEffect(held) \in SUBSET ModifierKey
    BY Opened, EffectTypes
  <2>4. HoldsOf(held, Unsent(held)) \in SUBSET ModifierKey
    BY Opened, EffectTypes DEF BitKey
  <2>5. ModifiersForRules(held) \in SUBSET Kind
    BY <2>2, <2>3, <2>4 DEF ModifiersForRules
  <2>6. HenkanHeld(held) \in BOOLEAN
    BY DEF HenkanHeld
  <2>7. <<info[f[1]], f[2], ModifiersForRules(held), HenkanHeld(held)>>
          \in Info \X Key \X (SUBSET Kind) \X BOOLEAN
    BY <1>1, <2>1, <2>5, <2>6
  <2> QED
    BY <1>3, <2>7, LayoutAssumption DEF Resolved
<1> QED
  BY <1>2, <1>3

(* Consuming and adding modifiers makes a set of modifier keys.            *)
LEMMA BorrowedTypes ==
  ASSUME NEW ms \in SUBSET ModifierKey, NEW consumed, NEW added
  PROVE  /\ WithoutKinds(ms, consumed) \in SUBSET ModifierKey
         /\ WithKinds(ms, added) \in SUBSET ModifierKey
  BY ModifierAssumption DEF WithoutKinds, WithKinds

LEMMA KeyDownEmitsStep ==
  ASSUME IndInv, ~ended, NEW f \in Finger, KeyDownEmits(f)
  PROVE  IndInv'
<1> DEFINE out == Resolved(f)
           types == out.key \notin ModifierKey
           alone == TapsInterrupted(held)
           h == IF types THEN HoldsSent(alone) ELSE alone
           p == IF types THEN SendLazyHolds(Begin, alone) ELSE Begin
           ms == WithKinds(WithoutKinds(KeysInEffect(h), out.consumed), out.added)
                   \cup ({out.key} \cap ModifierKey)
<1>1. /\ ~IsDown(f) /\ out.kind = "Emit"
      /\ os' = Rendered(p.dev, KeyDownOf(out.key, ms))
      /\ held' = [h EXCEPT ![f] = Down(out.key, ms)]
      /\ repeating' = IF types /\ Repeats THEN f ELSE repeating
      /\ UNCHANGED <<info, buttons, ended>>
  BY DEF KeyDownEmits, Reports, Inject
<1>2. out.key \in Key
  BY <1>1, ResolvedType DEF Outcome
<1>3. /\ alone \in Fingers /\ Accounts(alone, Begin.dev) /\ Begin.dev \in Dev
      /\ \A e \in Finger \ Unsent(held) : alone[e] = held[e]
  BY Opened, TapsInterruptedAccounts
<1>4. /\ h \in Fingers /\ p.dev \in Dev /\ Accounts(h, p.dev)
      /\ p.dev.buttons = os.buttons
  <2> HIDE DEF alone
  <2>1. /\ HoldsSent(alone) \in Fingers
        /\ SendLazyHolds(Begin, alone).dev \in Dev
        /\ SendLazyHolds(Begin, alone).dev.buttons = Begin.dev.buttons
        /\ Accounts(HoldsSent(alone), SendLazyHolds(Begin, alone).dev)
    BY <1>3, SendLazyHoldsAccounts
  <2> QED
    BY <1>3, <2>1, Opened
<1>5. \A e \in Finger : held[e].kind \in {"Down", "NotDown"} => h[e] = held[e]
  <2>1. \A e \in Finger : held[e].kind \in {"Down", "NotDown"} => alone[e] = held[e]
    BY <1>3 DEF Unsent
  <2> HIDE DEF alone
  <2>2. \A e \in Finger : held[e].kind \in {"Down", "NotDown"} => HoldsSent(alone)[e] = alone[e]
    BY <1>3, <2>1, HoldsSentElsewhere DEF Unsent
  <2> QED
    BY <2>1, <2>2
<1>6. held[f].kind = "NotDown" /\ h[f].kind = "NotDown"
  BY <1>1, <1>5 DEF IsDown, NotDown
<1> HIDE DEF h, p
<1>7. ms \in SUBSET ModifierKey
  BY <1>4, EffectTypes, BorrowedTypes
<1> HIDE DEF ms, out
<1>8. /\ held' \in Fingers /\ os' \in Dev
      /\ os'.buttons = p.dev.buttons /\ Accounts(held', os')
  BY <1>1, <1>2, <1>4, <1>6, <1>7, KeyDownAccounts
<1>9. RepeatAgrees(repeating', held')
  <2>1. held'[f].kind = "Down" /\ held'[f].key = out.key
    BY <1>1, <1>4 DEF Fingers, Down
  <2>2. \A e \in Finger \ {f} : held'[e] = h[e]
    BY <1>1, <1>4 DEF Fingers
  <2>3. CASE types /\ Repeats
    BY <1>1, <2>1, <2>3 DEF RepeatAgrees
  <2>4. CASE ~(types /\ Repeats)
    BY <1>1, <1>5, <1>6, <2>2, <2>4, Opened DEF RepeatAgrees
  <2> QED
    BY <2>3, <2>4
<1> QED
  BY <1>1, <1>4, <1>8, <1>9, Opened, Closed

LEMMA KeyDownSilentStep ==
  ASSUME IndInv, ~ended, NEW f \in Finger, KeyDownSilent(f)
  PROVE  IndInv'
<1> DEFINE out == Resolved(f)
           alone == TapsInterrupted(held)
<1>1. PICK s : /\ held' = [alone EXCEPT ![f] = s]
              /\ s = CASE out.kind = "Swallow" -> Swallowed
                       [] out.kind = "HoldHenkan" -> Henkan
                       [] out.kind = "TapHold" -> Undecided(out.hold, out.tap)
  BY DEF KeyDownSilent
<1>2. /\ ~IsDown(f) /\ out.kind # "Emit" /\ os' = os
      /\ UNCHANGED <<info, repeating, buttons, ended>>
  BY Opened DEF KeyDownSilent, NoReport, Reports
<1>3. s \in HeldState /\ s.kind \notin {"Down", "Sent"}
  <2>1. out \in Outcome
    BY ResolvedType
  <2>2. CASE out.kind = "Swallow"
    BY <1>1, <2>2 DEF Swallowed, HeldState
  <2>3. CASE out.kind = "HoldHenkan"
    BY <1>1, <2>3 DEF Henkan, HeldState
  <2>4. CASE out.kind = "TapHold"
    <3>1. out.hold \in BitKey /\ out.tap \in Key
      BY <2>1, <2>4 DEF Outcome, BitKey
    <3>2. s = Undecided(out.hold, out.tap)
      BY <1>1, <2>4
    <3> QED
      BY <3>1, <3>2 DEF Undecided, HeldState, BitKey
  <2> QED
    BY <1>2, <2>1, <2>2, <2>3, <2>4 DEF Outcome
<1>4. /\ alone \in Fingers /\ Accounts(alone, os)
      /\ \A e \in Finger \ Unsent(held) : alone[e] = held[e]
  BY Opened, TapsInterruptedAccounts
<1>5. held[f].kind = "NotDown" /\ alone[f].kind = "NotDown"
  BY <1>2, <1>4 DEF IsDown, NotDown, Unsent
<1> HIDE DEF alone
<1>6. /\ held' \in Fingers /\ held'[f] = s
      /\ \A e \in Finger \ {f} : held'[e] = alone[e]
  BY <1>1, <1>3, <1>4 DEF Fingers
<1>7. Told(held') = Told(alone) /\ \A e \in Told(alone) : held'[e] = alone[e]
  BY <1>3, <1>5, <1>6 DEF Told
<1>8. Accounts(held', os')
  BY <1>2, <1>4, <1>6, <1>7, Opened, SameTold
<1>9. RepeatAgrees(repeating', held')
  BY <1>2, <1>4, <1>5, <1>6, Opened DEF RepeatAgrees, Unsent
<1> QED
  BY <1>2, <1>6, <1>8, <1>9, Opened, Closed
LEMMA KeyUpUnheldStep ==
  ASSUME IndInv, ~ended, NEW f \in Finger, KeyUpUnheld(f)
  PROVE  IndInv'
<1> DEFINE left == KeysInEffect(held)
<1>1. f[2] \in Key /\ left \in SUBSET ModifierKey
  BY Opened, EffectTypes DEF Finger
<1>2. os' = Rendered(os, KeyUpOf(f[2], left))
  BY DEF KeyUpUnheld, Reports, Inject, Begin
<1>3. /\ os' \in Dev /\ os'.buttons = os.buttons
      /\ os'.keys \subseteq os.keys
      /\ os'.mods = os.mods \/ os'.mods = Bits(left)
  BY <1>1, <1>2, Opened, KeyUpRendered
<1>4. Accounts(held, os')
  BY <1>3, Opened DEF Accounts, KeysExplained, ModsExplained
<1> QED
  BY <1>3, <1>4, Opened, ListUntouched DEF KeyUpUnheld

LEMMA KeyUpHeldStep ==
  ASSUME IndInv, ~ended, NEW f \in Finger, KeyUpHeld(f)
  PROVE  IndInv'
<1> DEFINE s == held[f]
           h == Without(held, {f})
           typed == Inject(Begin, KeyDownOf(s.tap, KeysInEffect(h)))
<1>1. /\ IsDown(f) /\ held' = h
      /\ repeating' = IF repeating \in {f} THEN NoFinger ELSE repeating
      /\ UNCHANGED <<info, buttons, ended>>
  BY DEF KeyUpHeld, DisarmIfReleased
<1>2. os' = CASE f \in Told(held) -> ReleaseAtTheOs(Begin, h, s.key, s.mods).dev
              [] IsTap(s) -> ReleaseAtTheOs(typed, h, s.tap, KeysInEffect(h)).dev
              [] OTHER -> os
  BY DEF KeyUpHeld, Reports, Begin
<1>3. /\ held \in Fingers /\ os \in Dev /\ Accounts(held, os) /\ s \in HeldState
      /\ Begin.dev = os
  BY Opened DEF Fingers
<1>4. h \in Fingers /\ KeysInEffect(h) \in SUBSET ModifierKey
  <2>1. h \in Fingers
    BY <1>3 DEF Without, Fingers, HeldState, NotDown
  <2> QED
    BY <2>1, EffectTypes
<1>5. RepeatAgrees(repeating', held')
  BY <1>1, <1>3, Opened, RepeatAfterLeaving
<1>6. ASSUME NEW after \in Dev,
             after.keys = os.keys \ {held[e].key : e \in {f} \cap Told(held)},
             \/ after.mods = Bits(KeysInEffect(h))
             \/ /\ \A e \in {f} \cap Told(held) : held[e].key \in Unsayable
                /\ after.mods = os.mods
      PROVE  Accounts(h, after)
  BY <1>3, <1>6, FingersLeave
<1>7. CASE f \in Told(held)
  <2>1. s.key \in Key /\ s.mods \in SUBSET ModifierKey
    BY <1>3, <1>7, StateFields DEF Told
  <2>2. os' = ReleaseAtTheOs(Begin, h, s.key, s.mods).dev
    <3>1. ~IsTap(s)
      BY <1>7 DEF Told, IsTap
    <3> QED
      BY <1>2, <1>7, <3>1
  <2> HIDE DEF h
  <2>3. /\ os' \in Dev /\ os'.keys = os.keys \ {s.key} /\ os'.buttons = os.buttons
        /\ \/ os'.mods = Bits(KeysInEffect(h))
           \/ s.key \in Unsayable /\ os'.mods = os.mods
    BY <1>3, <1>4, <2>1, <2>2, ReleaseAtTheOsReports
  <2>4. {held[e].key : e \in {f} \cap Told(held)} = {s.key}
    BY <1>7
  <2>5. Accounts(h, os')
    BY <1>6, <1>7, <2>3, <2>4
  <2> QED
    BY <1>1, <1>4, <1>5, <2>3, <2>5, Opened, Closed
<1>8. ASSUME f \notin Told(held), os' \in Dev, os'.buttons = os.buttons,
             os'.keys = os.keys, os'.mods = Bits(KeysInEffect(h)) \/ os'.mods = os.mods
      PROVE  IndInv'
  <2>1. {held[e].key : e \in {f} \cap Told(held)} = {} /\ {f} \cap Told(held) = {}
    BY <1>8
  <2>2. Accounts(h, os')
    BY <1>6, <1>8, <2>1
  <2> QED
    BY <1>1, <1>4, <1>5, <1>8, <2>2, Opened, Closed
<1>9. CASE f \notin Told(held) /\ IsTap(s)
  <2>1. s.tap \in Key
    BY <1>3, <1>9, StateFields DEF IsTap
  <2>2. os' = ReleaseAtTheOs(typed, h, s.tap, KeysInEffect(h)).dev
    BY <1>2, <1>9
  <2>3. typed.dev = Rendered(os, KeyDownOf(s.tap, KeysInEffect(h)))
    BY <1>3 DEF Inject
  <2> HIDE DEF h, typed
  <2>4. /\ typed.dev \in Dev /\ typed.dev.keys \subseteq os.keys \cup {s.tap}
        /\ typed.dev.buttons = os.buttons
        /\ typed.dev.mods = Bits(KeysInEffect(h)) \/ typed.dev.mods = os.mods
    BY <1>3, <1>4, <2>1, <2>3, KeyDownRendered
  <2>5. /\ os' \in Dev /\ os'.keys \subseteq os.keys /\ os'.buttons = os.buttons
        /\ os'.mods = Bits(KeysInEffect(h)) \/ os'.mods = os.mods
    BY <1>4, <2>1, <2>2, <2>4, ReleaseAtTheOsReports
  <2>6. {f} \cap Told(held) = {}
    BY <1>9
  <2>7. KeysExplained(h, os'.keys) /\ ModsExplained(h, os'.mods)
    <3>1. Accounts(h, [os EXCEPT !.mods = os'.mods])
      <4>1. [os EXCEPT !.mods = os'.mods] \in Dev
        BY <1>3, <2>5 DEF Dev
      <4> QED
        BY <1>3, <1>6, <2>5, <2>6, <4>1 DEF Dev
    <3> QED
      BY <1>3, <2>5, <3>1 DEF Accounts, KeysExplained, Dev
  <2> QED
    BY <1>1, <1>4, <1>5, <2>5, <2>7, Opened, Closed DEF Accounts
<1>10. CASE f \notin Told(held) /\ ~IsTap(s)
  BY <1>2, <1>3, <1>8, <1>10
<1> QED
  BY <1>7, <1>9, <1>10
LEMMA TapWindowClosesStep ==
  ASSUME IndInv, ~ended, NEW f \in Finger, TapWindowCloses(f)
  PROVE  IndInv'
<1>1. /\ held[f].kind = "Undecided" /\ os' = os
      /\ held' = [held EXCEPT ![f] = [held[f] EXCEPT !.late = TRUE]]
      /\ UNCHANGED <<info, repeating, buttons, ended>>
  BY DEF TapWindowCloses
<1>2. held \in Fingers /\ held[f] \in HeldState
  BY Opened DEF Fingers
<1>3. /\ [held[f] EXCEPT !.late = TRUE] \in HeldState
      /\ [held[f] EXCEPT !.late = TRUE].kind = "Undecided"
  BY <1>1, <1>2 DEF HeldState
<1>4. /\ held' \in Fingers /\ held'[f].kind = "Undecided"
      /\ \A e \in Finger \ {f} : held'[e] = held[e]
  BY <1>1, <1>2, <1>3 DEF Fingers
<1>5. Told(held') = Told(held) /\ \A e \in Told(held) : held'[e] = held[e]
  BY <1>1, <1>4 DEF Told
<1>6. Accounts(held', os')
  BY <1>1, <1>2, <1>4, <1>5, Opened, SameTold
<1>7. RepeatAgrees(repeating', held')
  BY <1>1, <1>4, Opened DEF RepeatAgrees
<1> QED
  BY <1>1, <1>4, <1>6, <1>7, Opened, Closed

LEMMA TimerStep ==
  ASSUME IndInv, ~ended, Timer
  PROVE  IndInv'
<1> DEFINE s == held[repeating]
<1>1. /\ repeating \in Finger /\ s.kind = "Down" /\ s \in HeldState
  BY Opened DEF Timer, RepeatAgrees, Fingers
<1>2. s.key \in Key /\ s.mods \in SUBSET ModifierKey
  BY <1>1, StateFields
<1>3. IsDown(repeating)
  BY <1>1 DEF IsDown, NotDown
<1> DEFINE up == Rendered(os, KeyUpOf(s.key, s.mods))
<1>4. /\ os' = Rendered(up, KeyDownOf(s.key, s.mods))
      /\ UNCHANGED <<info, held, repeating, buttons, ended>>
  BY <1>1, <1>3 DEF Timer, Reports, Inject, Begin
<1>5. /\ up \in Dev /\ up.keys \subseteq os.keys /\ up.buttons = os.buttons
      /\ up.mods = IF s.key \in Unsayable THEN os.mods ELSE Bits(s.mods)
  BY <1>2, Opened, KeyUpRendered
<1> HIDE DEF up
<1>6. /\ os' \in Dev /\ os'.keys \subseteq os.keys \cup {s.key}
      /\ os'.buttons = os.buttons
      /\ os'.mods = IF s.key \in Unsayable THEN os.mods ELSE Bits(s.mods)
  BY <1>2, <1>4, <1>5, KeyDownRendered
<1>7. Accounts(held, os')
  BY <1>1, <1>6, Opened, SaidAgain
<1> QED
  BY <1>4, <1>6, <1>7, Opened, ListUntouched

LEMMA PointerStep ==
  ASSUME IndInv, ~ended, NEW bs \in SUBSET Button, NEW still \in BOOLEAN, Pointer(bs, still)
  PROVE  IndInv'
<1> DEFINE settles == Settles(bs)
           p == IF settles THEN SendLazyHolds(Begin, held) ELSE Begin
           h == IF settles THEN HoldsSent(held) ELSE held
<1>1. /\ held' = h
      /\ UNCHANGED <<info, repeating, ended>>
      /\ \/ os' = p.dev /\ buttons' = buttons
         \/ os' = Rendered(p.dev, PointerOf(bs)) /\ buttons' = bs
  BY DEF Pointer, Reports, Inject
<1>2. /\ h \in Fingers /\ p.dev \in Dev /\ p.dev.buttons = buttons /\ Accounts(h, p.dev)
  BY Opened, SendLazyHoldsAccounts
<1>3. RepeatAgrees(repeating, h)
  BY Opened, HoldsSentElsewhere DEF RepeatAgrees, Unsent
<1> HIDE DEF p, h
<1>4. os' \in Dev /\ os'.buttons = buttons' /\ Accounts(h, os')
  BY <1>1, <1>2, PointerRendered DEF Accounts
<1> QED
  BY <1>1, <1>2, <1>3, <1>4, Opened, Closed

LEMMA ReleaseEverythingStep ==
  ASSUME IndInv, ~ended, ReleaseEverything
  PROVE  IndInv'
<1> DEFINE p == ReleaseHeld(Begin, held, Finger)
           h == Without(held, Finger)
<1>1. /\ held' = h /\ buttons' = {} /\ ended' = TRUE /\ info' = info
      /\ repeating' = IF repeating \in Finger THEN NoFinger ELSE repeating
      /\ os' = IF buttons # {} THEN Rendered(p.dev, PointerOf({})) ELSE p.dev
  BY DEF ReleaseEverything, ButtonsLetGo, DisarmIfReleased, Reports, Inject
<1>2. h \in Fingers /\ p.dev \in Dev /\ p.dev.buttons = buttons /\ Accounts(h, p.dev)
  BY Opened, ReleaseHeldAccounts
<1>3. RepeatAgrees(repeating', held')
  BY <1>1, Opened, RepeatAfterLeaving
<1>4. Without(h, Finger) = h
  BY DEF Without
<1> HIDE DEF p, h
<1>5. os' \in Dev /\ os'.buttons = {} /\ Accounts(h, os')
  BY <1>1, <1>2, Opened, PointerRendered DEF Accounts
<1> QED
  BY <1>1, <1>2, <1>3, <1>4, <1>5, Opened
  DEF IndInv, TypeOK, NothingStuck, ModifiersAccountedFor, RepeatHasAFinger,
      RepeatAgrees, Accounts, KeysExplained, ModsExplained, Fingers, Dev

-----------------------------------------------------------------------------
(* The theorems.                                                           *)

LEMMA InitInv == Init => IndInv
<1> SUFFICES ASSUME Init PROVE IndInv
  OBVIOUS
<1>1. held \in Fingers /\ Told(held) = {} /\ Without(held, Finger) = held
  BY DEF Init, Fingers, HeldState, NotDown, Told, Without
<1>2. Bits(KeysInEffect(held)) = {}
  BY <1>1 DEF KeysInEffect, Bits
<1>3. os = [keys |-> {}, mods |-> {}, buttons |-> {}]
  BY DEF Init
<1>4. TypeOK
  <2>1. os \in Dev
    BY <1>3 DEF Dev
  <2>2. info \in [Device -> Info \cup {Unannounced}]
    BY DEF Init
  <2>3. repeating = NoFinger /\ buttons = {} /\ ended = FALSE
    BY DEF Init
  <2> QED
    BY <1>1, <2>1, <2>2, <2>3 DEF TypeOK, Fingers, Dev
<1> QED
  BY <1>1, <1>2, <1>3, <1>4
  DEF Init, IndInv, NothingStuck, ModifiersAccountedFor, RepeatHasAFinger

LEMMA StepInv == IndInv /\ [Next]_vars => IndInv'
<1> SUFFICES ASSUME IndInv, [Next]_vars PROVE IndInv'
  OBVIOUS
<1>1. CASE UNCHANGED vars
  BY <1>1 DEF vars, IndInv, TypeOK, NothingStuck, ModifiersAccountedFor,
     RepeatHasAFinger, Told
<1>2. CASE Next
  <2>1. ~ended
    BY <1>2 DEF Next
  <2>2. ASSUME Arrives PROVE IndInv'
    BY <2>1, <2>2, Opened, ListUntouched DEF Arrives, NoReport, Reports
  <2> QED
    BY <1>2, <2>1, <2>2, DeviceAttachedStep, DeviceDetachedStep, KeyDownAgainStep,
       KeyDownEmitsStep, KeyDownSilentStep, KeyUpUnheldStep, KeyUpHeldStep,
       TapWindowClosesStep, TimerStep, PointerStep, ReleaseEverythingStep DEF Next
<1> QED
  BY <1>1, <1>2

LEMMA Invariance == Spec => []IndInv
  BY InitInv, StepInv, PTL DEF Spec

(* The state the reports are made from keeps its type.                     *)
THEOREM TypeCorrect == Spec => []TypeOK
<1>1. IndInv => TypeOK
  BY DEF IndInv
<1> QED
  BY <1>1, Invariance, PTL

(* Whatever the layout, whatever the keyboards and the order of events, no *)
(* key stays down at the OS that no finger is holding.                     *)
THEOREM NoStuckKey == Spec => []NothingStuck
<1>1. IndInv => NothingStuck
  BY DEF IndInv
<1> QED
  BY <1>1, Invariance, PTL

(* Every modifier the OS believes is down is in effect, or was sent with   *)
(* one key that still is.                                                  *)
THEOREM NoStrayModifier == Spec => []ModifiersAccountedFor
<1>1. IndInv => ModifiersAccountedFor
  BY DEF IndInv
<1> QED
  BY <1>1, Invariance, PTL

(* A repeat never outlives the finger that armed it.                       *)
THEOREM RepeatIsHeld == Spec => []RepeatHasAFinger
<1>1. IndInv => RepeatHasAFinger
  BY DEF IndInv
<1> QED
  BY <1>1, Invariance, PTL

(* So nothing goes on by itself: a key that is down or repeating at the OS *)
(* has a finger on it.                                                     *)
THEOREM NothingGoesOn == Spec => []NothingGoesOnAlone
<1>1. NothingStuck /\ RepeatHasAFinger => NothingGoesOnAlone
  BY DEF NothingGoesOnAlone
<1> QED
  BY <1>1, NoStuckKey, RepeatIsHeld, PTL

(* A run that ends leaves nothing of its own down at the OS: with no       *)
(* finger left in the list there is nothing that could explain it.         *)
THEOREM RunEndsClean == Spec => []EndsClean
<1>1. IndInv => EndsClean
  <2> SUFFICES ASSUME IndInv, ended
               PROVE  os = [keys |-> {}, mods |-> {}, buttons |-> {}]
    BY DEF EndsClean
  <2>1. /\ \A f \in Finger : held[f].kind = "NotDown"
        /\ os \in Dev /\ os.buttons = {} /\ Accounts(held, os)
    BY Opened DEF IndInv, Without, NotDown
  <2>2. Told(held) = {} /\ Bits(KeysInEffect(held)) = {}
    BY <2>1 DEF Told, KeysInEffect, Bits
  <2>3. os.keys = {} /\ os.mods = {}
    BY <2>1, <2>2 DEF Accounts, KeysExplained, ModsExplained
  <2> QED
    BY <2>1, <2>3 DEF Dev
<1> QED
  BY <1>1, Invariance, PTL

-----------------------------------------------------------------------------
(* Counting up, over a set of the numbers got to.                         *)
LEMMA UpTo ==
  ASSUME NEW n \in Nat, NEW P \in SUBSET (0..n), 0 \in P,
         \A i \in 1..n : i - 1 \in P => i \in P
  PROVE  \A i \in 0..n : i \in P
<1> SUFFICES ASSUME NEW i \in 0..n, i \notin P PROVE FALSE
  OBVIOUS
<1> DEFINE missing == {j \in Nat : j \in 0..n /\ j \notin P}
<1>1. IsWellFoundedOn(OpToRel(<, Nat), Nat)
  BY NatLessThanWellFounded
<1>2. missing # {} /\ missing \subseteq Nat
  OBVIOUS
<1>3. PICK j \in missing : \A m \in missing : ~(<<m, j>> \in OpToRel(<, Nat))
  BY <1>1, <1>2, WFMin
<1>4. \A m \in missing : ~(m < j)
  BY <1>3 DEF OpToRel
<1>5. j # 0 /\ j \in 1..n
  <2>1. j \in 0..n /\ j \notin P
    BY <1>3
  <2> QED  BY <2>1
<1>6. j - 1 \in 0..n /\ j - 1 < j
  BY <1>5
<1>7. j - 1 \in P
  BY <1>4, <1>6
<1> QED  BY <1>3, <1>5, <1>7

Stepping(n, X, x, step) ==
  {g \in [0..n -> X] : g[0] = x /\ \A i \in 1..n : g[i] = step[<<g[i - 1], i>>]}

(* What a step function takes a value through, one number after another.   *)
LEMMA StepByStep ==
  ASSUME NEW n \in Nat, NEW X, NEW x \in X, NEW step \in [X \X (1..n) -> X]
  PROVE  Stepping(n, X, x, step) # {}
<1> DEFINE Good(m, g) == g[0] = x /\ \A i \in 1..m : g[i] = step[<<g[i - 1], i>>]
           P == {m \in 0..n : \E g \in [0..n -> X] : Good(m, g)}
<1>1. 0 \in P
  <2>1. Good(0, [i \in 0..n |-> x])
    OBVIOUS
  <2>2. [i \in 0..n |-> x] \in [0..n -> X] /\ 0 \in 0..n
    OBVIOUS
  <2> HIDE DEF Good
  <2> QED  BY <2>1, <2>2
<1>2. ASSUME NEW i \in 1..n, i - 1 \in P PROVE i \in P
  <2>1. PICK g \in [0..n -> X] : Good(i - 1, g)
    BY <1>2
  <2> DEFINE h == [g EXCEPT ![i] = step[<<g[i - 1], i>>]]
  <2>2. h \in [0..n -> X]
    OBVIOUS
  <2>3. h[0] = x /\ h[i] = step[<<h[i - 1], i>>]
    <3>1. i \in 0..n /\ 0 \in 0..n /\ i - 1 \in 0..n /\ i # 0 /\ i # i - 1
      OBVIOUS
    <3>2. g[0] = x
      BY <2>1
    <3> QED  BY <3>1, <3>2
  <2>4. ASSUME NEW j \in 1..i - 1 PROVE h[j] = step[<<h[j - 1], j>>]
    BY <2>1
  <2>5. h[0] = x /\ \A j \in 1..i : h[j] = step[<<h[j - 1], j>>]
    <3> HIDE DEF h
    <3>1. \A j \in 1..i : j = i \/ j \in 1..i - 1
      OBVIOUS
    <3> QED  BY <2>3, <2>4, <3>1
  <2> HIDE DEF h
  <2> QED  BY <2>2, <2>5
<1>3. n \in P
  <2> HIDE DEF P
  <2>1. P \in SUBSET (0..n)
    BY DEF P
  <2> QED  BY <1>1, <1>2, <2>1, UpTo
<1> QED  BY <1>3 DEF Stepping

AmongEach(F, s, S) ==
  {g \in [0..Len(s) -> Seq(F)] :
    /\ Among(s, S) = g[Len(s)]
    /\ g[0] = <<>>
    /\ \A i \in 1..Len(s) : g[i] = IF s[i] \in S THEN Append(g[i - 1], s[i]) ELSE g[i - 1]}

LEMMA AmongSoFar ==
  ASSUME NEW F, NEW s \in Seq(F), NEW S
  PROVE  AmongEach(F, s, S) # {}
<1> DEFINE Taking(t, i) == IF s[i] \in S THEN Append(t, s[i]) ELSE t
           step(n) == [p \in Seq(F) \X (1..n) |-> Taking(p[1], p[2])]
           Rec(g) == g = [i \in 0..Len(s) |-> IF i = 0 THEN <<>> ELSE Taking(g[i - 1], i)]
<1>1. PICK n \in Nat : n = Len(s)
  OBVIOUS
<1>2. \A i \in 1..n, t \in Seq(F) : Taking(t, i) \in Seq(F)
  BY <1>1
<1>3. Among(s, S) = (CHOOSE g : Rec(g))[n]
  BY <1>1 DEF Among
<1> HIDE DEF Taking
<1>4. step(n) \in [Seq(F) \X (1..n) -> Seq(F)]
  BY <1>2
<1>5. \E g \in [0..n -> Seq(F)] : g[0] = <<>> /\ \A i \in 1..n : g[i] = step(n)[<<g[i - 1], i>>]
  <2>1. PICK st : st = step(n)
    OBVIOUS
  <2>2. PICK X, x : X = Seq(F) /\ x = <<>>
    OBVIOUS
  <2>3. st \in [X \X (1..n) -> X] /\ x \in X
    BY <1>4, <2>1, <2>2
  <2>4. Stepping(n, X, x, st) # {}
    BY <2>3, StepByStep
  <2>5. \E g \in [0..n -> X] : g[0] = x /\ \A i \in 1..n : g[i] = st[<<g[i - 1], i>>]
    BY <2>4 DEF Stepping
  <2> HIDE DEF step
  <2> QED  BY <2>1, <2>2, <2>5
<1>6. PICK g \in [0..n -> Seq(F)] : g[0] = <<>> /\ \A i \in 1..n : g[i] = Taking(g[i - 1], i)
  <2>1. PICK g \in [0..n -> Seq(F)] : g[0] = <<>> /\ \A i \in 1..n : g[i] = step(n)[<<g[i - 1], i>>]
    BY <1>5
  <2>2. ASSUME NEW i \in 1..n PROVE g[i] = Taking(g[i - 1], i)
    <3>1. i - 1 \in 0..n
      OBVIOUS
    <3>2. g[i] = step(n)[<<g[i - 1], i>>] /\ g[i - 1] \in Seq(F)
      BY <2>1, <3>1
    <3> QED  BY <3>2
  <2> QED  BY <2>1, <2>2
<1>7. Rec(g)
  <2>1. \A i \in 0..n : i = 0 \/ i \in 1..n
    OBVIOUS
  <2>2. \A i \in 0..n : g[i] = IF i = 0 THEN <<>> ELSE Taking(g[i - 1], i)
    BY <1>6, <2>1
  <2> QED  BY <1>1, <2>2
<1>8. PICK f : f = (CHOOSE h : Rec(h))
  OBVIOUS
<1>9. Rec(f)
  <2> HIDE DEF Rec
  <2> QED  BY <1>7, <1>8
<1>10. f[0] = <<>> /\ \A i \in 1..n : f[i] = Taking(f[i - 1], i)
  <2>1. \A i \in 1..n : i # 0 /\ i \in 0..n
    OBVIOUS
  <2>2. 0 \in 0..n /\ f = [i \in 0..n |-> IF i = 0 THEN <<>> ELSE Taking(f[i - 1], i)]
    BY <1>1, <1>9
  <2>3. \A i \in 0..n : f[i] = IF i = 0 THEN <<>> ELSE Taking(f[i - 1], i)
    BY <2>2
  <2> QED  BY <2>1, <2>2, <2>3
<1>11. \A i \in 0..n : f[i] \in Seq(F)
  <2> DEFINE P == {i \in 0..n : f[i] \in Seq(F)}
  <2>1. 0 \in P
    <3>1. <<>> \in Seq(F) /\ 0 \in 0..n
      OBVIOUS
    <3> QED  BY <1>10, <3>1
  <2>2. \A i \in 1..n : i - 1 \in P => i \in P
    BY <1>2, <1>10
  <2>3. P \in SUBSET (0..n) /\ \A i \in P : f[i] \in Seq(F)
    OBVIOUS
  <2> HIDE DEF P
  <2> QED  BY <2>1, <2>2, <2>3, UpTo
<1>12. f \in [0..n -> Seq(F)]
  BY <1>1, <1>9, <1>11
<1>13. /\ Among(s, S) = f[n]
       /\ \A i \in 1..n : f[i] = IF s[i] \in S THEN Append(f[i - 1], s[i]) ELSE f[i - 1]
  BY <1>3, <1>8, <1>10 DEF Taking
<1>14. \E h \in [0..n -> Seq(F)] :
         /\ Among(s, S) = h[n]
         /\ h[0] = <<>>
         /\ \A i \in 1..n : h[i] = IF s[i] \in S THEN Append(h[i - 1], s[i]) ELSE h[i - 1]
  BY <1>10, <1>12, <1>13
<1> HIDE DEF Rec, step
<1> QED  BY <1>1, <1>14 DEF AmongEach

Once(s) == \A i, j \in 1..Len(s) : s[i] = s[j] => i = j
Members(s) == {s[i] : i \in 1..Len(s)}

LEMMA OneMore ==
  ASSUME NEW F, NEW t \in Seq(F), Once(t), NEW x \in F, x \notin Members(t)
  PROVE  /\ Append(t, x) \in Seq(F) /\ Once(Append(t, x))
         /\ Members(Append(t, x)) = Members(t) \cup {x}
<1> DEFINE u == Append(t, x)  n == Len(t)
<1>1. n \in Nat /\ u \in Seq(F) /\ Len(u) = n + 1 /\ u[n + 1] = x /\ \A i \in 1..n : u[i] = t[i]
  OBVIOUS
<1> HIDE DEF u, n
<1>2. \A i \in 1..n + 1 : i \in 1..n \/ i = n + 1
  BY <1>1
<1>3. \A i \in 1..n : t[i] # x
  BY DEF Members, n
<1>4. \A i, j \in 1..n : t[i] = t[j] => i = j
  BY DEF Once, n
<1>5. Once(u)
  BY <1>1, <1>2, <1>3, <1>4 DEF Once
<1>6. Members(u) = {u[i] : i \in 1..n} \cup {u[n + 1]}
  BY <1>1, <1>2 DEF Members
<1>7. {u[i] : i \in 1..n} = {t[i] : i \in 1..n}
  BY <1>1
<1>8. Members(u) = Members(t) \cup {x}
  BY <1>1, <1>6, <1>7 DEF Members, n
<1> QED  BY <1>1, <1>5, <1>8 DEF u

(* Among keeps what is said once said once, and of it what is in S.        *)
LEMMA AmongThem ==
  ASSUME NEW F, NEW s \in Seq(F), Once(s), NEW S
  PROVE  /\ Among(s, S) \in Seq(F) /\ Once(Among(s, S))
         /\ Members(Among(s, S)) = Members(s) \cap S
<1>1. PICK n \in Nat : n = Len(s)
  OBVIOUS
<1>2. PICK g \in [0..n -> Seq(F)] :
        /\ Among(s, S) = g[n] /\ g[0] = <<>>
        /\ \A i \in 1..n : g[i] = IF s[i] \in S THEN Append(g[i - 1], s[i]) ELSE g[i - 1]
  <2>1. AmongEach(F, s, S) # {}
    BY AmongSoFar
  <2> QED  BY <1>1, <2>1 DEF AmongEach
<1> DEFINE Had(i) == {s[j] : j \in 1..i}
           P == {i \in 0..n : Once(g[i]) /\ Members(g[i]) = Had(i) \cap S}
<1>3. 0 \in P
  <2>1. Once(<<>>) /\ Members(<<>>) = {} /\ Had(0) = {}
    BY DEF Once, Members
  <2> QED  BY <1>2, <2>1
<1>4. ASSUME NEW i \in 1..n, i - 1 \in P PROVE i \in P
  <2>1. i - 1 \in 0..n /\ i \in 0..n /\ g[i - 1] \in Seq(F) /\ s[i] \in F
    <3>1. i - 1 \in 0..n /\ i \in 0..n /\ i \in 1..Len(s)
      BY <1>1
    <3> QED  BY <1>2, <3>1
  <2>2. Once(g[i - 1]) /\ Members(g[i - 1]) = Had(i - 1) \cap S
    BY <1>4
  <2>3. Had(i) = Had(i - 1) \cup {s[i]}
    <3>1. \A j \in 1..i : j \in 1..i - 1 \/ j = i
      OBVIOUS
    <3>2. \A j \in 1..i - 1 : j \in 1..i
      OBVIOUS
    <3> QED  BY <3>1, <3>2
  <2>4. CASE s[i] \in S
    <3>1. s[i] \notin Had(i - 1)
      <4>1. \A j \in 1..i - 1 : j \in 1..Len(s) /\ i \in 1..Len(s) /\ j # i
        BY <1>1
      <4> QED  BY <4>1 DEF Once
    <3> HIDE DEF Had
    <3>2. g[i] = Append(g[i - 1], s[i])
      BY <1>2, <2>4
    <3>3. Once(g[i]) /\ Members(g[i]) = Members(g[i - 1]) \cup {s[i]}
      BY <2>1, <2>2, <3>1, <3>2, OneMore
    <3> QED  BY <2>1, <2>2, <2>3, <2>4, <3>3
  <2>5. CASE s[i] \notin S
    <3> HIDE DEF Had
    <3>1. g[i] = g[i - 1]
      BY <1>2, <2>5
    <3> QED  BY <2>1, <2>2, <2>3, <2>5, <3>1
  <2> QED  BY <2>4, <2>5
<1>5. n \in P
  <2>1. P \in SUBSET (0..n) /\ n \in 0..n
    BY <1>1
  <2> HIDE DEF P
  <2> QED  BY <1>1, <1>3, <1>4, <2>1, UpTo
<1>6. Had(n) = Members(s)
  BY <1>1 DEF Members
<1>7. g[n] \in Seq(F)
  BY <1>1, <1>2
<1> QED  BY <1>2, <1>5, <1>6, <1>7

(* And it keeps the order of what is left.                                 *)
LEMMA AmongInOrder ==
  ASSUME NEW F, NEW s \in Seq(F), NEW S,
         NEW p \in 1..Len(Among(s, S)), NEW q \in 1..Len(Among(s, S)), p < q
  PROVE  \E a, b \in 1..Len(s) : a < b /\ Among(s, S)[p] = s[a] /\ Among(s, S)[q] = s[b]
<1>1. PICK n \in Nat : n = Len(s)
  OBVIOUS
<1>2. PICK g \in [0..n -> Seq(F)] :
        /\ Among(s, S) = g[n] /\ g[0] = <<>>
        /\ \A i \in 1..n : g[i] = IF s[i] \in S THEN Append(g[i - 1], s[i]) ELSE g[i - 1]
  <2>1. AmongEach(F, s, S) # {}
    BY AmongSoFar
  <2> QED  BY <1>1, <2>1 DEF AmongEach
<1> DEFINE Each(t, i) == \A k \in 1..Len(t) : \E a \in 1..i : t[k] = s[a]
           Ordered(t, i) == \A k, m \in 1..Len(t) : k < m =>
                              \E a, b \in 1..i : a < b /\ t[k] = s[a] /\ t[m] = s[b]
           P == {i \in 0..n : Each(g[i], i) /\ Ordered(g[i], i)}
<1>3. 0 \in P
  BY <1>2
<1>4. ASSUME NEW i \in 1..n, i - 1 \in P PROVE i \in P
  <2>1. i - 1 \in 0..n /\ i \in 0..n /\ \A a \in 1..i - 1 : a \in 1..i /\ a < i
    OBVIOUS
  <2>2. PICK t \in Seq(F) : t = g[i - 1] /\ Each(t, i - 1) /\ Ordered(t, i - 1)
    BY <1>2, <1>4, <2>1
  <2>3. Each(t, i) /\ Ordered(t, i)
    <3>1. Each(t, i)
      BY <2>1, <2>2
    <3>2. Ordered(t, i)
      <4> SUFFICES ASSUME NEW k \in 1..Len(t), NEW m \in 1..Len(t), k < m
                   PROVE  \E a, b \in 1..i : a < b /\ t[k] = s[a] /\ t[m] = s[b]
        OBVIOUS
      <4>1. PICK a, b \in 1..i - 1 : a < b /\ t[k] = s[a] /\ t[m] = s[b]
        BY <2>2
      <4> QED  BY <2>1, <4>1
    <3> QED  BY <3>1, <3>2
  <2>4. CASE s[i] \in S
    <3>1. PICK u \in Seq(F) : u = g[i] /\ u = Append(t, s[i])
      BY <1>2, <2>1, <2>2, <2>4
    <3>2. /\ Len(u) = Len(t) + 1 /\ u[Len(u)] = s[i]
          /\ \A k \in 1..Len(t) : u[k] = t[k]
      <4>1. s[i] \in F
        BY <1>1
      <4> QED  BY <2>2, <3>1, <4>1
    <3>3. \A k \in 1..Len(u) : k \in 1..Len(t) \/ k = Len(u)
      BY <2>2, <3>2
    <3>4. Each(u, i)
      <4> SUFFICES ASSUME NEW k \in 1..Len(u) PROVE \E a \in 1..i : u[k] = s[a]
        OBVIOUS
      <4>1. CASE k \in 1..Len(t)
        <5>1. u[k] = t[k]
          BY <3>2, <4>1
        <5>2. PICK a \in 1..i : t[k] = s[a]
          BY <2>3, <4>1
        <5> QED  BY <5>1, <5>2
      <4>2. CASE k = Len(u)
        <5>1. i \in 1..i
          OBVIOUS
        <5> QED  BY <3>2, <4>2, <5>1
      <4> QED  BY <3>3, <4>1, <4>2
    <3>5. Ordered(u, i)
      <4> SUFFICES ASSUME NEW k \in 1..Len(u), NEW m \in 1..Len(u), k < m
                   PROVE  \E a, b \in 1..i : a < b /\ u[k] = s[a] /\ u[m] = s[b]
        OBVIOUS
      <4>1. k \in 1..Len(t)
        BY <3>3
      <4>2. CASE m \in 1..Len(t)
        <5>1. PICK a, b \in 1..i : a < b /\ t[k] = s[a] /\ t[m] = s[b]
          BY <2>3, <4>1, <4>2
        <5>2. u[k] = t[k] /\ u[m] = t[m]
          BY <3>2, <4>1, <4>2
        <5> QED  BY <5>1, <5>2
      <4>3. CASE m = Len(u)
        <5>1. PICK a \in 1..i - 1 : t[k] = s[a]
          BY <2>2, <4>1
        <5>2. a \in 1..i /\ i \in 1..i /\ a < i
          BY <2>1
        <5> QED  BY <3>2, <4>1, <4>3, <5>1, <5>2
      <4> QED  BY <3>3, <4>2, <4>3
    <3> HIDE DEF Each, Ordered
    <3> QED  BY <2>1, <3>1, <3>4, <3>5
  <2>5. CASE s[i] \notin S
    <3>1. g[i] = t
      BY <1>2, <2>2, <2>5
    <3> HIDE DEF Each, Ordered
    <3> QED  BY <2>1, <2>3, <3>1
  <2> QED  BY <2>4, <2>5
<1>5. n \in P
  <2>1. P \in SUBSET (0..n) /\ n \in 0..n
    BY <1>1
  <2> HIDE DEF P
  <2> QED  BY <1>1, <1>3, <1>4, <2>1, UpTo
<1>6. Ordered(g[n], n)
  BY <1>5
<1> QED  BY <1>1, <1>2, <1>6

FromThem(t, s, i) ==
  \A k \in 1..Len(t) : \E m \in 1..i : \E r \in 1..Len(s[m]) :
    /\ t[k] = s[m][r]
    /\ \A b \in 1..m - 1 : \A c \in 1..Len(s[b]) : \E a \in 1..k - 1 : t[a] = s[b][c]
AllOfThem(t, s, i) ==
  \A m \in 1..i : \A r \in 1..Len(s[m]) : \E k \in 1..Len(t) : t[k] = s[m][r]

FlattenEach(g, s) ==
  /\ FlattenSeq(s) = g[Len(s)] /\ g[1] = s[1]
  /\ \A i \in 2..Len(s) : g[i] = g[i - 1] \o s[i]

LEMMA FlattenSoFar ==
  ASSUME NEW X, NEW s \in Seq(Seq(X)), s # <<>>
  PROVE  \E g : FlattenEach(g, s)
<1> DEFINE Joined(t, i) == t \o s[i]
           step(n) == [p \in Seq(X) \X (1..n) |-> Joined(p[1], p[2])]
           Rec(g) == g = [i \in 1..Len(s) |-> IF i = 1 THEN s[i] ELSE Joined(g[i - 1], i)]
<1>1. PICK n \in Nat : n = Len(s) /\ n # 0
  OBVIOUS
<1>2. \A i \in 1..n, t \in Seq(X) : Joined(t, i) \in Seq(X)
  BY <1>1
<1>3. FlattenSeq(s) = (CHOOSE g : Rec(g))[n]
  BY <1>1 DEF FlattenSeq
<1>4. 1 \in 1..n /\ s[1] \in Seq(X) /\ <<>> \o s[1] = s[1]
  BY <1>1
<1>5. Joined(<<>>, 1) = s[1]
  BY <1>4
<1> HIDE DEF Joined
<1>6. step(n) \in [Seq(X) \X (1..n) -> Seq(X)]
  BY <1>2
<1>7. \E g \in [0..n -> Seq(X)] : g[0] = <<>> /\ \A i \in 1..n : g[i] = step(n)[<<g[i - 1], i>>]
  <2>1. PICK st : st = step(n)
    OBVIOUS
  <2>2. PICK Y, y : Y = Seq(X) /\ y = <<>>
    OBVIOUS
  <2>3. st \in [Y \X (1..n) -> Y] /\ y \in Y
    BY <1>6, <2>1, <2>2
  <2>4. Stepping(n, Y, y, st) # {}
    BY <2>3, StepByStep
  <2>5. \E g \in [0..n -> Y] : g[0] = y /\ \A i \in 1..n : g[i] = st[<<g[i - 1], i>>]
    BY <2>4 DEF Stepping
  <2> HIDE DEF step
  <2> QED  BY <2>1, <2>2, <2>5
<1>8. PICK g \in [0..n -> Seq(X)] : g[0] = <<>> /\ \A i \in 1..n : g[i] = Joined(g[i - 1], i)
  <2>1. PICK g \in [0..n -> Seq(X)] : g[0] = <<>> /\ \A i \in 1..n : g[i] = step(n)[<<g[i - 1], i>>]
    BY <1>7
  <2>2. ASSUME NEW i \in 1..n PROVE g[i] = Joined(g[i - 1], i)
    <3>1. i - 1 \in 0..n
      OBVIOUS
    <3>2. g[i] = step(n)[<<g[i - 1], i>>] /\ g[i - 1] \in Seq(X)
      BY <2>1, <3>1
    <3> QED  BY <3>2
  <2> QED  BY <2>1, <2>2
<1> DEFINE h == [i \in 1..n |-> g[i]]
<1>9. Rec(h)
  <2>1. ASSUME NEW i \in 1..n PROVE h[i] = IF i = 1 THEN s[i] ELSE Joined(h[i - 1], i)
    <3>1. CASE i = 1
      <4>1. i - 1 = 0
        BY <3>1
      <4> QED  BY <1>5, <1>8, <3>1, <4>1
    <3>2. CASE i # 1
      <4>1. i - 1 \in 1..n
        BY <3>2
      <4> QED  BY <1>8, <3>2, <4>1
    <3> QED  BY <3>1, <3>2
  <2> QED  BY <1>1, <2>1
<1> HIDE DEF h
<1>10. PICK f : f = (CHOOSE h_1 : Rec(h_1))
  OBVIOUS
<1>11. Rec(f)
  <2> HIDE DEF Rec
  <2> QED  BY <1>9, <1>10
<1>12. f[1] = s[1] /\ \A i \in 2..n : f[i] = f[i - 1] \o s[i]
  <2>1. \A i \in 2..n : i # 1 /\ i \in 1..n
    OBVIOUS
  <2>2. f = [i \in 1..n |-> IF i = 1 THEN s[i] ELSE Joined(f[i - 1], i)]
    BY <1>1, <1>11
  <2>3. \A i \in 1..n : f[i] = IF i = 1 THEN s[i] ELSE Joined(f[i - 1], i)
    BY <2>2
  <2> QED  BY <1>4, <2>1, <2>3 DEF Joined
<1> HIDE DEF Rec, step
<1>13. FlattenSeq(s) = f[Len(s)]
  BY <1>1, <1>3, <1>10
<1> QED  BY <1>1, <1>12, <1>13 DEF FlattenEach

LEMMA JoinedThem ==
  ASSUME NEW X, NEW s, NEW i \in Nat, i > 1, NEW t \in Seq(X), s[i] \in Seq(X),
         FromThem(t, s, i - 1), AllOfThem(t, s, i - 1)
  PROVE  /\ t \o s[i] \in Seq(X)
         /\ FromThem(t \o s[i], s, i) /\ AllOfThem(t \o s[i], s, i)
<1> DEFINE u == t \o s[i]
<1>1. PICK n, l \in Nat : n = Len(t) /\ l = Len(s[i])
  OBVIOUS
<1>2. /\ u \in Seq(X) /\ Len(u) = n + l
      /\ \A k \in 1..n : u[k] = t[k]
      /\ \A r \in 1..l : u[n + r] = s[i][r]
  BY <1>1
<1> HIDE DEF u
<1>3. \A m \in 1..i : m \in 1..i - 1 \/ m = i
  OBVIOUS
<1>4. /\ \A k \in 1..n + l : k \in 1..n \/ \E r \in 1..l : k = n + r
      /\ \A k \in 1..n : k \in 1..n + l
      /\ \A r \in 1..l : n + r \in 1..n + l /\ \A k \in 1..n : k \in 1..n + r - 1
  <2>1. \A k \in 1..n + l : k \in 1..n \/ (k - n \in 1..l /\ k = n + (k - n))
    OBVIOUS
  <2>2. \A r \in 1..l : n + r \in 1..n + l /\ \A k \in 1..n : k \in 1..n + r - 1
    OBVIOUS
  <2> QED  BY <2>1, <2>2
<1>5. AllOfThem(u, s, i)
  <2> SUFFICES ASSUME NEW m \in 1..i, NEW r \in 1..Len(s[m])
               PROVE  \E k \in 1..Len(u) : u[k] = s[m][r]
    BY DEF AllOfThem
  <2>1. CASE m = i
    <3>1. n + r \in 1..n + l /\ u[n + r] = s[m][r]
      BY <1>1, <1>2, <1>4, <2>1
    <3> QED  BY <1>2, <3>1
  <2>2. CASE m # i
    <3>1. PICK k \in 1..Len(t) : t[k] = s[m][r]
      BY <1>3, <2>2 DEF AllOfThem
    <3> QED  BY <1>1, <1>2, <1>4, <3>1
  <2> QED  BY <2>1, <2>2
<1>6. FromThem(u, s, i)
  <2> SUFFICES ASSUME NEW k \in 1..Len(u)
               PROVE  \E m \in 1..i : \E r \in 1..Len(s[m]) :
                        /\ u[k] = s[m][r]
                        /\ \A b \in 1..m - 1 : \A c \in 1..Len(s[b]) : \E a \in 1..k - 1 : u[a] = s[b][c]
    BY DEF FromThem
  <2>1. CASE k \in 1..n
    <3>1. PICK m \in 1..i - 1 : \E r \in 1..Len(s[m]) :
            /\ t[k] = s[m][r]
            /\ \A b \in 1..m - 1 : \A c \in 1..Len(s[b]) : \E a \in 1..k - 1 : t[a] = s[b][c]
      BY <1>1, <2>1 DEF FromThem
    <3>2. PICK r \in 1..Len(s[m]) :
            /\ t[k] = s[m][r]
            /\ \A b \in 1..m - 1 : \A c \in 1..Len(s[b]) : \E a \in 1..k - 1 : t[a] = s[b][c]
      BY <3>1
    <3>3. m \in 1..i /\ u[k] = s[m][r] /\ \A a \in 1..k - 1 : u[a] = t[a]
      <4>1. m \in 1..i /\ \A a \in 1..k - 1 : a \in 1..n
        BY <2>1
      <4> QED  BY <1>2, <2>1, <3>2, <4>1
    <3>4. \A b \in 1..m - 1 : \A c \in 1..Len(s[b]) : \E a \in 1..k - 1 : u[a] = s[b][c]
      BY <3>2, <3>3
    <3> QED  BY <3>3, <3>4
  <2>2. CASE \E r \in 1..l : k = n + r
    <3>1. PICK r \in 1..l : k = n + r
      BY <2>2
    <3>2. u[k] = s[i][r] /\ r \in 1..Len(s[i]) /\ i \in 1..i
      BY <1>1, <1>2, <3>1
    <3>3. \A b \in 1..i - 1 : \A c \in 1..Len(s[b]) : \E a \in 1..k - 1 : u[a] = s[b][c]
      <4> TAKE b \in 1..i - 1
      <4> TAKE c \in 1..Len(s[b])
      <4>1. PICK a \in 1..Len(t) : t[a] = s[b][c]
        BY DEF AllOfThem
      <4>2. a \in 1..k - 1 /\ u[a] = t[a]
        BY <1>1, <1>2, <1>4, <3>1, <4>1
      <4> QED  BY <4>1, <4>2
    <3> QED  BY <3>2, <3>3
  <2> QED  BY <1>2, <1>4, <2>1, <2>2
<1> QED  BY <1>2, <1>5, <1>6 DEF u

(* What is in a sequence of sequences joined up, and in which order.       *)
LEMMA FlattenedSome ==
  ASSUME NEW X, NEW s \in Seq(Seq(X)), s # <<>>
  PROVE  /\ FlattenSeq(s) \in Seq(X)
         /\ FromThem(FlattenSeq(s), s, Len(s)) /\ AllOfThem(FlattenSeq(s), s, Len(s))
<1>1. PICK n \in Nat : n = Len(s) /\ n # 0
  OBVIOUS
<1>2. PICK g : FlattenEach(g, s)
  BY FlattenSoFar
<1> DEFINE Fine(i) == g[i] \in Seq(X) /\ FromThem(g[i], s, i) /\ AllOfThem(g[i], s, i)
           P == {i \in 0..n : i # 0 => Fine(i)}
<1>3. \A i \in 1..n : s[i] \in Seq(X)
  BY <1>1
<1>4. Fine(1)
  <2>1. g[1] = s[1] /\ s[1] \in Seq(X)
    BY <1>1, <1>2, <1>3 DEF FlattenEach
  <2>2. \A m \in 1..1 : m = 1 /\ 1..m - 1 = {}
    OBVIOUS
  <2> QED  BY <2>1, <2>2 DEF FromThem, AllOfThem
<1>5. ASSUME NEW i \in 1..n, i - 1 \in P PROVE i \in P
  <2>1. CASE i = 1
    <3> HIDE DEF Fine
    <3> QED  BY <1>4, <2>1
  <2>2. CASE i # 1
    <3>1. i \in 2..n /\ i \in Nat /\ i > 1 /\ i - 1 # 0
      BY <2>2
    <3>2. g[i] = g[i - 1] \o s[i]
      BY <1>1, <1>2, <3>1 DEF FlattenEach
    <3>3. Fine(i - 1)
      BY <1>5, <3>1
    <3>4. Fine(i)
      BY <1>3, <3>1, <3>2, <3>3, JoinedThem
    <3> HIDE DEF Fine
    <3> QED  BY <3>4
  <2> QED  BY <2>1, <2>2
<1>6. n \in P
  <2>1. 0 \in P /\ P \in SUBSET (0..n) /\ n \in 0..n
    BY <1>1
  <2> HIDE DEF P
  <2> QED  BY <1>1, <1>5, <2>1, UpTo
<1>7. FlattenSeq(s) = g[n]
  BY <1>1, <1>2 DEF FlattenEach
<1> QED  BY <1>1, <1>6, <1>7

LEMMA FlattenedThem ==
  ASSUME NEW X, NEW s \in Seq(Seq(X))
  PROVE  /\ FlattenSeq(s) \in Seq(X)
         /\ FromThem(FlattenSeq(s), s, Len(s)) /\ AllOfThem(FlattenSeq(s), s, Len(s))
<1>1. CASE s = <<>>
  <2>1. FlattenSeq(s) = <<>> /\ Len(s) = 0
    BY <1>1 DEF FlattenSeq
  <2> QED  BY <2>1 DEF FromThem, AllOfThem
<1>2. CASE s # <<>>
  BY <1>2, FlattenedSome
<1> QED  BY <1>1, <1>2

-----------------------------------------------------------------------------
(* The order of the list: every finger that is down is in it, once.        *)

DownIn(h) == {f \in Finger : h[f].kind # "NotDown"}
OrderInv == order \in Seq(Finger) /\ Once(order) /\ Members(order) = DownIn(held)

LEMMA NothingElseDown ==
  ASSUME NEW h \in Fingers, NEW f \in Finger
  PROVE  h[f] # NotDown <=> h[f].kind # "NotDown"
  BY StateFields DEF Fingers

LEMMA OrderUntouched ==
  ASSUME OrderInv, UNCHANGED order, DownIn(held') = DownIn(held)
  PROVE  OrderInv'
  BY DEF OrderInv, Once, Members, DownIn

LEMMA OrderTakenOff ==
  ASSUME OrderInv, NEW S \in SUBSET Finger, TakenOff(S), held' = Without(held, S)
  PROVE  OrderInv'
<1>1. /\ order' \in Seq(Finger) /\ Once(order') /\ Members(order') = Members(order) \cap (Finger \ S)
  BY AmongThem DEF TakenOff, OrderInv
<1>2. DownIn(held') = DownIn(held) \ S
  BY DEF Without, DownIn, NotDown
<1> QED  BY <1>1, <1>2 DEF OrderInv, DownIn

LEMMA OrderAppended ==
  ASSUME OrderInv, NEW f \in Finger, held[f].kind = "NotDown", order' = Append(order, f),
         DownIn(held') = DownIn(held) \cup {f}
  PROVE  OrderInv'
<1>1. f \notin Members(order)
  BY DEF OrderInv, DownIn
<1>2. /\ order' \in Seq(Finger) /\ Once(order') /\ Members(order') = Members(order) \cup {f}
  BY <1>1, OneMore DEF OrderInv
<1> QED  BY <1>2 DEF OrderInv

(* What sending the holds, or interrupting the taps, makes of each entry.  *)
LEMMA HoldsSentEach ==
  ASSUME NEW h \in Fingers, NEW f \in Finger
  PROVE  /\ f \in Unsent(h) => /\ HoldsSent(h)[f].kind = "Sent" /\ HoldsSent(h)[f].key = h[f].hold
         /\ f \notin Unsent(h) => HoldsSent(h)[f] = h[f]
         /\ HoldsSent(h)[f].kind # "Undecided"
<1>1. f \in Unsent(h) => HoldsSent(h)[f] = Sent(h[f].hold, HoldMods(h, f))
  BY DEF HoldsSent
<1> QED  BY <1>1 DEF HoldsSent, Sent, Unsent

LEMMA TapsInterruptedEach ==
  ASSUME NEW h \in Fingers, NEW f \in Finger
  PROVE  /\ f \in Unsent(h) => /\ TapsInterrupted(h)[f].kind = "Undecided"
                              /\ TapsInterrupted(h)[f].hold = h[f].hold
                              /\ ~TapsInterrupted(h)[f].alone
         /\ f \notin Unsent(h) => TapsInterrupted(h)[f] = h[f]
<1>1. f \in Unsent(h) => h[f] \in [kind : {"Undecided"}, hold : ModifierKey \ LockKey, tap : Key,
                                   alone : BOOLEAN, late : BOOLEAN]
  BY DEF Unsent, Fingers, HeldState
<1>2. f \in Unsent(h) => TapsInterrupted(h)[f] = [h[f] EXCEPT !.alone = FALSE]
  BY DEF TapsInterrupted
<1> QED  BY <1>1, <1>2 DEF TapsInterrupted

LEMMA UnsentInterrupted ==
  ASSUME NEW h \in Fingers
  PROVE  /\ Unsent(TapsInterrupted(h)) = Unsent(h) /\ TapsInterrupted(h) \in Fingers
         /\ Told(TapsInterrupted(h)) = Told(h)
<1>1. TapsInterrupted(h) \in Fingers
  <2>1. ASSUME NEW f \in Unsent(h) PROVE TapsInterrupted(h)[f] \in HeldState
    <3>1. TapsInterrupted(h)[f] = [h[f] EXCEPT !.alone = FALSE] /\ h[f] \in HeldState
      BY <2>1 DEF TapsInterrupted, Unsent, Fingers
    <3> QED  BY <2>1, <3>1 DEF Unsent, HeldState
  <2> QED  BY <2>1 DEF TapsInterrupted, Fingers, Unsent
<1> QED  BY <1>1, TapsInterruptedEach DEF Unsent, Told

-----------------------------------------------------------------------------
(* What each event does to the list, and what it says.                     *)

(* An entry that is neither pressed nor let go of: its tap may be          *)
(* interrupted and its hold sent, and nothing else becomes of it.          *)
Stays(f) ==
  \/ f \notin Unsent(held) /\ held'[f] = held[f]
  \/ /\ f \in Unsent(held) /\ held'[f].kind \in {"Sent", "Undecided"}
     /\ held'[f].kind = "Undecided" => ~held'[f].alone

(* The same holds waiting, and what was injected beginning with L.         *)
SameHolds(h) ==
  h \in Fingers /\ Unsent(h) = Unsent(held) /\ \A f \in Unsent(held) : h[f].hold = held[f].hold
BeginsWith(L) == injected' = L \/ \E x : injected' = Append(L, x)

LEMMA SendLazyHoldsSays ==
  ASSUME OrderInv, NEW h, SameHolds(h),
         NEW L, L = SendLazyHolds(Begin, h).log, BeginsWith(L)
  PROVE  SaidInTurn
<1> DEFINE turn == Among(order, Unsent(h))
           Said(n) == KeyDownOf(h[turn[n]].hold, HoldMods(h, turn[n]))
           X == {Said(n) : n \in 1..Len(turn)}
           K == [n \in 1..Len(turn) |-> Said(n)]
<1>1. turn \in Seq(Finger) /\ Members(turn) = DownIn(held) \cap Unsent(h)
  BY AmongThem DEF OrderInv
<1>2. \A p, q \in 1..Len(turn) : p < q =>
        \E a, b \in 1..Len(order) : a < b /\ turn[p] = order[a] /\ turn[q] = order[b]
  BY AmongInOrder DEF OrderInv
<1> HIDE DEF turn
<1>3. L = <<>> \o K
  BY DEF SendLazyHolds, Begin, turn
<1>4. PICK n \in Nat : n = Len(turn)
  BY <1>1
<1> HIDE DEF Said
<1>5. K \in Seq(X) /\ Len(K) = n /\ \A i \in 1..n : K[i] = Said(i)
  BY <1>4
<1> HIDE DEF K, X
<1>6. L \in Seq(X) /\ Len(L) = n /\ \A i \in 1..n : L[i] = Said(i)
  BY <1>3, <1>5
<1>7. \A i \in 1..n : i \in DOMAIN injected' /\ injected'[i] = Said(i)
  <2>1. CASE injected' = L
    BY <1>6, <2>1
  <2>2. ASSUME NEW x, injected' = Append(L, x)
        PROVE  \A i \in 1..n : i \in DOMAIN injected' /\ injected'[i] = Said(i)
    BY <1>6, <2>2
  <2> QED  BY <2>1, <2>2 DEF BeginsWith
<1>8. \A i \in DOMAIN injected' : i \in Nat /\ i > 0
  <2>1. CASE injected' = L
    BY <1>6, <2>1
  <2>2. ASSUME NEW x, injected' = Append(L, x) PROVE \A i \in DOMAIN injected' : i \in Nat /\ i > 0
    BY <1>6, <2>2
  <2> QED  BY <2>1, <2>2 DEF BeginsWith
<1> DEFINE at == [g \in Unsent(held) |-> CHOOSE i \in 1..n : turn[i] = g]
<1>9. \A g \in Unsent(held) : at[g] \in 1..n /\ turn[at[g]] = g
  <2>1. \A g \in Unsent(held) : g \in Members(turn)
    BY <1>1 DEF DownIn, Unsent, SameHolds
  <2> QED  BY <1>4, <2>1 DEF Members
<1> HIDE DEF at
<1>10. at \in [Unsent(held) -> DOMAIN injected']
  BY <1>7, <1>9 DEF at
<1>11. ASSUME NEW g \in Unsent(held)
       PROVE  /\ at[g] \in DownsOf(held[g].hold)
              /\ injected'[at[g]].mods = HoldMods(h, g)
  <2>1. injected'[at[g]] = KeyDownOf(h[g].hold, HoldMods(h, g)) /\ h[g].hold = held[g].hold
    BY <1>7, <1>9 DEF Said, SameHolds
  <2> QED  BY <1>7, <1>9, <2>1 DEF DownsOf, KeyDownOf
<1>12. ASSUME NEW g \in Unsent(held), NEW f \in Unsent(held), Position(f) < Position(g)
       PROVE  at[f] < at[g]
  <2>1. PICK p, q \in 1..n : p = at[f] /\ q = at[g] /\ turn[p] = f /\ turn[q] = g
    BY <1>9
  <2>2. ASSUME NEW a \in 1..Len(order) PROVE Position(order[a]) = a
    <3>1. \E i \in 1..Len(order) : order[i] = order[a]
      OBVIOUS
    <3>2. /\ Position(order[a]) \in 1..Len(order)
          /\ order[Position(order[a])] = order[a]
      BY <3>1 DEF Position
    <3> QED  BY <3>2 DEF OrderInv, Once
  <2>3. ASSUME q < p PROVE FALSE
    <3>1. PICK a, b \in 1..Len(order) : a < b /\ g = order[a] /\ f = order[b]
      <4>1. p \in 1..Len(turn) /\ q \in 1..Len(turn)
        BY <1>4
      <4>2. \E a, b \in 1..Len(order) : a < b /\ turn[q] = order[a] /\ turn[p] = order[b]
        BY ONLY <1>2, <2>3, <4>1
      <4> QED  BY <2>1, <4>2
    <3>2. Position(g) = a /\ Position(f) = b
      BY <2>2, <3>1
    <3> QED  BY <1>12, <3>1, <3>2
  <2>4. p # q
    <3>1. SUFFICES ASSUME f = g PROVE FALSE
      BY <2>1
    <3>2. f \in Members(turn)
      BY <1>4, <2>1 DEF Members
    <3>3. f \in DownIn(held)
      BY <1>1, <3>2
    <3>4. PICK a \in 1..Len(order) : order[a] = f
      BY <3>3 DEF OrderInv, Members
    <3>5. Position(f) = a
      BY <2>2, <3>4
    <3> QED  BY <1>12, <3>1, <3>5
  <2> QED  BY <2>1, <2>3, <2>4
<1>13. ASSUME NEW g \in Unsent(held), NEW f \in Unsent(held), Position(f) <= Position(g)
       PROVE  held[f].hold \in injected'[at[g]].mods
  <2>1. held[f].hold \in HoldMods(h, g)
    BY <1>13 DEF HoldMods, HoldsOf, SameHolds
  <2> QED  BY <1>11, <2>1
<1>14. ASSUME NEW g \in Unsent(held), NEW i \in Strokes PROVE at[g] < i
  <2>1. i \in DOMAIN injected'
    BY DEF Strokes
  <2>2. i \notin 1..n
    <3>1. SUFFICES ASSUME i \in 1..n PROVE FALSE
      OBVIOUS
    <3>2. turn[i] \in Unsent(h) /\ turn[i] \in Finger
      <4>1. turn[i] \in Members(turn)
        BY <1>4, <3>1 DEF Members
      <4> QED  BY <1>1, <4>1 DEF Unsent
    <3>3. h[turn[i]].hold \in ModifierKey
      <4>1. h \in [Finger -> HeldState] /\ h[turn[i]].kind = "Undecided"
        BY <3>2 DEF SameHolds, Fingers, Unsent
      <4>2. h[turn[i]] \in [kind : {"Undecided"}, hold : ModifierKey \ LockKey, tap : Key,
                            alone : BOOLEAN, late : BOOLEAN]
        BY <3>2, <4>1 DEF HeldState
      <4> QED  BY <4>2
    <3>4. injected'[i].event = "KeyDown" /\ injected'[i].key \in ModifierKey
      <4>1. injected'[i] = KeyDownOf(h[turn[i]].hold, HoldMods(h, turn[i]))
        BY <1>7, <3>1 DEF Said
      <4>2. PICK k, ms : k = h[turn[i]].hold /\ ms = HoldMods(h, turn[i])
        OBVIOUS
      <4>3. injected'[i] = [event |-> "KeyDown", key |-> k, mods |-> ms]
        BY <4>1, <4>2 DEF KeyDownOf
      <4> QED  BY <3>3, <4>2, <4>3
    <3> QED  BY <3>4 DEF Strokes
  <2> QED  BY <1>4, <1>8, <1>9, <2>1, <2>2
<1> QED  BY <1>10, <1>11, <1>12, <1>13, <1>14 DEF SaidInTurn

LEMMA EmitsSays ==
  ASSUME IndInv, OrderInv, NEW f \in Finger, KeyDownEmits(f)
  PROVE  /\ held[f].kind = "NotDown" /\ held'[f].kind = "Down" /\ order' = Append(order, f)
         /\ held'[f].key \notin Unsayable => os'.mods = Bits(held'[f].mods)
         /\ \A e \in Finger \ {f} : Stays(e)
         /\ IF held'[f].key \in ModifierKey
            THEN \A e \in Unsent(held) : held'[e].kind = "Undecided"
            ELSE SaidInTurn /\ Unsent(held') = {}
         /\ buttons' = buttons
<1> DEFINE out == Resolved(f)
           types == out.key \notin ModifierKey
           alone == TapsInterrupted(held)
           h == IF types THEN HoldsSent(alone) ELSE alone
           p == IF types THEN SendLazyHolds(Begin, alone) ELSE Begin
           ms == WithKinds(WithoutKinds(KeysInEffect(h), out.consumed), out.added)
                   \cup ({out.key} \cap ModifierKey)
<1>1. /\ ~IsDown(f) /\ out.kind = "Emit" /\ order' = Append(order, f)
      /\ os' = Rendered(p.dev, KeyDownOf(out.key, ms))
      /\ injected' = Append(p.log, KeyDownOf(out.key, ms))
      /\ held' = [h EXCEPT ![f] = Down(out.key, ms)] /\ buttons' = buttons
  BY DEF KeyDownEmits, Reports, Inject
<1>2. out.key \in Key
  BY <1>1, ResolvedType DEF Outcome
<1>3. /\ held \in Fingers /\ alone \in Fingers /\ Unsent(alone) = Unsent(held)
      /\ Accounts(alone, Begin.dev) /\ Begin.dev \in Dev
  BY Opened, UnsentInterrupted, TapsInterruptedAccounts
<1>4. \A e \in Finger : /\ e \in Unsent(held) => /\ alone[e].kind = "Undecided" /\ ~alone[e].alone
                                                /\ alone[e].hold = held[e].hold
                        /\ e \notin Unsent(held) => alone[e] = held[e]
  BY <1>3, TapsInterruptedEach
<1> HIDE DEF alone
<1>5. h \in Fingers /\ p.dev \in Dev
  <2>1. HoldsSent(alone) \in Fingers /\ SendLazyHolds(Begin, alone).dev \in Dev
    BY <1>3, SendLazyHoldsAccounts
  <2> QED  BY <1>3, <2>1
<1>6. \A e \in Finger :
        /\ e \notin Unsent(held) => h[e] = held[e]
        /\ e \in Unsent(held) => IF types THEN h[e].kind = "Sent" ELSE h[e].kind = "Undecided" /\ ~h[e].alone
        /\ types => h[e].kind # "Undecided"
  BY <1>3, <1>4, HoldsSentEach
<1>7. SameHolds(alone)
  <2>1. Unsent(held) \subseteq Finger
    BY DEF Unsent
  <2> QED  BY <1>3, <1>4, <2>1 DEF SameHolds
<1>8. types => SaidInTurn
  <2>1. PICK L : L = SendLazyHolds(Begin, alone).log
    OBVIOUS
  <2>2. types => BeginsWith(L)
    BY <1>1, <2>1 DEF BeginsWith
  <2> HIDE DEF types
  <2> QED  BY <1>7, <2>1, <2>2, SendLazyHoldsSays
<1> HIDE DEF h, p
<1>9. ms \in SUBSET ModifierKey
  BY <1>5, EffectTypes, BorrowedTypes
<1> HIDE DEF ms
<1>10. held'[f] = Down(out.key, ms) /\ \A e \in Finger \ {f} : held'[e] = h[e]
  BY <1>1, <1>5 DEF Fingers
<1>11. held'[f].kind = "Down" /\ held'[f].key = out.key /\ held'[f].mods = ms
  BY <1>10 DEF Down
<1>12. out.key \notin Unsayable => os'.mods = Bits(ms)
  BY <1>1, <1>2, <1>5, <1>9, KeyDownRendered
<1>13. held[f].kind = "NotDown"
  BY <1>1 DEF IsDown, NotDown
<1>14. \A e \in Finger \ {f} : Stays(e)
  BY <1>6, <1>10 DEF Stays
<1>15. ~types => \A e \in Unsent(held) : held'[e].kind = "Undecided"
  BY <1>6, <1>10, <1>13 DEF Unsent
<1>16. types => Unsent(held') = {}
  BY <1>6, <1>10, <1>11 DEF Unsent
<1> HIDE DEF out
<1> QED  BY <1>1, <1>8, <1>11, <1>12, <1>13, <1>14, <1>15, <1>16

LEMMA SilentSays ==
  ASSUME IndInv, NEW f \in Finger, KeyDownSilent(f)
  PROVE  /\ held[f].kind = "NotDown" /\ order' = Append(order, f)
         /\ held'[f].kind \in {"Swallowed", "Henkan", "Undecided"}
         /\ \A e \in Finger \ {f} : Stays(e)
         /\ \A e \in Unsent(held) : held'[e].kind = "Undecided"
         /\ buttons' = buttons
<1> DEFINE out == Resolved(f)
           alone == TapsInterrupted(held)
           new == CASE out.kind = "Swallow" -> Swallowed
                    [] out.kind = "HoldHenkan" -> Henkan
                    [] out.kind = "TapHold" -> Undecided(out.hold, out.tap)
<1>1. /\ ~IsDown(f) /\ out.kind # "Emit" /\ order' = Append(order, f) /\ buttons' = buttons
      /\ held' = [alone EXCEPT ![f] = new]
  BY DEF KeyDownSilent
<1>2. new.kind \in {"Swallowed", "Henkan", "Undecided"}
  <2>1. out.kind \in {"Swallow", "HoldHenkan", "TapHold"}
    BY <1>1, ResolvedType DEF Outcome
  <2> HIDE DEF out
  <2> QED  BY <2>1 DEF Swallowed, Henkan, Undecided
<1>3. held \in Fingers /\ alone \in Fingers
  BY Opened, UnsentInterrupted
<1>4. \A e \in Finger : /\ e \in Unsent(held) => alone[e].kind = "Undecided" /\ ~alone[e].alone
                        /\ e \notin Unsent(held) => alone[e] = held[e]
  BY <1>3, TapsInterruptedEach
<1> HIDE DEF alone, new
<1>5. held'[f] = new /\ \A e \in Finger \ {f} : held'[e] = alone[e]
  BY <1>1, <1>3 DEF Fingers
<1>6. held[f].kind = "NotDown"
  BY <1>1 DEF IsDown, NotDown
<1>7. \A e \in Finger \ {f} : Stays(e)
  BY <1>4, <1>5 DEF Stays
<1>8. \A e \in Unsent(held) : held'[e].kind = "Undecided"
  BY <1>4, <1>5, <1>6 DEF Unsent
<1> QED  BY <1>1, <1>2, <1>5, <1>6, <1>7, <1>8

-----------------------------------------------------------------------------
(* What a batch of releases says: what goes up, under what, and after what. *)

(* A finger's release is said, under the modifiers its key was taken with. *)
GoesUp(f) == \E i \in UpsOf(held[f].key) : injected'[i].mods = held[f].mods
NothingPressed == \A i \in DOMAIN injected' : injected'[i].event # "KeyDown"
(* A modifier, pressed before another key, leaves the reports behind it.   *)
GoesUpBehind(f, g) ==
  \A i \in {n \in UpsOf(held[f].key) : held[f].key \notin injected'[n].mods} :
    \E j \in UpsOf(held[g].key) : j < i
LetGo(S) ==
  /\ NothingPressed
  /\ \A f \in S \cap Told(held) : held[f].key \notin ModifierKey => GoesUp(f)
  /\ \A f, g \in S \cap Told(held) :
       held[f].key \in ModifierKey /\ held[g].key \notin ModifierKey /\ Position(f) < Position(g)
         => GoesUpBehind(f, g)

LEMMA ReleaseLogSays ==
  ASSUME OrderInv, held \in Fingers, NEW S \in SUBSET Finger,
         \/ injected' = <<>> \o ReleaseLog(held, S)
         \/ injected' = Append(<<>> \o ReleaseLog(held, S), PointerOf({}))
  PROVE  LetGo(S)
<1> DEFINE turn == Reverse(order)
           Gone(n) == {turn[j] : j \in 1..n} \cap S
           Left(n) == Without(held, Gone(n))
           Up(n) == UpOf(Left(n), held[turn[n]].key, held[turn[n]].mods)
           Of(n) == IF turn[n] \notin S \cap Told(held) THEN <<>>
                    ELSE IF Up(n).mods = KeysInEffect(Left(n)) THEN <<Up(n)>>
                    ELSE <<Up(n), ModifiersOf(KeysInEffect(Left(n)))>>
           X == [event : {"KeyUp"}, key : Key, mods : SUBSET Key] \cup [event : {"Modifiers"}, mods : SUBSET Key]
           s == [n \in 1..Len(turn) |-> Of(n)]
<1>1. PICK N \in Nat : N = Len(order)
  BY DEF OrderInv
<1>2. turn \in Seq(Finger) /\ Len(turn) = N /\ \A n \in 1..N : turn[n] = order[N + 1 - n]
  BY <1>1 DEF OrderInv, Reverse
<1>3. ReleaseLog(held, S) = FlattenSeq(s)
  BY DEF ReleaseLog, LastPressedFirst
<1> HIDE DEF turn
<1>4. ASSUME NEW n \in 1..N PROVE KeysInEffect(Left(n)) \in SUBSET Key
  BY VocabularyAssumption DEF KeysInEffect
<1>5. ASSUME NEW n \in 1..N, turn[n] \in S \cap Told(held)
      PROVE  /\ held[turn[n]].key \in Key /\ held[turn[n]].mods \in SUBSET Key
             /\ Up(n) \in X /\ Up(n).event = "KeyUp" /\ Up(n).key = held[turn[n]].key
             /\ Up(n).mods = IF held[turn[n]].key \in ModifierKey THEN KeysInEffect(Left(n))
                             ELSE held[turn[n]].mods
  <2>1. held[turn[n]].key \in Key /\ held[turn[n]].mods \in SUBSET Key
    BY <1>5, VocabularyAssumption DEF Told, Fingers, HeldState
  <2> HIDE DEF Left
  <2> QED  BY <1>4, <2>1 DEF UpOf, KeyUpOf
<1> HIDE DEF Left, Up
<1>6. ASSUME NEW n \in 1..N
      PROVE  /\ Of(n) \in Seq(X)
             /\ turn[n] \in S \cap Told(held) => Len(Of(n)) \in {1, 2} /\ Of(n)[1] = Up(n)
             /\ \A r \in 1..Len(Of(n)) :
                  /\ turn[n] \in S \cap Told(held)
                  /\ Of(n)[r].event # "KeyDown"
                  /\ Of(n)[r].event = "KeyUp" => Of(n)[r] = Up(n)
  <2>1. CASE turn[n] \notin S \cap Told(held)
    BY <2>1
  <2>2. CASE turn[n] \in S \cap Told(held)
    <3>1. PICK u, m : u = Up(n) /\ m = ModifiersOf(KeysInEffect(Left(n)))
      OBVIOUS
    <3>2. u \in X /\ m \in X /\ u.event = "KeyUp" /\ m.event = "Modifiers"
      BY <1>4, <1>5, <2>2, <3>1 DEF ModifiersOf
    <3>3. Of(n) = <<u>> \/ Of(n) = <<u, m>>
      BY <2>2, <3>1
    <3> HIDE DEF Of, X
    <3>4. PICK o : o = Of(n)
      OBVIOUS
    <3>5. o \in Seq(X) /\ Len(o) \in {1, 2} /\ o[1] = u /\ \A r \in 1..Len(o) : o[r] \in {u, m}
      <4>1. PICK Y : Y = X
        OBVIOUS
      <4>2. CASE o = <<u>>
        BY <3>2, <4>1, <4>2
      <4>3. CASE o = <<u, m>>
        <5>1. o \in Seq(Y) /\ Len(o) = 2 /\ o[1] = u /\ o[2] = m
          BY <3>2, <4>1, <4>3
        <5>2. \A r \in 1..2 : r = 1 \/ r = 2
          OBVIOUS
        <5> QED  BY <4>1, <5>1, <5>2
      <4> QED  BY <3>3, <3>4, <4>2, <4>3
    <3>6. \A r \in 1..Len(o) : o[r].event # "KeyDown" /\ (o[r].event = "KeyUp" => o[r] = u)
      BY <3>2, <3>5
    <3> QED  BY <2>2, <3>1, <3>4, <3>5, <3>6
  <2> QED  BY <2>1, <2>2
<1> HIDE DEF Of, X
<1>7. s \in Seq(Seq(X)) /\ Len(s) = N /\ \A n \in 1..N : s[n] = Of(n)
  <2>1. PICK Y : Y = Seq(X)
    OBVIOUS
  <2>2. \A n \in 1..N : Of(n) \in Y
    BY <1>6, <2>1
  <2>3. s = [n \in 1..N |-> Of(n)]
    BY <1>2
  <2> HIDE DEF s
  <2>4. s \in Seq(Y) /\ Len(s) = N
    BY <2>2, <2>3
  <2> QED  BY <2>1, <2>3, <2>4
<1> HIDE DEF s
<1>8. PICK log \in Seq(X) : log = ReleaseLog(held, S) /\ FromThem(log, s, N) /\ AllOfThem(log, s, N)
  BY <1>3, <1>7, FlattenedThem
<1>9. PICK l \in Nat : l = Len(log)
  BY <1>8
<1>10. /\ \A i \in 1..l : i \in DOMAIN injected' /\ injected'[i] = log[i]
       /\ \A i \in DOMAIN injected' : i \in 1..l \/ injected'[i] = PointerOf({})
       /\ DOMAIN injected' \subseteq Nat
  <2>1. <<>> \o log = log
    OBVIOUS
  <2>2. CASE injected' = log
    BY <1>8, <1>9, <2>2
  <2>3. CASE injected' = Append(log, PointerOf({}))
    BY <1>8, <1>9, <2>3
  <2> QED  BY <1>8, <2>1, <2>2, <2>3
<1>11. PointerOf({}).event = "Pointer"
  BY DEF PointerOf
<1>12. ASSUME NEW i \in 1..l
       PROVE  \E n \in 1..N :
                /\ turn[n] \in S \cap Told(held)
                /\ log[i].event # "KeyDown"
                /\ log[i].event = "KeyUp" => log[i] = Up(n)
                /\ \A b \in 1..n - 1 : turn[b] \in S \cap Told(held) =>
                     \E a \in 1..i - 1 : log[a] = Up(b)
  <2>1. PICK n \in 1..N : \E r \in 1..Len(s[n]) :
          /\ log[i] = s[n][r]
          /\ \A b \in 1..n - 1 : \A c \in 1..Len(s[b]) : \E a \in 1..i - 1 : log[a] = s[b][c]
    BY <1>8, <1>9 DEF FromThem
  <2>2. PICK r \in 1..Len(Of(n)) :
          /\ log[i] = Of(n)[r]
          /\ \A b \in 1..n - 1 : \A c \in 1..Len(s[b]) : \E a \in 1..i - 1 : log[a] = s[b][c]
    BY <1>7, <2>1
  <2>3. \A b \in 1..n - 1 : b \in 1..N
    OBVIOUS
  <2>4. ASSUME NEW b \in 1..n - 1, turn[b] \in S \cap Told(held)
        PROVE  \E a \in 1..i - 1 : log[a] = Up(b)
    <3>1. Len(s[b]) \in {1, 2} /\ s[b][1] = Up(b)
      BY <1>6, <1>7, <2>3, <2>4
    <3>2. 1 \in 1..Len(s[b])
      BY <3>1
    <3> QED  BY <2>2, <3>1, <3>2
  <2> QED  BY <1>6, <2>2, <2>4
<1>13. NothingPressed
  BY <1>10, <1>11, <1>12 DEF NothingPressed
<1>14. \A f \in S \cap Told(held) : \E n \in 1..N : turn[n] = f
  <2> TAKE f \in S \cap Told(held)
  <2>1. f \in Members(order)
    BY DEF OrderInv, DownIn, Told
  <2>2. PICK p \in 1..N : order[p] = f
    BY <1>1, <2>1 DEF Members
  <2>3. N + 1 - p \in 1..N /\ N + 1 - (N + 1 - p) = p
    OBVIOUS
  <2> QED  BY <1>2, <2>2, <2>3
<1>15. ASSUME NEW f \in S \cap Told(held), held[f].key \notin ModifierKey PROVE GoesUp(f)
  <2>1. PICK n \in 1..N : turn[n] = f
    BY <1>14
  <2>2. Len(s[n]) \in {1, 2} /\ s[n][1] = Up(n)
    BY <1>6, <1>7, <2>1
  <2>3. 1 \in 1..Len(s[n])
    BY <2>2
  <2>4. PICK i \in 1..l : log[i] = Up(n)
    BY <1>8, <1>9, <2>2, <2>3 DEF AllOfThem
  <2>5. i \in DOMAIN injected' /\ injected'[i] = Up(n)
    BY <1>10, <2>4
  <2>6. Up(n).event = "KeyUp" /\ Up(n).key = held[f].key /\ Up(n).mods = held[f].mods
    BY <1>5, <1>15, <2>1
  <2> QED  BY <2>5, <2>6 DEF GoesUp, UpsOf
<1>16. ASSUME NEW f \in S \cap Told(held), NEW g \in S \cap Told(held),
              held[f].key \in ModifierKey, held[g].key \notin ModifierKey, Position(f) < Position(g)
       PROVE  GoesUpBehind(f, g)
  <2> SUFFICES ASSUME NEW i \in DOMAIN injected', injected'[i].event = "KeyUp",
                      injected'[i].key = held[f].key, held[f].key \notin injected'[i].mods
               PROVE  \E j \in UpsOf(held[g].key) : j < i
    BY DEF GoesUpBehind, UpsOf
  <2>1. i \in 1..l /\ injected'[i] = log[i]
    BY <1>10, <1>11
  <2>2. PICK n \in 1..N :
          /\ turn[n] \in S \cap Told(held)
          /\ log[i] = Up(n)
          /\ \A b \in 1..n - 1 : turn[b] \in S \cap Told(held) => \E a \in 1..i - 1 : log[a] = Up(b)
    BY <1>12, <2>1
  <2>3. held[f].key \notin KeysInEffect(Left(n))
    BY <1>5, <1>16, <2>1, <2>2
  <2>4. f \in Gone(n)
    <3> SUFFICES ASSUME f \notin Gone(n) PROVE FALSE
      OBVIOUS
    <3>1. f \in Finger /\ Left(n)[f] = held[f]
      BY DEF Left, Without, Told
    <3>2. f \in Told(Left(n))
      BY <3>1 DEF Told
    <3> QED  BY <1>16, <2>3, <3>1, <3>2 DEF KeysInEffect
  <2>5. PICK c \in 1..n : turn[c] = f
    BY <2>4
  <2>6. PICK b \in 1..N : turn[b] = g
    BY <1>14
  <2>7. b < c
    <3>1. Once(order)
      BY DEF OrderInv
    <3>2. ASSUME NEW e \in 1..N PROVE Position(turn[e]) = N + 1 - e
      <4>1. N + 1 - e \in 1..N /\ order[N + 1 - e] = turn[e]
        BY <1>2
      <4>2. Position(turn[e]) \in 1..N /\ order[Position(turn[e])] = turn[e]
        BY <1>1, <4>1 DEF Position
      <4> QED  BY <1>1, <3>1, <4>1, <4>2 DEF Once
    <3>3. Position(f) = N + 1 - c /\ Position(g) = N + 1 - b
      BY <2>5, <2>6, <3>2
    <3> QED  BY <1>16, <3>3
  <2>8. PICK a \in 1..i - 1 : log[a] = Up(b)
    <3>1. b \in 1..n - 1
      BY <2>7
    <3> QED  BY <2>2, <2>6, <3>1
  <2>9. a \in DOMAIN injected' /\ injected'[a] = Up(b) /\ a < i
    <3>1. a \in 1..l /\ a < i
      BY <2>1
    <3> QED  BY <1>10, <2>8, <3>1
  <2>10. Up(b).event = "KeyUp" /\ Up(b).key = held[g].key
    BY <1>5, <2>6
  <2> QED  BY <2>9, <2>10 DEF UpsOf
<1> QED  BY <1>13, <1>15, <1>16 DEF LetGo

-----------------------------------------------------------------------------
(* The ways a step goes, for what each finger is and what is said of it.   *)

Untouched ==
  /\ order' = order /\ ~ClickOnWay
  /\ \A f \in Finger : \/ held'[f] = held[f]
                       \/ /\ held[f].kind = "Undecided" /\ held'[f].kind = "Undecided"
                          /\ held'[f].alone = held[f].alone
Clicks ==
  /\ order' = order
  /\ SaidInTurn /\ Unsent(held') = {}
  /\ \A f \in Finger : Stays(f)
Presses(f) ==
  /\ order' = Append(order, f) /\ buttons' = buttons
  /\ held[f].kind = "NotDown" /\ held'[f].kind # "NotDown"
  /\ held'[f].kind = "Down" /\ held'[f].key \notin Unsayable => os'.mods = Bits(held'[f].mods)
  /\ \A e \in Finger \ {f} : Stays(e)
  /\ IF held'[f].kind = "Down" /\ held'[f].key \notin ModifierKey
     THEN SaidInTurn /\ Unsent(held') = {}
     ELSE \A e \in Unsent(held) : held'[e].kind = "Undecided"
Lifts(f) ==
  /\ held' = Without(held, {f}) /\ TakenOff({f}) /\ buttons' = buttons
  /\ f \in Told(held) /\ held[f].key \notin ModifierKey => GoesUp(f)
  /\ f \in Unsent(held) /\ ~NothingPressed => IsTap(held[f])
Leave(S) ==
  held' = Without(held, S) /\ TakenOff(S) /\ ~ClickOnWay /\ LetGo(S)
Goes ==
  \/ Untouched \/ Clicks
  \/ \E f \in Finger : Presses(f) \/ Lifts(f)
  \/ \E S \in SUBSET Finger : Leave(S)

LEMMA DeviceDetachedGoes ==
  ASSUME IndInv, OrderInv, NEW d \in Device, DeviceDetached(d)
  PROVE  Goes
<1> DEFINE S == {d} \X Key
<1>1. S \in SUBSET Finger
  BY DEF Finger
<1> HIDE DEF S
<1>2. injected' = <<>> \o ReleaseLog(held, S)
  BY DEF DeviceDetached, Reports, ReleaseHeld, Begin, S
<1>3. held \in Fingers
  BY Opened
<1>5. LetGo(S)
  BY <1>1, <1>2, <1>3, ReleaseLogSays
<1>6. held' = Without(held, S) /\ TakenOff(S) /\ ~ClickOnWay
  BY DEF DeviceDetached, ClickOnWay, S
<1> QED  BY <1>1, <1>5, <1>6 DEF Goes, Leave

LEMMA ReleaseEverythingGoes ==
  ASSUME IndInv, OrderInv, ReleaseEverything
  PROVE  Goes
<1>1. Finger \in SUBSET Finger
  OBVIOUS
<1>2. \/ injected' = <<>> \o ReleaseLog(held, Finger)
      \/ injected' = Append(<<>> \o ReleaseLog(held, Finger), PointerOf({}))
  BY DEF ReleaseEverything, Reports, ReleaseHeld, Begin, ButtonsLetGo, Inject
<1>3. held \in Fingers
  BY Opened
<1>5. LetGo(Finger)
  BY <1>1, <1>2, <1>3, ReleaseLogSays
<1>6. held' = Without(held, Finger) /\ TakenOff(Finger) /\ ~ClickOnWay
  BY DEF ReleaseEverything, ClickOnWay
<1> QED  BY <1>1, <1>5, <1>6 DEF Goes, Leave

LEMMA PressGoes ==
  ASSUME IndInv, OrderInv, NEW f \in Finger, KeyDownEmits(f) \/ KeyDownSilent(f)
  PROVE  Goes
<1>1. CASE KeyDownEmits(f)
  <2>1. Presses(f)
    BY <1>1, EmitsSays DEF Presses
  <2> QED  BY <2>1 DEF Goes
<1>2. CASE KeyDownSilent(f)
  <2>1. Presses(f)
    BY <1>2, SilentSays DEF Presses
  <2> QED  BY <2>1 DEF Goes
<1> QED  BY <1>1, <1>2

LEMMA KeyUpHeldGoes ==
  ASSUME IndInv, OrderInv, NEW f \in Finger, KeyUpHeld(f)
  PROVE  Goes
<1> DEFINE s == held[f]
           h == Without(held, {f})
           typed == Inject(Begin, KeyDownOf(s.tap, KeysInEffect(h)))
<1>1. held' = h /\ TakenOff({f}) /\ buttons' = buttons
  BY DEF KeyUpHeld
<1>2. ASSUME f \in Told(held), s.key \notin ModifierKey PROVE GoesUp(f)
  <2>1. injected' = ReleaseAtTheOs(Begin, h, s.key, s.mods).log
    <3>1. ~IsTap(s)
      BY <1>2 DEF IsTap, Told
    <3>2. PICK p, q : p = ReleaseAtTheOs(Begin, h, s.key, s.mods)
                      /\ q = ReleaseAtTheOs(typed, h, s.tap, KeysInEffect(h))
      OBVIOUS
    <3>3. Reports(CASE f \in Told(held) -> p [] IsTap(s) -> q [] OTHER -> Begin)
      BY <3>2 DEF KeyUpHeld
    <3> QED  BY <1>2, <3>1, <3>2, <3>3 DEF Reports
  <2> HIDE DEF h
  <2>2. UpOf(h, s.key, s.mods) = KeyUpOf(s.key, s.mods)
    BY <1>2 DEF UpOf
  <2>3. PICK u, m : u = KeyUpOf(s.key, s.mods) /\ m = ModifiersOf(KeysInEffect(h))
    OBVIOUS
  <2>4. injected' = Append(<<>>, u) \/ injected' = Append(Append(<<>>, u), m)
    BY <2>1, <2>2, <2>3 DEF ReleaseAtTheOs, Inject, Begin
  <2>5. 1 \in DOMAIN injected' /\ injected'[1] = KeyUpOf(s.key, s.mods)
    BY <2>3, <2>4
  <2> QED  BY <2>5 DEF GoesUp, UpsOf, KeyUpOf
<1>3. ASSUME f \in Unsent(held), ~IsTap(s) PROVE NothingPressed
  <2>1. f \notin Told(held)
    BY <1>3 DEF Unsent, Told
  <2>2. injected' = <<>>
    BY <1>3, <2>1 DEF KeyUpHeld, Reports, Begin
  <2> QED  BY <2>2 DEF NothingPressed
<1>4. Lifts(f)
  BY <1>1, <1>2, <1>3 DEF Lifts
<1> QED  BY <1>4 DEF Goes

LEMMA PointerGoes ==
  ASSUME IndInv, OrderInv, NEW bs \in SUBSET Button, NEW still \in BOOLEAN, Pointer(bs, still)
  PROVE  Goes
<1>1. held \in Fingers
  BY Opened
<1>2. CASE Settles(bs)
  <2>1. SameHolds(held)
    BY <1>1 DEF SameHolds
  <2>2. PICK L : L = SendLazyHolds(Begin, held).log
    OBVIOUS
  <2>3. BeginsWith(L)
    BY <1>2, <2>2 DEF Pointer, Reports, Inject, BeginsWith
  <2>4. SaidInTurn
    BY <2>1, <2>2, <2>3, SendLazyHoldsSays
  <2>5. held' = HoldsSent(held) /\ order' = order
    BY <1>2 DEF Pointer
  <2>6. Unsent(held') = {} /\ \A f \in Finger : Stays(f)
    <3>1. ASSUME NEW f \in Finger
          PROVE  /\ held'[f].kind # "Undecided"
                 /\ f \in Unsent(held) => held'[f].kind = "Sent"
                 /\ f \notin Unsent(held) => held'[f] = held[f]
      BY <1>1, <2>5, HoldsSentEach
    <3> QED  BY <3>1 DEF Unsent, Stays
  <2> QED  BY <2>4, <2>5, <2>6 DEF Goes, Clicks
<1>3. CASE ~Settles(bs)
  <2>1. held' = held /\ order' = order /\ buttons' \in {buttons, bs}
    BY <1>3 DEF Pointer
  <2>2. ~ClickOnWay
    BY <1>3, <2>1 DEF ClickOnWay, Settles
  <2> QED  BY <2>1, <2>2 DEF Goes, Untouched
<1> QED  BY <1>2, <1>3

LEMMA TapWindowClosesGoes ==
  ASSUME IndInv, NEW f \in Finger, TapWindowCloses(f)
  PROVE  Goes
<1>1. held \in Fingers
  BY Opened
<1>2. held' = [held EXCEPT ![f].late = TRUE] /\ held[f].kind = "Undecided"
      /\ order' = order /\ buttons' = buttons
  BY DEF TapWindowCloses
<1>3. \A e \in Finger \ {f} : held'[e] = held[e]
  BY <1>1, <1>2 DEF Fingers
<1>4. held'[f] = [held[f] EXCEPT !.late = TRUE]
  BY <1>1, <1>2 DEF Fingers
<1>5. held'[f].kind = "Undecided" /\ held'[f].alone = held[f].alone
  <2>1. held[f] \in [kind : {"Undecided"}, hold : ModifierKey \ LockKey, tap : Key,
                     alone : BOOLEAN, late : BOOLEAN]
    BY <1>1, <1>2 DEF Fingers, HeldState
  <2> QED  BY <1>4, <2>1
<1> QED  BY <1>2, <1>3, <1>5 DEF Goes, Untouched, ClickOnWay

LEMMA StepGoes == IndInv /\ OrderInv /\ [Next]_vars => Goes
<1> SUFFICES ASSUME IndInv, OrderInv, [Next]_vars PROVE Goes
  OBVIOUS
<1>1. ASSUME UNCHANGED <<held, order, buttons>> PROVE Goes
  BY <1>1 DEF Goes, Untouched, ClickOnWay
<1>2. CASE UNCHANGED vars
  BY <1>1, <1>2 DEF vars
<1>3. ASSUME NEW d \in Device, NEW i \in Info, DeviceAttached(d, i) PROVE Goes
  BY <1>1, <1>3 DEF DeviceAttached
<1>4. ASSUME NEW f \in Finger, KeyDownAgain(f) \/ KeyUpUnheld(f) PROVE Goes
  BY <1>1, <1>4 DEF KeyDownAgain, KeyUpUnheld
<1>5. ASSUME Timer \/ Arrives PROVE Goes
  BY <1>1, <1>5 DEF Timer, Arrives
<1> QED
  BY <1>2, <1>3, <1>4, <1>5, DeviceDetachedGoes, ReleaseEverythingGoes, PressGoes, KeyUpHeldGoes,
     PointerGoes, TapWindowClosesGoes DEF Next

-----------------------------------------------------------------------------
(* What a finger's press is remembered by.                                 *)

TakenInv ==
  \A f \in Finger : held[f].kind = "Down" /\ held[f].key \notin Unsayable => taken[f] = Bits(held[f].mods)
CompanyInv == \A f \in Finger : held[f].kind = "Undecided" /\ held[f].alone => ~company[f]
HistoryInv == IndInv /\ OrderInv /\ TakenInv /\ CompanyInv

hvars == <<vars, taken, company>>

LEMMA HistoryAtFirst == HInit => HistoryInv
<1> SUFFICES ASSUME HInit PROVE HistoryInv
  OBVIOUS
<1>1. \A f \in Finger : held[f].kind = "NotDown"
  BY DEF HInit, Init, NotDown
<1>2. OrderInv
  BY <1>1 DEF HInit, Init, OrderInv, Once, Members, DownIn
<1>3. IndInv
  BY InitInv DEF HInit
<1> QED  BY <1>1, <1>2, <1>3 DEF HistoryInv, TakenInv, CompanyInv

LEMMA OrderStep == IndInv /\ OrderInv /\ Goes => OrderInv'
<1> SUFFICES ASSUME IndInv, OrderInv, Goes PROVE OrderInv'
  OBVIOUS
<1>1. CASE Untouched
  BY <1>1, OrderUntouched DEF Untouched, DownIn
<1>2. CASE Clicks
  <2>1. DownIn(held') = DownIn(held)
    BY <1>2 DEF Clicks, Stays, DownIn, Unsent
  <2> QED  BY <1>2, <2>1, OrderUntouched DEF Clicks
<1>3. ASSUME NEW f \in Finger, Presses(f) PROVE OrderInv'
  <2>1. DownIn(held') = DownIn(held) \cup {f}
    BY <1>3 DEF Presses, Stays, DownIn, Unsent
  <2> QED  BY <1>3, <2>1, OrderAppended DEF Presses
<1>4. ASSUME NEW f \in Finger, Lifts(f) PROVE OrderInv'
  <2>1. {f} \in SUBSET Finger
    OBVIOUS
  <2> QED  BY <1>4, <2>1, OrderTakenOff DEF Lifts
<1>5. ASSUME NEW S \in SUBSET Finger, Leave(S) PROVE OrderInv'
  BY <1>5, OrderTakenOff DEF Leave
<1> QED  BY <1>1, <1>2, <1>3, <1>4, <1>5 DEF Goes

LEMMA Presence ==
  ASSUME IndInv, IndInv', NEW f \in Finger
  PROVE  /\ IsDown(f) <=> held[f].kind # "NotDown"
         /\ IsDown(f)' <=> held'[f].kind # "NotDown"
<1>1. held \in Fingers /\ held' \in Fingers
  BY DEF IndInv, TypeOK, Fingers
<1> QED  BY <1>1, NothingElseDown DEF IsDown

LEMMA WithoutEach ==
  ASSUME NEW h, NEW S, NEW f \in Finger
  PROVE  /\ f \in S => Without(h, S)[f].kind = "NotDown"
         /\ f \notin S => Without(h, S)[f] = h[f]
  BY DEF Without, NotDown

LEMMA TakenStep == HistoryInv /\ IndInv' /\ Goes /\ HNext => TakenInv'
<1> SUFFICES ASSUME HistoryInv, IndInv', Goes, HNext,
                    NEW f \in Finger, held'[f].kind = "Down", held'[f].key \notin Unsayable
             PROVE  taken'[f] = Bits(held'[f].mods)
  BY DEF TakenInv
<1>1. taken'[f] = IF Pressing(f) THEN os'.mods ELSE IF ~IsDown(f)' THEN {} ELSE taken[f]
  BY DEF HNext
<1>2. /\ IsDown(f) <=> held[f].kind # "NotDown"
      /\ IsDown(f)'
  BY Presence DEF HistoryInv
<1>3. ASSUME held'[f] = held[f] PROVE taken'[f] = Bits(held'[f].mods)
  BY <1>1, <1>2, <1>3 DEF Pressing, HistoryInv, TakenInv
<1>4. ASSUME Stays(f) PROVE taken'[f] = Bits(held'[f].mods)
  BY <1>3, <1>4 DEF Stays
<1>5. CASE Untouched
  BY <1>3, <1>5 DEF Untouched
<1>6. CASE Clicks
  BY <1>4, <1>6 DEF Clicks
<1>7. ASSUME NEW e \in Finger, Presses(e) PROVE taken'[f] = Bits(held'[f].mods)
  <2>1. CASE e = f
    BY <1>1, <1>2, <1>7, <2>1 DEF Presses, Pressing
  <2>2. CASE e # f
    BY <1>4, <1>7, <2>2 DEF Presses
  <2> QED  BY <2>1, <2>2
<1>8. ASSUME NEW e \in Finger, Lifts(e) PROVE taken'[f] = Bits(held'[f].mods)
  BY <1>3, <1>8, WithoutEach DEF Lifts
<1>9. ASSUME NEW S \in SUBSET Finger, Leave(S) PROVE taken'[f] = Bits(held'[f].mods)
  BY <1>3, <1>9, WithoutEach DEF Leave
<1> QED  BY <1>5, <1>6, <1>7, <1>8, <1>9 DEF Goes

LEMMA CompanyStep == HistoryInv /\ IndInv' /\ Goes /\ HNext => CompanyInv'
<1> SUFFICES ASSUME HistoryInv, IndInv', Goes, HNext,
                    NEW f \in Finger, held'[f].kind = "Undecided", held'[f].alone
             PROVE  ~company'[f]
  BY DEF CompanyInv
<1>1. company'[f] = IF ~IsDown(f) \/ ~IsDown(f)' THEN FALSE
                    ELSE company[f] \/ ClickOnWay \/ \E g \in Finger : Pressing(g)
  BY DEF HNext
<1>2. \A g \in Finger : /\ IsDown(g) <=> held[g].kind # "NotDown"
                        /\ IsDown(g)' <=> held'[g].kind # "NotDown"
  BY Presence DEF HistoryInv
<1>3. ASSUME held[f].kind = "Undecided", held[f].alone, ~ClickOnWay,
             \A g \in Finger : held[g].kind = "NotDown" => held'[g].kind = "NotDown"
      PROVE  ~company'[f]
  BY <1>1, <1>2, <1>3 DEF Pressing, HistoryInv, CompanyInv
<1>4. ASSUME Stays(f) PROVE FALSE
  BY <1>4 DEF Stays, Unsent
<1>5. CASE Untouched
  BY <1>3, <1>5 DEF Untouched
<1>6. CASE Clicks
  BY <1>4, <1>6 DEF Clicks
<1>7. ASSUME NEW e \in Finger, Presses(e) PROVE ~company'[f]
  <2>1. e = f
    BY <1>4, <1>7 DEF Presses
  <2> QED  BY <1>1, <1>2, <1>7, <2>1 DEF Presses
<1>8. ASSUME NEW S \in SUBSET Finger, held' = Without(held, S), ~ClickOnWay PROVE ~company'[f]
  <2>1. held'[f] = held[f] /\ \A g \in Finger : held[g].kind = "NotDown" => held'[g].kind = "NotDown"
    BY <1>8, WithoutEach
  <2> QED  BY <1>3, <1>8, <2>1
<1>9. ASSUME NEW e \in Finger, Lifts(e) PROVE ~company'[f]
  <2>1. {e} \in SUBSET Finger /\ ~ClickOnWay
    BY <1>9 DEF Lifts, ClickOnWay
  <2> QED  BY <1>8, <1>9, <2>1 DEF Lifts
<1> QED  BY <1>5, <1>6, <1>7, <1>8, <1>9 DEF Goes, Leave

LEMMA HistoryStep == HistoryInv /\ [HNext]_hvars => HistoryInv'
<1> SUFFICES ASSUME HistoryInv, [HNext]_hvars PROVE HistoryInv'
  OBVIOUS
<1>1. [Next]_vars
  BY DEF HNext, hvars
<1>2. IndInv' /\ Goes /\ OrderInv'
  BY <1>1, StepInv, StepGoes, OrderStep DEF HistoryInv
<1>3. CASE HNext
  BY <1>2, <1>3, TakenStep, CompanyStep DEF HistoryInv
<1>4. CASE UNCHANGED hvars
  BY <1>2, <1>4 DEF hvars, vars, HistoryInv, TakenInv, CompanyInv
<1> QED  BY <1>3, <1>4

LEMMA History == HSpec => []HistoryInv
<1> QED  BY HistoryAtFirst, HistoryStep, PTL DEF HSpec, hvars

-----------------------------------------------------------------------------
(* What every step says of the fingers it lets go of.                      *)

LEMMA ReleasedGoes ==
  ASSUME HistoryInv, IndInv', Goes, NEW f \in Told(held), Releasing(f)
  PROVE  \/ \E S \in SUBSET Finger : f \in S /\ Leave(S)
         \/ Lifts(f)
<1>1. f \in Finger /\ held[f].kind \in {"Down", "Sent"}
  BY DEF Told
<1>2. held'[f].kind = "NotDown"
  BY <1>1, Presence DEF Releasing, HistoryInv
<1>3. f \notin Unsent(held) /\ held'[f] # held[f]
  BY <1>1, <1>2 DEF Unsent
<1>4. ~Stays(f)
  BY <1>3 DEF Stays
<1>5. ~Untouched /\ ~Clicks
  BY <1>1, <1>3, <1>4 DEF Untouched, Clicks
<1>6. ASSUME NEW e \in Finger, Presses(e) PROVE FALSE
  BY <1>1, <1>2, <1>4, <1>6 DEF Presses
<1>7. ASSUME NEW e \in Finger, Lifts(e) PROVE e = f
  BY <1>1, <1>3, <1>7, WithoutEach DEF Lifts
<1>8. ASSUME NEW S \in SUBSET Finger, Leave(S) PROVE f \in S
  BY <1>1, <1>3, <1>8, WithoutEach DEF Leave
<1> QED  BY <1>5, <1>6, <1>7, <1>8 DEF Goes

(* A key goes up under the modifiers it was taken with, whatever has been  *)
(* pressed or let go of since, also when its keyboard is torn out and when *)
(* the run ends.                                                           *)
THEOREM KeysGoUpAsTaken == HSpec => ReleasedAsTaken
<1>1. ASSUME HistoryInv, HistoryInv', [HNext]_hvars, NEW f \in Told(held), Releasing(f),
             held[f].kind = "Down", held[f].key \notin ModifierKey \cup Unsayable
      PROVE  \E i \in UpsOf(held[f].key) : Bits(injected'[i].mods) = taken[f]
  <2>1. Goes /\ IndInv'
    BY <1>1, StepGoes DEF HNext, hvars, HistoryInv
  <2>2. GoesUp(f)
    BY <1>1, <2>1, ReleasedGoes DEF Leave, LetGo, Lifts
  <2>3. taken[f] = Bits(held[f].mods)
    BY <1>1 DEF HistoryInv, TakenInv, Told
  <2> QED  BY <2>2, <2>3 DEF GoesUp
<1>2. HistoryInv /\ HistoryInv' /\ [HNext]_hvars =>
        [\A f \in Told(held) :
          Releasing(f) /\ held[f].kind = "Down" /\ held[f].key \notin ModifierKey \cup Unsayable
            => \E i \in UpsOf(held[f].key) : Bits(injected'[i].mods) = taken[f]]_vars
  BY <1>1
<1> QED  BY <1>2, History, PTL DEF HSpec, ReleasedAsTaken, hvars

(* A tap is typed only by a finger that was alone from its press to its    *)
(* release, let go of inside the window: never by a keyboard that goes.    *)
THEOREM TapsWereAlone == HSpec => TapMeansAlone
<1>1. ASSUME HistoryInv, HistoryInv', [HNext]_hvars, NEW f \in Unsent(held), Releasing(f),
             DownsOf(held[f].tap) # {}
      PROVE  ~company[f] /\ ~held[f].late
  <2>1. Goes /\ IndInv'
    BY <1>1, StepGoes DEF HNext, hvars, HistoryInv
  <2>2. f \in Finger /\ held[f].kind = "Undecided"
    BY <1>1 DEF Unsent
  <2>3. held'[f].kind = "NotDown"
    BY <1>1, <2>1, <2>2, Presence DEF Releasing, HistoryInv
  <2>4. ~NothingPressed
    BY <1>1 DEF NothingPressed, DownsOf
  <2>5. ~Untouched /\ ~Clicks /\ \A e \in Finger : ~Presses(e)
    BY <2>2, <2>3, <1>1 DEF Untouched, Clicks, Presses, Stays
  <2>6. ASSUME NEW S \in SUBSET Finger, Leave(S) PROVE FALSE
    BY <2>4, <2>6 DEF Leave, LetGo
  <2>7. PICK e \in Finger : Lifts(e)
    BY <2>1, <2>5, <2>6 DEF Goes
  <2>8. e = f
    BY <2>2, <2>3, <2>7, WithoutEach DEF Lifts
  <2>9. IsTap(held[f])
    BY <1>1, <2>4, <2>7, <2>8 DEF Lifts
  <2> QED  BY <1>1, <2>2, <2>9 DEF IsTap, HistoryInv, CompanyInv
<1>2. HistoryInv /\ HistoryInv' /\ [HNext]_hvars =>
        [\A f \in Unsent(held) :
          Releasing(f) /\ DownsOf(held[f].tap) # {} => ~company[f] /\ ~held[f].late]_vars
  BY <1>1
<1> QED  BY <1>2, History, PTL DEF HSpec, TapMeansAlone, hvars

(* A fresh character or a click reaches the OS behind every hold it was     *)
(* pressed under, each said in a report of its own, in the order their keys *)
(* went down and with every one pressed before it.                         *)
THEOREM HoldsAreSaidFirst == HSpec => HoldsReachTheOsFirst
<1>1. ASSUME HistoryInv, HistoryInv', [HNext]_hvars
      PROVE  TypesOrClicks \/ SendsHolds => Unsent(held') = {} /\ SaidInTurn
  <2>1. Goes /\ IndInv'
    BY <1>1, StepGoes DEF HNext, hvars, HistoryInv
  <2>2. \A f \in Finger : /\ IsDown(f) <=> held[f].kind # "NotDown"
                          /\ IsDown(f)' <=> held'[f].kind # "NotDown"
    BY <1>1, <2>1, Presence DEF HistoryInv
  <2>3. ASSUME TypesOrClicks PROVE Unsent(held') = {} /\ SaidInTurn
    <3>1. CASE ClickOnWay
      BY <2>1, <3>1 DEF Goes, Untouched, Clicks, Presses, Lifts, Leave, ClickOnWay
    <3>2. ASSUME NEW f \in Finger, Pressing(f), held'[f].kind = "Down", held'[f].key \notin ModifierKey
          PROVE  Unsent(held') = {} /\ SaidInTurn
      <4>1. held[f].kind = "NotDown" /\ held'[f].kind # "NotDown"
        BY <2>2, <3>2 DEF Pressing
      <4>2. f \notin Unsent(held) /\ ~Stays(f)
        BY <4>1 DEF Unsent, Stays
      <4>3. ~Untouched /\ ~Clicks
        BY <4>1, <4>2 DEF Untouched, Clicks
      <4>4. \A S : held' # Without(held, S)
        BY <4>1, WithoutEach
      <4>5. PICK e \in Finger : Presses(e)
        BY <2>1, <4>3, <4>4 DEF Goes, Lifts, Leave
      <4>6. e = f
        BY <4>2, <4>5 DEF Presses
      <4> QED  BY <3>2, <4>5, <4>6 DEF Presses
    <3> QED  BY <2>3, <3>1, <3>2 DEF TypesOrClicks
  <2>4. ASSUME NEW f \in Unsent(held), held'[f].kind = "Sent"
        PROVE  Unsent(held') = {} /\ SaidInTurn
    <3>1. f \in Finger /\ held[f].kind = "Undecided"
      BY DEF Unsent
    <3>2. ~Untouched
      BY <2>4, <3>1 DEF Untouched
    <3>3. \A S : held' # Without(held, S)
      BY <2>4, <3>1, WithoutEach
    <3> QED  BY <2>1, <2>4, <3>1, <3>2, <3>3 DEF Goes, Clicks, Presses, Lifts, Leave
  <2> QED  BY <2>3, <2>4 DEF SendsHolds
<1>2. HistoryInv /\ HistoryInv' /\ [HNext]_hvars =>
        [TypesOrClicks \/ SendsHolds => Unsent(held') = {} /\ SaidInTurn]_vars
  BY <1>1
<1> QED  BY <1>2, History, PTL DEF HSpec, HoldsReachTheOsFirst, hvars

(* When a keyboard goes or the run ends, a modifier leaves the reports     *)
(* behind every key that was pressed later, however many of both there are. *)
THEOREM LatestLeavesFirst == HSpec => LatestFirst
<1>1. ASSUME HistoryInv, HistoryInv', [HNext]_hvars, NEW f \in Told(held), NEW g \in Told(held),
             Releasing(f), Releasing(g), f # g,
             held[f].key \in ModifierKey, held[g].key \notin ModifierKey, Position(f) < Position(g)
      PROVE  \A i \in {n \in UpsOf(held[f].key) : held[f].key \notin injected'[n].mods} :
               \E j \in UpsOf(held[g].key) : j < i
  <2>1. Goes /\ IndInv'
    BY <1>1, StepGoes DEF HNext, hvars, HistoryInv
  <2>2. f \in Finger /\ g \in Finger /\ held[g].kind # "NotDown"
    BY <1>1 DEF Told
  <2>3. held'[g].kind = "NotDown"
    BY <1>1, <2>1, <2>2, Presence DEF Releasing, HistoryInv
  <2>4. ~Lifts(f)
    <3>1. SUFFICES ASSUME Lifts(f) PROVE FALSE
      OBVIOUS
    <3>2. held'[g] = held[g]
      BY <1>1, <2>2, <3>1, WithoutEach DEF Lifts
    <3> QED  BY <2>2, <2>3, <3>2
  <2>5. PICK S \in SUBSET Finger : f \in S /\ Leave(S)
    BY <1>1, <2>1, <2>4, ReleasedGoes
  <2>6. g \in S
    BY <2>2, <2>3, <2>5, WithoutEach DEF Leave
  <2> QED  BY <1>1, <2>5, <2>6 DEF Leave, LetGo, GoesUpBehind
<1>2. HistoryInv /\ HistoryInv' /\ [HNext]_hvars =>
        [\A f, g \in Told(held) :
          /\ Releasing(f) /\ Releasing(g) /\ f # g
          /\ held[f].key \in ModifierKey /\ held[g].key \notin ModifierKey
          /\ Position(f) < Position(g)
          => \A i \in {n \in UpsOf(held[f].key) : held[f].key \notin injected'[n].mods} :
               \E j \in UpsOf(held[g].key) : j < i]_vars
  BY <1>1
<1> QED  BY <1>2, History, PTL DEF HSpec, LatestFirst, hvars

=============================================================================
