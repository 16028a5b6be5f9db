----------------------------- MODULE LinkProofs -----------------------------
(***************************************************************************)
(* Proofs about the link, for any devices and keys, any room between the   *)
(* machines and any length of silence: every variable keeps its type,      *)
(* whichever way a session ends the sink is left holding nothing of it,    *)
(* and the two ends agree on the keys that are down.                       *)
(*                                                                         *)
(* The second is not inductive as it stands: it says nothing while a       *)
(* session is read.  What carries it there is that the sink holds a key of *)
(* no device but those the session has mentioned, or those it is letting   *)
(* go of.  The third is of a stream with records on their way and records  *)
(* not yet sent: what carries it is what one record more at its end, and   *)
(* one less at its head, do to the key that is down when all is read and   *)
(* to the keyboards known by then; and that this end announces a device    *)
(* before it holds a key of it, and holds each key once.                   *)
(***************************************************************************)
EXTENDS Link, TLAPS

Mentioned ==
  \A d \in Device : d \in mirrored \/ sinkHeld[d] # {} => d \in seen \cup releasing
OneAtATime == /\ ~serving => seen = {}
              /\ serving => releasing = {}
SinkInv == TypeOK /\ Mentioned /\ OneAtATime

-----------------------------------------------------------------------------
(* Sequences, and what is said on them.                                    *)

LEMMA Shortened ==
  ASSUME NEW S, NEW s \in Seq(S), s # <<>>
  PROVE  /\ Last(s) \in S /\ Front(s) \in Seq(S)
         /\ Head(s) \in S /\ Tail(s) \in Seq(S)
  BY DEF Last, Front

LEMMA OneTakenOut ==
  ASSUME NEW S, NEW s \in Seq(S), NEW i \in 1..Len(s)
  PROVE  RemoveAt(s, i) \in Seq(S)
  BY DEF RemoveAt

LEMMA CutShort ==
  ASSUME NEW S, NEW s \in Seq(S), NEW n \in 0..Len(s)
  PROVE  SubSeq(s, 1, n) \in Seq(S)
  OBVIOUS

LEMMA Empty ==
  ASSUME NEW S
  PROVE  <<>> \in Seq(S)
  OBVIOUS

LEMMA Lengthened ==
  ASSUME NEW S, NEW s \in Seq(S), NEW m \in S
  PROVE  Append(s, m) \in Seq(S)
  OBVIOUS

LEMMA JustOne ==
  ASSUME NEW S, NEW m \in S
  PROVE  <<m>> \in Seq(S)
  OBVIOUS

LEMMA DeviceInputs ==
  ASSUME NEW d \in Device
  PROVE  Attached(d) \in Input /\ Detached(d) \in Input
  BY DEF Attached, Detached, Input

LEMMA KeyInputs ==
  ASSUME NEW d \in Keyboard, NEW k \in Key
  PROVE  KeyDown(d, k) \in Input /\ KeyUp(d, k) \in Input
  BY DEF KeyDown, KeyUp, Input

LEMMA PointerInputs ==
  ASSUME NEW d \in Mouse, NEW down \in BOOLEAN
  PROVE  Pointer(d, down) \in Input
  BY DEF Pointer, Input

LEMMA InputIsSealed == Input \subseteq Sealed
  BY DEF Sealed

LEMMA MarksAreSealed == StillHere \in Sealed /\ Unopenable \in Sealed
  BY DEF Sealed, StillHere, Unopenable

(* A record the sink can open says something of a device, or nothing.      *)
LEMMA InputDevice ==
  ASSUME NEW m \in Sealed, m # Unopenable, m.kind # "StillHere"
  PROVE  m.device \in Device /\ m \in Input
<1>1. m \in Input
  BY DEF Sealed, Unopenable, StillHere
<1> QED
  BY <1>1 DEF Input, Device

LEMMA InputKey ==
  ASSUME NEW m \in Sealed, m.kind \in {"KeyDown", "KeyUp"}
  PROVE  m.key \in Key /\ m.device \in Device
  BY DEF Sealed, Input, Device

LEMMA InputDown ==
  ASSUME NEW m \in Sealed, m.kind = "Pointer"
  PROVE  m.down \in BOOLEAN /\ m.device \in Device
  BY DEF Sealed, Input, Device

-----------------------------------------------------------------------------
(* Types.                                                                  *)

LEMMA QuietsDown ==
  ASSUME TypeOK
  PROVE  Quieter \in 0..Idle
  BY IdleAssumption DEF TypeOK, Quieter

LEMMA RelaysType ==
  ASSUME TypeOK, NEW d \in Device, NEW m \in Input, Relays(d, m)
  PROVE  /\ out' \in Seq(Input)
         /\ announced' \in SUBSET Device
         /\ UNCHANGED network
<1>1. Announced(d, m) \in Seq(Input)
  BY DeviceInputs DEF Announced
<1> QED
  BY <1>1 DEF Relays, Says, TypeOK

LEMMA HandOverType ==
  ASSUME TypeOK, NEW m \in Sealed, NEW went \in BOOLEAN, HandOver(m, went)
  PROVE  /\ wire' \in Seq(Sealed) /\ gap' \in BOOLEAN /\ quiet' \in 0..Idle
         /\ UNCHANGED cut
<1>1. (IF gap THEN Unopenable ELSE m) \in Sealed
  BY MarksAreSealed
<1>2. Append(wire, IF gap THEN Unopenable ELSE m) \in Seq(Sealed)
  BY <1>1, Lengthened DEF TypeOK
<1>3. quiet' \in 0..Idle
  BY IdleAssumption DEF HandOver, TypeOK
<1> QED
  BY <1>2, <1>3 DEF HandOver, TypeOK

LEMMA TypeInit == Init => TypeOK
<1>1. <<>> \in Seq(Input) /\ <<>> \in Seq(Sealed) /\ <<>> \in Seq(Key)
  BY Empty
<1>2. 0 \in 0..Idle
  BY IdleAssumption
<1> QED
  BY <1>1, <1>2 DEF Init, TypeOK, NothingHeld

LEMMA AttachType ==
  ASSUME TypeOK, NEW d \in Device, Attach(d)
  PROVE  TypeOK'
<1>1. held' \in [Device -> Seq(Key)]
  BY Empty DEF Attach, TypeOK
<1>2. CASE driving = "There"
  <2>1. <<Attached(d)>> \in Seq(Input)
    BY DeviceInputs, JustOne
  <2> QED
    BY <1>1, <1>2, <2>1 DEF Attach, Says, TypeOK, sink, network
<1>3. CASE driving # "There"
  BY <1>1, <1>3, QuietsDown DEF Attach, SaysNothing, TypeOK, sink
<1> QED
  BY <1>2, <1>3

LEMMA DetachType ==
  ASSUME TypeOK, NEW d \in Device, Detach(d)
  PROVE  TypeOK'
<1>1. held' \in [Device -> Seq(Key)]
  BY Empty DEF Detach, TypeOK
<1>2. CASE driving = "There" /\ d \in announced
  <2>1. <<Detached(d)>> \in Seq(Input)
    BY DeviceInputs, JustOne
  <2> QED
    BY <1>1, <1>2, <2>1 DEF Detach, Says, TypeOK, sink, network
<1>3. CASE ~(driving = "There" /\ d \in announced)
  BY <1>1, <1>3, QuietsDown DEF Detach, SaysNothing, TypeOK, sink
<1> QED
  BY <1>2, <1>3

LEMMA KeyGoesDownType ==
  ASSUME TypeOK, NEW d \in Keyboard, NEW k \in Key, KeyGoesDown(d, k)
  PROVE  TypeOK'
<1> d \in Device
  BY DEF Device
<1>1. fingers' \in SUBSET (Keyboard \X Key)
  BY DEF KeyGoesDown, TypeOK
<1>2. CASE driving = "There" /\ ~Holds(d, k)
  <2>1. Append(held[d], k) \in Seq(Key)
    BY Lengthened DEF TypeOK
  <2>2. held' = [held EXCEPT ![d] = Append(held[d], k)]
    BY <1>2 DEF KeyGoesDown
  <2>3. held' \in [Device -> Seq(Key)]
    BY <2>1, <2>2 DEF TypeOK
  <2> QED
    BY <1>1, <1>2, <2>3, RelaysType, KeyInputs DEF KeyGoesDown, TypeOK, sink, network
<1>3. CASE ~(driving = "There" /\ ~Holds(d, k))
  BY <1>1, <1>3, QuietsDown DEF KeyGoesDown, SaysNothing, TypeOK, sink
<1> QED
  BY <1>2, <1>3

LEMMA KeyComesUpType ==
  ASSUME TypeOK, NEW d \in Keyboard, NEW k \in Key, KeyComesUp(d, k)
  PROVE  TypeOK'
<1> d \in Device
  BY DEF Device
<1>1. fingers' \in SUBSET (Keyboard \X Key)
  BY DEF KeyComesUp, TypeOK
<1>2. CASE driving = "There" /\ Holds(d, k)
  <2>1. PICK i \in 1..Len(held[d]) : held' = [held EXCEPT ![d] = RemoveAt(@, i)]
    BY <1>2 DEF KeyComesUp
  <2>2. held' \in [Device -> Seq(Key)]
    BY <2>1, OneTakenOut DEF TypeOK
  <2> QED
    BY <1>1, <1>2, <2>2, RelaysType, KeyInputs DEF KeyComesUp, TypeOK, sink, network
<1>3. CASE ~(driving = "There" /\ Holds(d, k))
  BY <1>1, <1>3, QuietsDown DEF KeyComesUp, SaysNothing, TypeOK, sink
<1> QED
  BY <1>2, <1>3

LEMMA PointsType ==
  ASSUME TypeOK, NEW d \in Mouse, NEW down \in BOOLEAN, NEW still \in BOOLEAN,
         Points(d, down, still)
  PROVE  TypeOK'
<1> d \in Device
  BY DEF Device
<1>1. dragging' \in SUBSET Mouse
  BY DEF Points, TypeOK
<1>2. CASE SaysNothing /\ UNCHANGED announced
  BY <1>1, <1>2, QuietsDown DEF Points, SaysNothing, TypeOK, sink
<1>3. CASE Relays(d, Pointer(d, down))
  BY <1>1, <1>3, RelaysType, PointerInputs DEF Points, TypeOK, sink, network
<1> QED
  BY <1>2, <1>3 DEF Points

LEMMA PersonType ==
  ASSUME TypeOK, Person
  PROVE  TypeOK'
<1>1. CASE AskForTheSink
  BY <1>1, QuietsDown DEF AskForTheSink, SaysNothing, TypeOK, forwarding, sink
<1>2. CASE AskForThisMachine
  BY <1>2, QuietsDown DEF AskForThisMachine, SaysNothing, TypeOK, forwarding, sink
<1> QED
  BY <1>1, <1>2, AttachType, DetachType, KeyGoesDownType, KeyComesUpType, PointsType
     DEF Person

LEMMA SendType ==
  ASSUME TypeOK, NEW went \in BOOLEAN, Send(went)
  PROVE  TypeOK'
<1>1. Head(out) \in Sealed /\ Tail(out) \in Seq(Input)
  BY Shortened, InputIsSealed DEF Send, TypeOK
<1>2. out' \in Seq(Input)
  BY <1>1, Empty DEF Send
<1>3. HandOver(Head(out), went)
  BY DEF Send
<1> QED
  BY <1>1, <1>2, <1>3, HandOverType DEF Send, TypeOK, forwarding, sink

LEMMA WaitHereType ==
  ASSUME TypeOK, NEW went \in BOOLEAN, WaitHere(went)
  PROVE  TypeOK'
<1>1. HandOver(StillHere, went)
  BY DEF WaitHere
<1> QED
  BY <1>1, HandOverType, MarksAreSealed DEF WaitHere, TypeOK, forwarding, sink

LEMMA LetGoOfAKeyType ==
  ASSUME TypeOK, NEW d \in Keyboard, NEW went \in BOOLEAN, LetGoOfAKey(d, went)
  PROVE  TypeOK'
<1>1. d \in Device /\ held[d] \in Seq(Key) /\ held[d] # <<>>
  BY DEF Device, LetGoOfAKey, TypeOK
<1>2. KeyUp(d, Last(held[d])) \in Sealed
  BY <1>1, Shortened, KeyInputs, InputIsSealed
<1>3. held' = [held EXCEPT ![d] = Front(held[d])] /\ Front(held[d]) \in Seq(Key)
  BY <1>1, Shortened DEF LetGoOfAKey
<1>4. held' \in [Device -> Seq(Key)]
  BY <1>3 DEF TypeOK
<1>5. HandOver(KeyUp(d, Last(held[d])), went)
  BY DEF LetGoOfAKey
<1> QED
  BY <1>2, <1>4, <1>5, HandOverType DEF LetGoOfAKey, TypeOK, sink

LEMMA LetGoOfAButtonType ==
  ASSUME TypeOK, NEW d \in Mouse, NEW went \in BOOLEAN, LetGoOfAButton(d, went)
  PROVE  TypeOK'
<1>1. Pointer(d, FALSE) \in Sealed
  BY PointerInputs, InputIsSealed
<1>2. HandOver(Pointer(d, FALSE), went)
  BY DEF LetGoOfAButton
<1> QED
  BY <1>1, <1>2, HandOverType DEF LetGoOfAButton, TypeOK, sink

LEMMA LinkComesType ==
  ASSUME TypeOK, NEW paired \in BOOLEAN, LinkComes(paired)
  PROVE  TypeOK'
<1>1. <<>> \in Seq(Sealed) /\ <<>> \in Seq(Key) /\ 0 \in 0..Idle
  BY Empty, IdleAssumption
<1>2. held' \in [Device -> Seq(Key)]
  BY <1>1 DEF LinkComes, NewlyHeld, NothingHeld
<1> QED
  BY <1>1, <1>2 DEF LinkComes, NewlyAnnounced, TypeOK

LEMMA CutOffType ==
  ASSUME TypeOK, NEW n \in 0..Len(wire), CutOff(n)
  PROVE  TypeOK'
<1>1. wire' \in Seq(Sealed)
  BY CutShort DEF CutOff, TypeOK
<1> QED
  BY <1>1 DEF CutOff, TypeOK, forwarding, sink

LEMMA TakeType ==
  ASSUME TypeOK, Take
  PROVE  TypeOK'
<1> DEFINE m == Head(wire)
<1>1. m \in Sealed /\ m # Unopenable /\ Tail(wire) \in Seq(Sealed)
  BY Shortened DEF Take, TypeOK
<1>2. m.kind # "StillHere" => m.device \in Device
  BY <1>1, InputDevice
<1>3. seen' \in SUBSET Device /\ mirrored' \in SUBSET Device
  BY <1>2 DEF Take, Taken, TypeOK
<1>4. sinkHeld' \in [Device -> SUBSET Key]
  BY <1>1, InputKey DEF Take, Taken, TypeOK
<1>5. sinkButton' \in BOOLEAN
  BY <1>1, InputDown DEF Take, Taken, TypeOK
<1> QED
  BY <1>1, <1>3, <1>4, <1>5 DEF Take, TypeOK, forwarding

LEMMA SessionEndsType ==
  ASSUME TypeOK, SessionEnds
  PROVE  TypeOK'
  BY Empty DEF SessionEnds, Lost, TypeOK, forwarding

LEMMA DeviceLostType ==
  ASSUME TypeOK, NEW d \in Device, DeviceLost(d)
  PROVE  TypeOK'
  BY DEF DeviceLost, TypeOK, forwarding, network

(* Only a keyboard holds keys and only a mouse a button, so these are all  *)
(* the ways there are of letting go.                                       *)
LEMMA RunType ==
  ASSUME TypeOK, Run
  PROVE  TypeOK'
<1>1. CASE ComeBack
  BY <1>1 DEF ComeBack, TypeOK, forwarding, network, sink
<1>2. CASE WaitThere
  BY <1>2, QuietsDown DEF WaitThere, SaysNothing, TypeOK, forwarding, sink
<1> QED
  BY <1>1, <1>2, SendType, WaitHereType, LetGoOfAKeyType, LetGoOfAButtonType DEF Run

LEMMA TypeStep == TypeOK /\ [Next]_vars => TypeOK'
<1>1. CASE UNCHANGED vars
  BY <1>1 DEF vars, forwarding, network, sink, TypeOK
<1> QED
  BY <1>1, PersonType, RunType, LinkComesType, CutOffType, TakeType, SessionEndsType,
     DeviceLostType DEF Next, Network, Serve

(* Every variable keeps its type.                                          *)
THEOREM TypeCorrect == Spec => []TypeOK
  BY TypeInit, TypeStep, PTL DEF Spec

-----------------------------------------------------------------------------
(* What the sink is left holding.                                          *)

LEMMA SinkInit == Init => SinkInv
  BY TypeInit DEF Init, SinkInv, Mentioned, OneAtATime

(* Nothing this end does reaches the sink but by the wire.                 *)
LEMMA OutOfReach ==
  ASSUME SinkInv, TypeOK', UNCHANGED sink
  PROVE  SinkInv'
  BY DEF SinkInv, Mentioned, OneAtATime, sink

(* A record read mentions the device it gives a key of or an announcement, *)
(* and one that takes a device off the list takes its keys with it.        *)
LEMMA TakeMentions ==
  ASSUME SinkInv, Take
  PROVE  Mentioned' /\ OneAtATime'
<1> DEFINE m == Head(wire)
<1>1. TypeOK /\ m \in Sealed /\ m # Unopenable
  BY Shortened DEF Take, SinkInv, TypeOK
<1>2. serving /\ serving' = serving /\ releasing' = releasing
  BY DEF Take
<1>3. Mentioned'
  <2> SUFFICES ASSUME NEW d \in Device, d \in mirrored' \/ sinkHeld'[d] # {}
               PROVE  d \in seen' \cup releasing'
    BY DEF Mentioned
  <2>1. d \in mirrored \/ sinkHeld[d] # {} => d \in seen \cup releasing
    BY DEF SinkInv, Mentioned
  <2>2. CASE m.kind = "StillHere"
    BY <1>2, <2>1, <2>2 DEF Take, Taken
  <2>3. CASE m.kind = "Detached"
    <3>1. m.device \in Device /\ sinkHeld' = [sinkHeld EXCEPT ![m.device] = {}]
      BY <1>1, <2>3, InputDevice DEF Take, Taken
    <3>2. d # m.device
      BY <1>1, <2>3, <3>1 DEF Take, Taken, TypeOK
    <3> QED
      BY <1>1, <1>2, <2>1, <2>3, <3>1, <3>2 DEF Take, Taken, TypeOK
  <2>4. CASE m.kind \notin {"StillHere", "Detached"}
    <3>1. seen' = seen \cup {m.device}
      BY <2>4 DEF Take, Taken
    <3>2. CASE d = m.device
      BY <3>1, <3>2
    <3>3. CASE d # m.device
      <4>1. d \in mirrored' <=> d \in mirrored
        BY <2>4, <3>3 DEF Take, Taken
      <4>2. sinkHeld'[d] = sinkHeld[d]
        BY <1>1, <2>4, <3>3 DEF Take, Taken, TypeOK
      <4> QED
        BY <1>2, <2>1, <3>1, <4>1, <4>2
    <3> QED
      BY <3>2, <3>3
  <2> QED
    BY <2>2, <2>3, <2>4
<1> QED
  BY <1>2, <1>3 DEF SinkInv, OneAtATime

(* The end of a session hands every device it mentioned on to be let go of.*)
LEMMA SessionEndsMentions ==
  ASSUME SinkInv, SessionEnds
  PROVE  Mentioned' /\ OneAtATime'
  BY DEF SinkInv, Mentioned, OneAtATime, SessionEnds, Lost

LEMMA DeviceLostMentions ==
  ASSUME SinkInv, NEW d \in Device, DeviceLost(d)
  PROVE  Mentioned' /\ OneAtATime'
<1>1. Mentioned'
  <2> SUFFICES ASSUME NEW q \in Device, q \in mirrored' \/ sinkHeld'[q] # {}
               PROVE  q \in seen' \cup releasing'
    BY DEF Mentioned
  <2>1. q # d
    BY DEF DeviceLost, SinkInv, TypeOK
  <2> QED
    BY <2>1 DEF DeviceLost, SinkInv, TypeOK, Mentioned
<1> QED
  BY <1>1 DEF SinkInv, OneAtATime, DeviceLost

(* A link comes up only at a listener with nothing left to let go of.      *)
LEMMA LinkComesMentions ==
  ASSUME SinkInv, NEW paired \in BOOLEAN, LinkComes(paired)
  PROVE  Mentioned' /\ OneAtATime'
  BY DEF SinkInv, Mentioned, OneAtATime, LinkComes

LEMMA SinkStep == SinkInv /\ [Next]_vars => SinkInv'
<1> SUFFICES ASSUME SinkInv, [Next]_vars
             PROVE  SinkInv'
  OBVIOUS
<1>1. TypeOK'
  BY TypeStep DEF SinkInv
<1>2. CASE UNCHANGED sink
  BY <1>1, <1>2, OutOfReach
<1>3. CASE Serve
  BY <1>1, <1>3, TakeMentions, SessionEndsMentions, DeviceLostMentions DEF Serve, SinkInv
<1>4. ASSUME NEW paired \in BOOLEAN, LinkComes(paired)
      PROVE  SinkInv'
  BY <1>1, <1>4, LinkComesMentions DEF SinkInv
<1>5. CASE UNCHANGED vars
  BY <1>2, <1>5 DEF vars
<1>6. CASE Person
  BY <1>2, <1>6 DEF Person, Attach, Detach, KeyGoesDown, KeyComesUp, Points,
                    AskForTheSink, AskForThisMachine
<1>7. CASE Run
  BY <1>2, <1>7 DEF Run, Send, WaitHere, LetGoOfAKey, LetGoOfAButton, ComeBack, WaitThere
<1>8. ASSUME NEW n \in 0..Len(wire), CutOff(n)
      PROVE  SinkInv'
  BY <1>2, <1>8 DEF CutOff
<1> QED
  BY <1>3, <1>4, <1>5, <1>6, <1>7, <1>8 DEF Next, Network

(* However a session ended, once its devices have been said to be lost the *)
(* sink holds no key of any of them and converts for none.                 *)
THEOREM NoKeyOutlivesASession == Spec => []NothingLeftHeld
<1>1. SinkInv => NothingLeftHeld
  BY DEF SinkInv, TypeOK, Mentioned, OneAtATime, NothingLeftHeld
<1> QED
  BY <1>1, SinkInit, SinkStep, PTL DEF Spec

-----------------------------------------------------------------------------
(* What the two ends agree on.  The invariant speaks of all that was said  *)
(* on a session, sent or not, and of a link nothing has been lost from;    *)
(* what this end holds, it has announced, and it says nothing but while    *)
(* the keyboard is the sink's.                                             *)

Live == session /\ ~cut /\ ~gap

Among(s, x) == \E i \in 1..Len(s) : s[i] = x
Once(s) == \A i, j \in 1..Len(s) : s[i] = s[j] => i = j

Tidy ==
  /\ announced \subseteq attached
  /\ \A d \in Device : held[d] # <<>> => d \in announced
  /\ \A d \in Device : Once(held[d])
  /\ driving = "Here" => \A d \in Device : held[d] = <<>>
  /\ out # <<>> => driving = "There" /\ session
  /\ ~serving => cut /\ wire = <<>>

(* Whether the key is down once s is read, being down before it or not.    *)
LastIn(s, i, d, k) == About(s[i], d, k) /\ \A j \in i + 1..Len(s) : ~About(s[j], d, k)
Comes(s, before, d, k) ==
  \/ \E i \in 1..Len(s) : LastIn(s, i, d, k) /\ s[i] = KeyDown(d, k)
  \/ before /\ \A i \in 1..Len(s) : ~About(s[i], d, k)

(* Whether the keyboard is known by the time s is read as far as i.        *)
Told(s, before, d, i) ==
  \/ \E j \in 1..i - 1 : s[j] = Attached(d) /\ \A n \in j + 1..i - 1 : s[n] # Detached(d)
  \/ before /\ \A n \in 1..i - 1 : s[n] # Detached(d)
OfOneKnown(s, known) ==
  \A i \in 1..Len(s) : s[i].kind = "KeyDown" => Told(s, s[i].device \in known, s[i].device, i)

Agreed ==
  Live => \A d \in Keyboard, k \in Key : Holds(d, k) <=> Comes(Said, k \in sinkHeld[d], d, k)
KnownBy(s, known, A) ==
  OfOneKnown(s, known) /\ \A d \in A : Told(s, d \in known, d, Len(s) + 1)
Known == OfOneKnown(wire, mirrored) /\ (Live => KnownBy(Said, mirrored, announced))

LEMMA OneMore ==
  ASSUME NEW S, NEW s \in Seq(S), NEW m \in S
  PROVE  LET t == s \o <<m>>
         IN  /\ t \in Seq(S) /\ Len(t) = Len(s) + 1 /\ t[Len(t)] = m /\ Len(s) \in Nat
             /\ \A i \in 1..Len(s) : t[i] = s[i]
  OBVIOUS

LEMMA OneLess ==
  ASSUME NEW S, NEW s \in Seq(S), s # <<>>
  PROVE  /\ Head(s) = s[1] /\ Tail(s) \in Seq(S) /\ Len(s) \in Nat
         /\ Len(s) = Len(Tail(s)) + 1 /\ Len(Tail(s)) \in Nat
         /\ \A i \in 1..Len(Tail(s)) : Tail(s)[i] = s[i + 1]
  OBVIOUS

LEMMA ComesLast ==
  ASSUME NEW S, NEW s \in Seq(S), NEW m \in S, NEW d, NEW k, NEW before \in BOOLEAN
  PROVE  Comes(s \o <<m>>, before, d, k)
           <=> IF About(m, d, k) THEN m = KeyDown(d, k) ELSE Comes(s, before, d, k)
<1> DEFINE t == s \o <<m>>  n == Len(s) + 1
<1>1. /\ Len(s) \in Nat /\ Len(t) = n /\ t[n] = m /\ \A i \in 1..Len(s) : t[i] = s[i]
  BY OneMore
<1> HIDE DEF t
<1>2. \A i \in 1..n : i \in 1..Len(s) \/ i = n
  BY <1>1
<1>3. n \in 1..n /\ \A i \in 1..Len(s) : i \in 1..n /\ n \in i + 1..n
  BY <1>1
<1>4. CASE About(m, d, k)
  <2>1. \A i \in 1..Len(s) : ~LastIn(t, i, d, k)
    BY <1>1, <1>3, <1>4 DEF LastIn
  <2>2. LastIn(t, n, d, k)
    BY <1>1, <1>4 DEF LastIn
  <2> QED  BY <1>1, <1>2, <1>3, <1>4, <2>1, <2>2 DEF Comes, t
<1>5. CASE ~About(m, d, k)
  <2>1. ASSUME NEW i \in 1..Len(s) PROVE LastIn(t, i, d, k) <=> LastIn(s, i, d, k)
    <3>1. \A j \in i + 1..n : j \in i + 1..Len(s) \/ j = n
      BY <1>1
    <3>2. \A j \in i + 1..Len(s) : j \in i + 1..n /\ j \in 1..Len(s)
      BY <1>1
    <3> QED  BY <1>1, <1>5, <3>1, <3>2 DEF LastIn
  <2>2. ~LastIn(t, n, d, k)
    BY <1>1, <1>5 DEF LastIn
  <2>3. (\A i \in 1..n : ~About(t[i], d, k)) <=> (\A i \in 1..Len(s) : ~About(s[i], d, k))
    BY <1>1, <1>2, <1>3, <1>5
  <2>4. Comes(t, before, d, k) <=> Comes(s, before, d, k)
    BY <1>1, <1>2, <1>3, <2>1, <2>2, <2>3 DEF Comes
  <2> QED  BY <1>5, <2>4 DEF t
<1> QED  BY <1>4, <1>5

LEMMA ComesFirst ==
  ASSUME NEW S, NEW s \in Seq(S), s # <<>>, NEW d, NEW k, NEW before \in BOOLEAN
  PROVE  LET m == Head(s)
         IN  Comes(s, before, d, k)
               <=> Comes(Tail(s), IF About(m, d, k) THEN m = KeyDown(d, k) ELSE before, d, k)
<1> DEFINE t == Tail(s)  m == Head(s)
           after == IF About(m, d, k) THEN m = KeyDown(d, k) ELSE before
<1>1. /\ m = s[1] /\ Len(t) \in Nat /\ Len(s) = Len(t) + 1
      /\ \A i \in 1..Len(t) : t[i] = s[i + 1]
  BY OneLess
<1> HIDE DEF t, m
<1>2. \A i \in 1..Len(t) : i + 1 \in 1..Len(s)
  BY <1>1
<1>3. ASSUME NEW i \in 2..Len(s) PROVE i - 1 \in 1..Len(t) /\ s[i] = t[i - 1]
  <2>1. i - 1 \in 1..Len(t) /\ (i - 1) + 1 = i
    BY <1>1
  <2> QED  BY <1>1, <2>1
<1>4. (\A i \in 2..Len(s) : ~About(s[i], d, k)) <=> (\A i \in 1..Len(t) : ~About(t[i], d, k))
  <2>1. \A i \in 1..Len(t) : i + 1 \in 2..Len(s)
    BY <1>1
  <2> QED  BY <1>1, <1>3, <2>1
<1>5. ASSUME NEW i \in 1..Len(t) PROVE LastIn(s, i + 1, d, k) <=> LastIn(t, i, d, k)
  <2>1. ASSUME NEW j \in i + 1..Len(t) PROVE j + 1 \in i + 2..Len(s) /\ s[j + 1] = t[j]
    BY <1>1
  <2>2. ASSUME NEW j \in i + 2..Len(s) PROVE j - 1 \in i + 1..Len(t) /\ s[j] = t[j - 1]
    <3>1. j \in 2..Len(s) /\ j - 1 \in i + 1..Len(t)
      BY <1>1
    <3> QED  BY <1>3, <3>1
  <2>3. (\A j \in i + 2..Len(s) : ~About(s[j], d, k))
          <=> (\A j \in i + 1..Len(t) : ~About(t[j], d, k))
    BY <2>1, <2>2
  <2>4. (i + 1) + 1 = i + 2
    OBVIOUS
  <2> QED  BY <1>1, <2>3, <2>4 DEF LastIn
<1>6. LastIn(s, 1, d, k) <=> About(m, d, k) /\ \A i \in 1..Len(t) : ~About(t[i], d, k)
  BY <1>1, <1>4 DEF LastIn
<1>7. (\A i \in 1..Len(s) : ~About(s[i], d, k))
        <=> ~About(m, d, k) /\ \A i \in 1..Len(t) : ~About(t[i], d, k)
  <2>1. 1 \in 1..Len(s) /\ \A i \in 1..Len(s) : i = 1 \/ i \in 2..Len(s)
    BY <1>1
  <2>2. \A i \in 2..Len(s) : i \in 1..Len(s)
    BY <1>1
  <2> QED  BY <1>1, <1>4, <2>1, <2>2
<1>8. (\E i \in 1..Len(s) : LastIn(s, i, d, k) /\ s[i] = KeyDown(d, k))
        <=> \/ LastIn(s, 1, d, k) /\ m = KeyDown(d, k)
            \/ \E i \in 1..Len(t) : LastIn(t, i, d, k) /\ t[i] = KeyDown(d, k)
  <2>1. ASSUME NEW i \in 1..Len(s), LastIn(s, i, d, k), s[i] = KeyDown(d, k), i # 1
        PROVE  \E j \in 1..Len(t) : LastIn(t, j, d, k) /\ t[j] = KeyDown(d, k)
    <3>1. i \in 2..Len(s) /\ (i - 1) + 1 = i
      BY <1>1, <2>1
    <3>2. i - 1 \in 1..Len(t) /\ s[i] = t[i - 1]
      BY <1>3, <3>1
    <3>3. LastIn(t, i - 1, d, k)
      BY <1>5, <2>1, <3>1, <3>2
    <3> QED  BY <2>1, <3>2, <3>3
  <2>2. ASSUME NEW i \in 1..Len(t), LastIn(t, i, d, k), t[i] = KeyDown(d, k)
        PROVE  \E j \in 1..Len(s) : LastIn(s, j, d, k) /\ s[j] = KeyDown(d, k)
    <3>1. i + 1 \in 1..Len(s) /\ LastIn(s, i + 1, d, k) /\ s[i + 1] = KeyDown(d, k)
      BY <1>1, <1>2, <1>5, <2>2
    <3> QED  BY <3>1
  <2>3. 1 \in 1..Len(s)
    BY <1>1
  <2> QED  BY <1>1, <2>1, <2>2, <2>3
<1>9. Comes(s, before, d, k) <=> Comes(t, after, d, k)
  BY <1>6, <1>7, <1>8 DEF Comes
<1> QED  BY <1>9 DEF t, m

LEMMA ToldSoFar ==
  ASSUME NEW S, NEW s \in Seq(S), NEW u \in Seq(S), NEW before \in BOOLEAN, NEW d,
         NEW i \in 1..Len(s) + 1
  PROVE  Told(s \o u, before, d, i) <=> Told(s, before, d, i)
<1> DEFINE t == s \o u
<1>1. Len(s) \in Nat /\ \A j \in 1..Len(s) : t[j] = s[j]
  OBVIOUS
<1> HIDE DEF t
<1>2. \A j \in 1..i - 1 : j \in 1..Len(s)
  BY <1>1
<1>3. \A j \in 1..i - 1 : \A n \in j + 1..i - 1 : n \in 1..Len(s)
  BY <1>1
<1>4. Told(t, before, d, i) <=> Told(s, before, d, i)
  BY <1>1, <1>2, <1>3 DEF Told
<1> QED  BY <1>4 DEF t

LEMMA ToldLast ==
  ASSUME NEW S, NEW s \in Seq(S), NEW m \in S, NEW before \in BOOLEAN, NEW d,
         m = Attached(d) \/ (Told(s, before, d, Len(s) + 1) /\ m # Detached(d))
  PROVE  Told(s \o <<m>>, before, d, Len(s \o <<m>>) + 1)
<1> DEFINE t == s \o <<m>>  n == Len(s) + 1
<1>1. /\ Len(s) \in Nat /\ Len(t) = n /\ t[n] = m /\ \A i \in 1..Len(s) : t[i] = s[i]
  BY OneMore
<1> HIDE DEF t
<1>2. n - 1 = Len(s) /\ (n + 1) - 1 = n /\ n \in 1..n
  BY <1>1
<1>3. CASE m = Attached(d)
  <2>1. \A j \in n + 1..n : t[j] # Detached(d)
    BY <1>1
  <2>2. Told(t, before, d, n + 1)
    BY <1>1, <1>2, <1>3, <2>1 DEF Told
  <2> QED  BY <1>1, <2>2 DEF t
<1>4. CASE Told(s, before, d, n) /\ m # Detached(d)
  <2>1. \A j \in 1..n : j \in 1..Len(s) \/ j = n
    BY <1>1
  <2>2. CASE before /\ \A j \in 1..Len(s) : s[j] # Detached(d)
    <3>1. \A j \in 1..n : t[j] # Detached(d)
      BY <1>1, <1>4, <2>1, <2>2
    <3>2. Told(t, before, d, n + 1)
      BY <1>2, <2>2, <3>1 DEF Told
    <3> QED  BY <1>1, <3>2 DEF t
  <2>3. ASSUME NEW i \in 1..Len(s), s[i] = Attached(d),
               \A j \in i + 1..Len(s) : s[j] # Detached(d)
        PROVE  Told(t, before, d, n + 1)
    <3>1. i \in 1..n /\ t[i] = Attached(d)
      BY <1>1, <2>3
    <3>2. \A j \in i + 1..n : j \in i + 1..Len(s) \/ j = n
      BY <1>1
    <3>3. \A j \in i + 1..Len(s) : t[j] = s[j]
      BY <1>1
    <3>4. \A j \in i + 1..n : t[j] # Detached(d)
      BY <1>1, <1>4, <2>3, <3>2, <3>3
    <3> QED  BY <1>2, <3>1, <3>4 DEF Told
  <2> QED  BY <1>1, <1>2, <1>4, <2>2, <2>3 DEF Told, t
<1> QED  BY <1>3, <1>4

LEMMA ToldFirst ==
  ASSUME NEW S, NEW s \in Seq(S), s # <<>>, NEW before \in BOOLEAN, NEW after \in BOOLEAN, NEW d,
         NEW i \in 1..Len(s), Told(s, before, d, i + 1),
         Head(s) = Attached(d) => after,
         Head(s) # Detached(d) /\ before => after
  PROVE  Told(Tail(s), after, d, i)
<1> DEFINE t == Tail(s)  m == Head(s)
<1>1. /\ m = s[1] /\ Len(t) \in Nat /\ Len(s) = Len(t) + 1
      /\ \A j \in 1..Len(t) : t[j] = s[j + 1]
  BY OneLess
<1> HIDE DEF t, m
<1>2. (i + 1) - 1 = i /\ i \in Nat
  OBVIOUS
<1>3. ASSUME NEW j \in 1..i - 1 PROVE j + 1 \in 1..i /\ t[j] = s[j + 1]
  BY <1>1
<1>4. CASE before /\ \A j \in 1..i : s[j] # Detached(d)
  <2>1. 1 \in 1..i
    OBVIOUS
  <2>2. m # Detached(d)
    BY <1>1, <1>4, <2>1
  <2>3. \A j \in 1..i - 1 : t[j] # Detached(d)
    BY <1>3, <1>4
  <2> QED  BY <1>4, <2>2, <2>3 DEF Told, t, m
<1>5. ASSUME NEW j \in 1..i, s[j] = Attached(d), \A n \in j + 1..i : s[n] # Detached(d)
      PROVE  Told(t, after, d, i)
  <2>1. CASE j = 1
    <3>1. ASSUME NEW n \in 1..i - 1 PROVE t[n] # Detached(d)
      <4>1. n + 1 \in 2..i
        OBVIOUS
      <4> QED  BY <1>3, <1>5, <2>1, <4>1
    <3>2. after
      BY <1>1, <1>5, <2>1 DEF m
    <3> QED  BY <3>1, <3>2 DEF Told
  <2>2. CASE j # 1
    <3>1. j - 1 \in 1..i - 1 /\ (j - 1) + 1 = j
      BY <2>2
    <3>2. t[j - 1] = Attached(d)
      BY <1>3, <1>5, <3>1
    <3>3. ASSUME NEW n \in (j - 1) + 1..i - 1 PROVE t[n] # Detached(d)
      <4>1. n + 1 \in j + 1..i /\ n \in 1..i - 1
        BY <3>1
      <4> QED  BY <1>3, <1>5, <4>1
    <3> QED  BY <3>1, <3>2, <3>3 DEF Told
  <2> QED  BY <2>1, <2>2
<1> QED  BY <1>2, <1>4, <1>5 DEF Told, t

(* What a record does to the keys the sink holds and to what it knows is   *)
(* what reading it first says.                                             *)
LEMMA WhatIsAbout ==
  ASSUME NEW m \in Sealed, NEW d \in Keyboard, NEW k \in Key
  PROVE  /\ About(m, d, k) <=>
              \/ m.kind \in {"KeyDown", "KeyUp"} /\ m.device = d /\ m.key = k
              \/ m.kind = "Detached" /\ m.device = d
         /\ m = KeyDown(d, k) <=> m.kind = "KeyDown" /\ m.device = d /\ m.key = k
  BY DEF Sealed, Input, About, KeyDown, KeyUp, Detached

LEMMA WhatAnnounces ==
  ASSUME NEW m \in Sealed, NEW d \in Device
  PROVE  /\ m = Attached(d) <=> m.kind = "Attached" /\ m.device = d
         /\ m = Detached(d) <=> m.kind = "Detached" /\ m.device = d
  BY DEF Sealed, Input, Attached, Detached

-----------------------------------------------------------------------------
(* The keys a device is holding, each once.                                *)

LEMMA PutIn ==
  ASSUME NEW S, NEW s \in Seq(S), NEW k \in S, Once(s), ~Among(s, k)
  PROVE  /\ Once(Append(s, k)) /\ Append(s, k) # <<>>
         /\ \A x : Among(Append(s, k), x) <=> Among(s, x) \/ x = k
<1> DEFINE t == Append(s, k)  n == Len(s) + 1
<1>1. /\ Len(t) = n /\ Len(s) \in Nat /\ t[n] = k /\ \A i \in 1..Len(s) : t[i] = s[i]
  OBVIOUS
<1> HIDE DEF t
<1>2. /\ \A i \in 1..n : i \in 1..Len(s) \/ i = n
      /\ \A i \in 1..Len(s) : i \in 1..n
      /\ n \in 1..n
  BY <1>1
<1>3. Once(t)
  BY <1>1, <1>2 DEF Once, Among
<1>4. \A x : Among(t, x) <=> Among(s, x) \/ x = k
  BY <1>1, <1>2 DEF Among
<1>5. t # <<>>
  BY <1>1
<1> QED  BY <1>3, <1>4, <1>5 DEF t

LEMMA TakenOut ==
  ASSUME NEW S, NEW s \in Seq(S), NEW i \in 1..Len(s), Once(s)
  PROVE  /\ Once(RemoveAt(s, i))
         /\ \A x : Among(RemoveAt(s, i), x) <=> Among(s, x) /\ x # s[i]
<1> DEFINE t == RemoveAt(s, i)  n == Len(s) - 1
<1>1. /\ n \in Nat /\ Len(s) = n + 1 /\ Len(t) = n
      /\ \A j \in 1..n : t[j] = IF j < i THEN s[j] ELSE s[j + 1]
  <2> DEFINE a == SubSeq(s, 1, i - 1)  b == SubSeq(s, i + 1, Len(s))
  <2>1. Len(s) \in Nat /\ n \in Nat /\ Len(s) = n + 1 /\ i \in Nat /\ i >= 1 /\ i =< Len(s)
    OBVIOUS
  <2>2. a \in Seq(S) /\ Len(a) = i - 1 /\ \A j \in 1..i - 1 : a[j] = s[j]
    BY <2>1
  <2>3. b \in Seq(S) /\ Len(b) = Len(s) - i /\ \A j \in 1..Len(s) - i : b[j] = s[j + i]
    <3>1. b \in Seq(S)
      BY <2>1
    <3>2. Len(b) = Len(s) - i
      <4>1. CASE i = Len(s)
        BY <2>1, <4>1
      <4>2. CASE i + 1 =< Len(s)
        <5>1. Len(b) = Len(s) - (i + 1) + 1
          BY <2>1, <4>2
        <5>2. Len(s) - (i + 1) + 1 = Len(s) - i
          BY <2>1
        <5> QED  BY <5>1, <5>2
      <4> HIDE DEF a, b, t, n
      <4>3. i = Len(s) \/ i + 1 =< Len(s)
        BY <2>1
      <4> QED  BY <4>1, <4>2, <4>3
    <3>3. ASSUME NEW j \in 1..Len(s) - i PROVE b[j] = s[j + i]
      <4>1. b[j] = s[(i + 1) + j - 1]
        BY <2>1
      <4>2. (i + 1) + j - 1 = j + i
        BY <2>1
      <4> QED  BY <4>1, <4>2
    <3> QED  BY <3>1, <3>2, <3>3
  <2>4. t = a \o b
    BY DEF RemoveAt
  <2> HIDE DEF a, b, t, n
  <2>5. Len(t) = n
    <3>1. Len(t) = Len(a) + Len(b)
      <4>1. a \in Seq(S) /\ b \in Seq(S)
        BY <2>2, <2>3
      <4> QED  BY <2>4, <4>1
    <3> QED  BY <2>1, <2>2, <2>3, <3>1
  <2>6. ASSUME NEW j \in 1..n, j < i PROVE t[j] = s[j]
    <3>1. j \in 1..i - 1
      BY <2>1, <2>6
    <3> QED  BY <2>2, <2>3, <2>4, <3>1
  <2>7. ASSUME NEW j \in 1..n, ~(j < i) PROVE t[j] = s[j + 1]
    <3>1. j - (i - 1) \in 1..Len(s) - i /\ j - (i - 1) + i = j + 1
      BY <2>1, <2>7
    <3>2. t[j] = b[j - (i - 1)]
      BY <2>1, <2>2, <2>3, <2>4, <2>5, <2>7
    <3> QED  BY <2>3, <3>1, <3>2
  <2> QED  BY <2>1, <2>5, <2>6, <2>7
<1> HIDE DEF t, n
<1>2. \A j \in 1..n : j \in 1..Len(s) /\ j + 1 \in 1..Len(s)
  BY <1>1
<1>3. ASSUME NEW j \in 1..n, NEW l \in 1..n, t[j] = t[l] PROVE j = l
  <2>1. CASE j < i /\ l < i
    BY <1>1, <1>2, <1>3, <2>1 DEF Once
  <2>2. CASE ~(j < i) /\ ~(l < i)
    <3>1. j + 1 = l + 1
      BY <1>1, <1>2, <1>3, <2>2 DEF Once
    <3> QED  BY <3>1
  <2>3. CASE j < i /\ ~(l < i)
    <3>1. j = l + 1
      BY <1>1, <1>2, <1>3, <2>3 DEF Once
    <3> QED  BY <2>3, <3>1
  <2>4. CASE ~(j < i) /\ l < i
    <3>1. l = j + 1
      BY <1>1, <1>2, <1>3, <2>4 DEF Once
    <3> QED  BY <2>4, <3>1
  <2> QED  BY <2>1, <2>2, <2>3, <2>4
<1>4. ASSUME NEW x, Among(t, x) PROVE Among(s, x) /\ x # s[i]
  <2>1. PICK j \in 1..n : t[j] = x
    BY <1>1, <1>4 DEF Among
  <2>2. CASE j < i
    BY <1>1, <1>2, <2>1, <2>2 DEF Among, Once
  <2>3. CASE ~(j < i)
    BY <1>1, <1>2, <2>1, <2>3 DEF Among, Once
  <2> QED  BY <2>2, <2>3
<1>5. ASSUME NEW x, Among(s, x), x # s[i] PROVE Among(t, x)
  <2>1. PICK j \in 1..Len(s) : s[j] = x
    BY <1>5 DEF Among
  <2>2. CASE j < i
    <3>1. j \in 1..n
      BY <1>1, <2>2
    <3> QED  BY <1>1, <2>1, <2>2, <3>1 DEF Among
  <2>3. CASE j > i
    <3>1. j - 1 \in 1..n /\ ~(j - 1 < i) /\ (j - 1) + 1 = j
      BY <1>1, <2>3
    <3> QED  BY <1>1, <2>1, <3>1 DEF Among
  <2>4. j # i
    BY <1>5, <2>1
  <2> QED  BY <2>2, <2>3, <2>4
<1>6. Once(t)
  BY <1>1, <1>3 DEF Once
<1> QED  BY <1>4, <1>5, <1>6 DEF t

LEMMA LastTakenOff ==
  ASSUME NEW S, NEW s \in Seq(S), s # <<>>, Once(s)
  PROVE  /\ Once(Front(s)) /\ Last(s) \in S
         /\ \A x : Among(Front(s), x) <=> Among(s, x) /\ x # Last(s)
<1> DEFINE t == Front(s)  n == Len(s) - 1
<1>1. /\ n \in Nat /\ Len(s) = n + 1 /\ Len(t) = n /\ Last(s) = s[n + 1] /\ Last(s) \in S
      /\ \A j \in 1..n : t[j] = s[j]
  <2>1. n \in Nat /\ Len(s) = n + 1 /\ n + 1 \in 1..Len(s)
    OBVIOUS
  <2>2. Last(s) = s[n + 1] /\ Last(s) \in S
    BY <2>1 DEF Last
  <2>3. t = SubSeq(s, 1, n)
    BY DEF Front
  <2>4. Len(t) = n /\ \A j \in 1..n : t[j] = s[j]
    BY <2>1, <2>3
  <2> QED  BY <2>1, <2>2, <2>4
<1> HIDE DEF t, n
<1>2. /\ \A j \in 1..n : j \in 1..n + 1 /\ j # n + 1
      /\ \A j \in 1..n + 1 : j \in 1..n \/ j = n + 1
      /\ n + 1 \in 1..n + 1
  BY <1>1
<1>3. Once(t)
  BY <1>1, <1>2 DEF Once
<1>4. \A x : Among(t, x) <=> Among(s, x) /\ x # Last(s)
  BY <1>1, <1>2 DEF Among, Once
<1> QED  BY <1>1, <1>3, <1>4 DEF t

-----------------------------------------------------------------------------
(* One record more, or one less, of a stream that speaks of what is known. *)

LEMMA KnownOneMore ==
  ASSUME NEW s \in Seq(Sealed), NEW m \in Sealed, NEW known,
         NEW A \in SUBSET Device, NEW B \in SUBSET Device,
         KnownBy(s, known, A),
         m.kind = "KeyDown" => m.device \in A,
         \A d \in B : m = Attached(d) \/ (d \in A /\ m # Detached(d))
  PROVE  KnownBy(s \o <<m>>, known, B)
<1> DEFINE t == s \o <<m>>
<1>1. /\ t \in Seq(Sealed) /\ Len(t) = Len(s) + 1 /\ t[Len(t)] = m /\ Len(s) \in Nat
      /\ \A i \in 1..Len(s) : t[i] = s[i]
  BY OneMore
<1>2. <<m>> \in Seq(Sealed)
  BY JustOne
<1>3. ASSUME NEW d \in B PROVE Told(t, d \in known, d, Len(t) + 1)
  <2>1. (d \in known) \in BOOLEAN
    OBVIOUS
  <2>2. m = Attached(d) \/ (Told(s, d \in known, d, Len(s) + 1) /\ m # Detached(d))
    BY DEF KnownBy
  <2> QED  BY <2>1, <2>2, ToldLast
<1>4. ASSUME NEW i \in 1..Len(t), t[i].kind = "KeyDown"
      PROVE  Told(t, t[i].device \in known, t[i].device, i)
  <2>1. i \in 1..Len(s) + 1 /\ (t[i].device \in known) \in BOOLEAN
    BY <1>1
  <2>2. Told(s, t[i].device \in known, t[i].device, i)
    <3>1. CASE i \in 1..Len(s)
      BY <1>1, <1>4, <3>1 DEF KnownBy, OfOneKnown
    <3>2. CASE i = Len(s) + 1
      BY <1>1, <1>4, <3>2 DEF KnownBy
    <3> QED  BY <1>1, <2>1, <3>1, <3>2
  <2> QED  BY <1>2, <2>1, <2>2, ToldSoFar
<1> QED  BY <1>3, <1>4 DEF KnownBy, OfOneKnown

LEMMA KnownOneLess ==
  ASSUME NEW s \in Seq(Sealed), s # <<>>, NEW known, NEW after,
         NEW A \in SUBSET Device, KnownBy(s, known, A),
         \A d \in Device : /\ Head(s) = Attached(d) => d \in after
                           /\ Head(s) # Detached(d) /\ d \in known => d \in after
  PROVE  KnownBy(Tail(s), after, A)
<1> DEFINE t == Tail(s)
<1>1. /\ t \in Seq(Sealed) /\ Len(t) \in Nat /\ Len(s) = Len(t) + 1
      /\ \A i \in 1..Len(t) : t[i] = s[i + 1]
  BY OneLess
<1> HIDE DEF t
<1>2. ASSUME NEW d \in Device, NEW i \in 1..Len(s), Told(s, d \in known, d, i + 1)
      PROVE  Told(t, d \in after, d, i)
  <2>1. (d \in known) \in BOOLEAN /\ (d \in after) \in BOOLEAN
    OBVIOUS
  <2>2. Head(s) = Attached(d) => d \in after
    OBVIOUS
  <2>3. Head(s) # Detached(d) /\ d \in known => d \in after
    OBVIOUS
  <2> QED  BY <1>2, <2>1, <2>2, <2>3, ToldFirst DEF t
<1>3. ASSUME NEW d \in A PROVE Told(t, d \in after, d, Len(t) + 1)
  <2>1. Len(s) \in 1..Len(s)
    BY <1>1
  <2>2. Told(s, d \in known, d, Len(s) + 1)
    BY DEF KnownBy
  <2>3. Told(t, d \in after, d, Len(s))
    BY <1>2, <2>1, <2>2
  <2> QED  BY <1>1, <2>3
<1>4. ASSUME NEW i \in 1..Len(t), t[i].kind = "KeyDown"
      PROVE  Told(t, t[i].device \in after, t[i].device, i)
  <2>1. t[i] = s[i + 1] /\ i + 1 \in 1..Len(s) /\ i \in 1..Len(s)
    BY <1>1
  <2>2. t[i] \in Sealed
    BY <1>1
  <2>3. t[i].device \in Device
    BY <1>4, <2>2, InputKey
  <2>4. Told(s, t[i].device \in known, t[i].device, i + 1)
    BY <1>4, <2>1 DEF KnownBy, OfOneKnown
  <2> QED  BY <1>2, <2>1, <2>3, <2>4
<1>5. KnownBy(t, after, A)
  BY <1>3, <1>4 DEF KnownBy, OfOneKnown
<1> QED  BY <1>5 DEF t

LEMMA KnownSoFar ==
  ASSUME NEW s \in Seq(Sealed), NEW u \in Seq(Sealed), NEW known,
         OfOneKnown(s \o u, known)
  PROVE  OfOneKnown(s, known)
<1> DEFINE t == s \o u
<1>1. /\ Len(s) \in Nat /\ \A i \in 1..Len(s) : t[i] = s[i] /\ i \in 1..Len(t)
  OBVIOUS
<1> SUFFICES ASSUME NEW i \in 1..Len(s), s[i].kind = "KeyDown"
             PROVE  Told(s, s[i].device \in known, s[i].device, i)
  BY DEF OfOneKnown
<1>2. Told(t, s[i].device \in known, s[i].device, i)
  BY <1>1 DEF OfOneKnown
<1>3. i \in 1..Len(s) + 1 /\ (s[i].device \in known) \in BOOLEAN
  BY <1>1
<1> QED  BY <1>2, <1>3, ToldSoFar

(* What a message of an event comes to, the announcement in front of it.   *)
LEMMA ComesAnnounced ==
  ASSUME NEW s \in Seq(Sealed), NEW m \in Input, NEW e \in Device,
         NEW before \in BOOLEAN, NEW d \in Keyboard, NEW k \in Key
  PROVE  Comes(s \o Announced(e, m), before, d, k)
           <=> IF About(m, d, k) THEN m = KeyDown(d, k) ELSE Comes(s, before, d, k)
<1>1. m \in Sealed /\ Attached(e) \in Sealed
  BY DeviceInputs, InputIsSealed
<1>2. CASE Announces(e)
  <2> DEFINE u == s \o <<Attached(e)>>
  <2>1. u \in Seq(Sealed)
    BY <1>1, OneMore
  <2>2. s \o Announced(e, m) = u \o <<m>>
    BY <1>1, <1>2 DEF Announced
  <2>3. ~About(Attached(e), d, k)
    BY DEF Attached, About, KeyDown, KeyUp, Detached
  <2>4. Comes(u, before, d, k) <=> Comes(s, before, d, k)
    BY <1>1, <2>3, ComesLast
  <2> HIDE DEF u
  <2> QED  BY <1>1, <2>1, <2>2, <2>4, ComesLast
<1>3. CASE ~Announces(e)
  BY <1>1, <1>3, ComesLast DEF Announced
<1> QED  BY <1>2, <1>3

LEMMA KnownAnnounced ==
  ASSUME NEW s \in Seq(Sealed), NEW m \in Input, NEW e \in Device, NEW known,
         announced \in SUBSET Device, KnownBy(s, known, announced),
         m.kind # "Detached", m.kind = "KeyDown" => m.device = e, e \in attached
  PROVE  KnownBy(s \o Announced(e, m), known,
                 IF Announces(e) THEN announced \cup {e} ELSE announced)
<1>1. m \in Sealed /\ Attached(e) \in Sealed
  BY DeviceInputs, InputIsSealed
<1>2. \A d \in Device : m # Detached(d)
  BY DEF Detached
<1>3. CASE Announces(e)
  <2> DEFINE u == s \o <<Attached(e)>>  A == announced \cup {e}
  <2>1. u \in Seq(Sealed)
    BY <1>1, OneMore
  <2>2. s \o Announced(e, m) = u \o <<m>>
    BY <1>1, <1>3 DEF Announced
  <2>3. /\ Attached(e).kind # "KeyDown"
        /\ \A d \in A : Attached(e) = Attached(d) \/ (d \in announced /\ Attached(e) # Detached(d))
    BY DEF Attached, Detached
  <2>4. A \in SUBSET Device
    OBVIOUS
  <2>5. KnownBy(u, known, A)
    BY <1>1, <2>3, <2>4, KnownOneMore
  <2>6. (m.kind = "KeyDown" => m.device \in A) /\ \A d \in A : d \in A /\ m # Detached(d)
    BY <1>2
  <2> HIDE DEF u, A
  <2>7. KnownBy(u \o <<m>>, known, A)
    BY <1>1, <2>1, <2>4, <2>5, <2>6, KnownOneMore
  <2> QED  BY <1>3, <2>2, <2>7 DEF A
<1>4. CASE ~Announces(e)
  <2>1. e \in announced
    BY <1>4 DEF Announces
  <2>2. KnownBy(s \o <<m>>, known, announced)
    BY <1>1, <1>2, <2>1, KnownOneMore
  <2> QED  BY <1>4, <2>2 DEF Announced
<1> QED  BY <1>3, <1>4

-----------------------------------------------------------------------------
(* What this end holds is announced, each step by itself.                  *)

LEMMA NoKeyHeld == Once(<<>>)
  BY DEF Once

LEMMA RelaysTidily ==
  ASSUME TypeOK, Tidy, NEW d \in Device, NEW m \in Input, Relays(d, m), Reads,
         d \in attached, driving = "There"
  PROVE  /\ announced \subseteq announced' /\ announced' \subseteq attached /\ d \in announced'
         /\ out' # <<>> /\ session
  BY DEF Relays, Says, Announced, Announces, Tidy, TypeOK, Reads

LEMMA AttachTidily ==
  ASSUME TypeOK, Tidy, NEW d \in Device, Attach(d)
  PROVE  Tidy'
<1>1. held[d] = <<>> /\ d \notin announced
  BY DEF Attach, Tidy
<1>2. held' = held
  BY <1>1 DEF Attach, TypeOK
<1>3. UNCHANGED <<driving, session, cut, wire, serving>>
  BY DEF Attach, Says, SaysNothing, network, sink
<1>4. announced \subseteq announced' /\ announced' \subseteq attached'
  BY DEF Attach, Tidy
<1>5. out' # <<>> => driving = "There" /\ session
  BY DEF Attach, Reads, SaysNothing
<1> QED  BY <1>2, <1>3, <1>4, <1>5 DEF Tidy

LEMMA DetachTidily ==
  ASSUME TypeOK, Tidy, NEW d \in Device, Detach(d)
  PROVE  Tidy'
<1>1. \A q \in Device : held'[q] = IF q = d THEN <<>> ELSE held[q]
  BY DEF Detach, TypeOK
<1>2. UNCHANGED <<driving, session, cut, wire, serving>>
  BY DEF Detach, Says, SaysNothing, network, sink
<1>3. announced' = announced \ {d} /\ attached' = attached \ {d}
  BY DEF Detach
<1>4. out' # <<>> => driving = "There" /\ session
  BY DEF Detach, Reads, SaysNothing
<1> QED  BY <1>1, <1>2, <1>3, <1>4, NoKeyHeld DEF Tidy

LEMMA KeyGoesDownTidily ==
  ASSUME TypeOK, Tidy, NEW d \in Keyboard, NEW k \in Key, KeyGoesDown(d, k)
  PROVE  Tidy'
<1> d \in Device
  BY DEF Device
<1>1. CASE driving = "There" /\ ~Holds(d, k)
  <2>1. held[d] \in Seq(Key) /\ held' = [held EXCEPT ![d] = Append(held[d], k)]
    BY <1>1 DEF KeyGoesDown, TypeOK
  <2>2. Once(held[d]) /\ ~Among(held[d], k)
    BY <1>1 DEF Tidy, Holds, Among
  <2>3. Once(Append(held[d], k))
    BY <2>1, <2>2, PutIn
  <2>4. \A q \in Device : held'[q] = IF q = d THEN Append(held[d], k) ELSE held[q]
    BY <2>1 DEF TypeOK
  <2>5. Relays(d, KeyDown(d, k)) /\ Reads /\ d \in attached
    BY <1>1 DEF KeyGoesDown
  <2>6. /\ announced \subseteq announced' /\ announced' \subseteq attached
        /\ d \in announced' /\ session
    BY <1>1, <2>5, RelaysTidily, KeyInputs
  <2>7. UNCHANGED <<attached, driving, session, cut, wire, serving>>
    BY <2>5 DEF KeyGoesDown, Relays, Says, network, sink
  <2> QED  BY <1>1, <2>3, <2>4, <2>6, <2>7 DEF Tidy
<1>2. CASE ~(driving = "There" /\ ~Holds(d, k))
  BY <1>2 DEF KeyGoesDown, SaysNothing, sink, Tidy
<1> QED  BY <1>1, <1>2

LEMMA KeyComesUpTidily ==
  ASSUME TypeOK, Tidy, NEW d \in Keyboard, NEW k \in Key, KeyComesUp(d, k)
  PROVE  Tidy'
<1> d \in Device
  BY DEF Device
<1>1. CASE driving = "There" /\ Holds(d, k)
  <2>1. PICK i \in 1..Len(held[d]) : held' = [held EXCEPT ![d] = RemoveAt(held[d], i)]
    BY <1>1 DEF KeyComesUp
  <2>2. held[d] \in Seq(Key) /\ Once(held[d]) /\ held[d] # <<>>
    BY <1>1 DEF Tidy, TypeOK, Holds
  <2>3. Once(RemoveAt(held[d], i))
    BY <2>2, TakenOut
  <2>4. \A q \in Device : held'[q] = IF q = d THEN RemoveAt(held[d], i) ELSE held[q]
    BY <2>1 DEF TypeOK
  <2>5. Relays(d, KeyUp(d, k)) /\ Reads /\ d \in attached
    BY <1>1, <2>2 DEF KeyComesUp, Tidy
  <2>6. /\ announced \subseteq announced' /\ announced' \subseteq attached
        /\ d \in announced' /\ session
    BY <1>1, <2>5, RelaysTidily, KeyInputs
  <2>7. UNCHANGED <<attached, driving, session, cut, wire, serving>>
    BY <2>5 DEF KeyComesUp, Relays, Says, network, sink
  <2> QED  BY <1>1, <2>3, <2>4, <2>6, <2>7 DEF Tidy
<1>2. CASE ~(driving = "There" /\ Holds(d, k))
  BY <1>2 DEF KeyComesUp, SaysNothing, sink, Tidy
<1> QED  BY <1>1, <1>2

LEMMA PointsTidily ==
  ASSUME TypeOK, Tidy, NEW d \in Mouse, NEW down \in BOOLEAN, NEW still \in BOOLEAN,
         Points(d, down, still)
  PROVE  Tidy'
<1> d \in Device
  BY DEF Device
<1>1. CASE SaysNothing /\ UNCHANGED announced
  BY <1>1 DEF Points, SaysNothing, sink, Tidy
<1>2. CASE driving = "There" /\ Relays(d, Pointer(d, down))
  <2>1. Reads /\ d \in attached
    BY DEF Points
  <2>2. /\ announced \subseteq announced' /\ announced' \subseteq attached /\ session
    BY <1>2, <2>1, RelaysTidily, PointerInputs
  <2>3. UNCHANGED <<attached, held, driving, session, cut, wire, serving>>
    BY <1>2 DEF Points, Relays, Says, network, sink
  <2> QED  BY <1>2, <2>2, <2>3 DEF Tidy
<1> QED  BY <1>1, <1>2 DEF Points

LEMMA SendTidily ==
  ASSUME TypeOK, Tidy, NEW went \in BOOLEAN, Send(went)
  PROVE  Tidy'
<1>1. UNCHANGED <<attached, announced, held, driving, cut, serving>>
  BY DEF Send, HandOver, forwarding, sink
<1>2. cut => wire' = wire
  BY DEF Send, HandOver
<1>3. driving = "There" /\ (out' # <<>> => session')
  BY DEF Send, Tidy
<1> QED  BY <1>1, <1>2, <1>3 DEF Tidy

LEMMA WaitHereTidily ==
  ASSUME TypeOK, Tidy, NEW went \in BOOLEAN, WaitHere(went)
  PROVE  Tidy'
<1>1. UNCHANGED <<attached, announced, held, driving, cut, serving, out>> /\ out = <<>>
  BY DEF WaitHere, HandOver, forwarding, sink, Reads
<1>2. cut => wire' = wire
  BY DEF WaitHere, HandOver
<1> QED  BY <1>1, <1>2 DEF Tidy

LEMMA LetGoOfAKeyTidily ==
  ASSUME TypeOK, Tidy, NEW d \in Keyboard, NEW went \in BOOLEAN, LetGoOfAKey(d, went)
  PROVE  Tidy'
<1>1. d \in Device /\ held[d] \in Seq(Key) /\ held[d] # <<>> /\ Once(held[d])
  BY DEF Device, LetGoOfAKey, TypeOK, Tidy
<1>2. Once(Front(held[d]))
  BY <1>1, LastTakenOff
<1>3. \A q \in Device : held'[q] = IF q = d THEN Front(held[d]) ELSE held[q]
  BY <1>1 DEF LetGoOfAKey, TypeOK
<1>4. UNCHANGED <<attached, announced, driving, cut, serving, out, session>>
  BY DEF LetGoOfAKey, HandOver, sink
<1>5. driving = "LettingGo" /\ (cut => wire' = wire)
  BY DEF LetGoOfAKey, HandOver
<1> QED  BY <1>1, <1>2, <1>3, <1>4, <1>5 DEF Tidy

LEMMA LetGoOfAButtonTidily ==
  ASSUME TypeOK, Tidy, NEW d \in Mouse, NEW went \in BOOLEAN, LetGoOfAButton(d, went)
  PROVE  Tidy'
<1>1. UNCHANGED <<attached, announced, held, driving, cut, serving, out, session>>
  BY DEF LetGoOfAButton, HandOver, sink
<1>2. cut => wire' = wire
  BY DEF LetGoOfAButton, HandOver
<1> QED  BY <1>1, <1>2 DEF Tidy

LEMMA LinkComesTidily ==
  ASSUME TypeOK, Tidy, NEW paired \in BOOLEAN, LinkComes(paired)
  PROVE  Tidy'
<1>1. \A d \in Device : held'[d] = <<>>
  BY DEF LinkComes, NewlyHeld, NothingHeld
<1>2. announced' = {} /\ out' = <<>> /\ wire' = <<>> /\ (~serving' => cut')
  BY DEF LinkComes, NewlyAnnounced, Tidy
<1> QED  BY <1>1, <1>2, NoKeyHeld DEF Tidy

LEMMA CutOffTidily ==
  ASSUME TypeOK, Tidy, NEW n \in 0..Len(wire), CutOff(n)
  PROVE  Tidy'
  BY DEF CutOff, forwarding, sink, Tidy

LEMMA ServeTidily ==
  ASSUME TypeOK, Tidy, Serve
  PROVE  Tidy'
<1>1. CASE Take
  BY <1>1 DEF Take, forwarding, Tidy
<1>2. CASE SessionEnds
  BY <1>2 DEF SessionEnds, forwarding, Tidy
<1>3. ASSUME NEW d \in Device, DeviceLost(d) PROVE Tidy'
  BY <1>3 DEF DeviceLost, forwarding, network, Tidy
<1> QED  BY <1>1, <1>2, <1>3 DEF Serve

LEMMA TidyStep ==
  ASSUME TypeOK, Tidy, [Next]_vars
  PROVE  Tidy'
<1>1. CASE UNCHANGED vars
  BY <1>1 DEF vars, forwarding, network, sink, Tidy
<1>2. CASE AskForTheSink \/ AskForThisMachine
  BY <1>2 DEF AskForTheSink, AskForThisMachine, Reads, SaysNothing, forwarding, sink, Tidy
<1>3. CASE ComeBack
  BY <1>3 DEF ComeBack, HasLetGo, forwarding, network, sink, Tidy
<1>4. CASE WaitThere
  BY <1>4 DEF WaitThere, SaysNothing, forwarding, sink, Tidy
<1>5. CASE Person
  BY <1>2, <1>5, AttachTidily, DetachTidily, KeyGoesDownTidily, KeyComesUpTidily,
     PointsTidily DEF Person
<1>6. CASE Run
  BY <1>3, <1>4, <1>6, SendTidily, WaitHereTidily, LetGoOfAKeyTidily, LetGoOfAButtonTidily
     DEF Run
<1>7. CASE Network
  BY <1>7, LinkComesTidily, CutOffTidily DEF Network
<1> QED  BY <1>1, <1>5, <1>6, <1>7, ServeTidily DEF Next

-----------------------------------------------------------------------------
(* What is said leaves the two ends agreed, each step by itself.           *)

LEMMA SaidIsSealed ==
  ASSUME TypeOK
  PROVE  wire \in Seq(Sealed) /\ out \in Seq(Sealed) /\ Said \in Seq(Sealed)
<1>1. out \in Seq(Sealed)
  BY InputIsSealed DEF TypeOK
<1> QED  BY <1>1 DEF TypeOK, Said

LEMMA NothingToSay ==
  ASSUME TypeOK, out = <<>>
  PROVE  Said = wire
  BY DEF TypeOK, Said

LEMMA NothingSaid ==
  ASSUME Agreed, Known, UNCHANGED <<session, cut, gap, wire, out, mirrored, sinkHeld>>,
         announced' \subseteq announced,
         \A d \in Keyboard, k \in Key : Holds(d, k)' <=> Holds(d, k)
  PROVE  Agreed' /\ Known'
<1>1. Said' = Said /\ (Live' <=> Live)
  BY DEF Said, Live
<1>2. Agreed'
  BY <1>1 DEF Agreed
<1>3. Known'
  BY <1>1 DEF Known, KnownBy
<1> QED  BY <1>2, <1>3

LEMMA RelaysAgreed ==
  ASSUME TypeOK, Tidy, Agreed, Known, NEW e \in Device, NEW m \in Input, Relays(e, m), Reads,
         e \in attached, m.kind # "Detached", m.kind = "KeyDown" => m.device = e,
         UNCHANGED sink
  PROVE  /\ Known'
         /\ Live' => Live
         /\ Live => \A d \in Keyboard, k \in Key :
              Comes(Said', k \in sinkHeld'[d], d, k)
                <=> IF About(m, d, k) THEN m = KeyDown(d, k) ELSE Holds(d, k)
<1>1. Said = wire /\ wire \in Seq(Sealed)
  BY NothingToSay, SaidIsSealed DEF Reads
<1>2. /\ Said' = wire \o Announced(e, m) /\ (Live' <=> Live)
      /\ announced' = IF Announces(e) THEN announced \cup {e} ELSE announced
      /\ wire' = wire /\ mirrored' = mirrored /\ sinkHeld' = sinkHeld
  BY DEF Relays, Says, network, sink, Said, Live
<1>3. ASSUME Live PROVE KnownBy(Said', mirrored', announced')
  <2>1. KnownBy(wire, mirrored, announced) /\ announced \in SUBSET Device
    BY <1>1, <1>3 DEF Known, TypeOK
  <2>2. KnownBy(wire \o Announced(e, m), mirrored,
                IF Announces(e) THEN announced \cup {e} ELSE announced)
    BY <1>1, <2>1, KnownAnnounced
  <2> QED  BY <1>2, <2>2
<1>4. ASSUME Live, NEW d \in Keyboard, NEW k \in Key
      PROVE  Comes(Said', k \in sinkHeld'[d], d, k)
               <=> IF About(m, d, k) THEN m = KeyDown(d, k) ELSE Holds(d, k)
  <2>1. (k \in sinkHeld[d]) \in BOOLEAN
    OBVIOUS
  <2>2. Comes(wire \o Announced(e, m), k \in sinkHeld[d], d, k)
          <=> IF About(m, d, k) THEN m = KeyDown(d, k) ELSE Comes(wire, k \in sinkHeld[d], d, k)
    BY <1>1, <2>1, ComesAnnounced
  <2>3. Holds(d, k) <=> Comes(wire, k \in sinkHeld[d], d, k)
    BY <1>1, <1>4 DEF Agreed
  <2> QED  BY <1>2, <2>2, <2>3
<1>5. Known'
  BY <1>2, <1>3 DEF Known
<1> QED  BY <1>2, <1>4, <1>5

(* A message by itself, no announcement before it.                         *)
LEMMA SaysAgreed ==
  ASSUME TypeOK, Agreed, Known, NEW m \in Sealed, NEW t, Live,
         t = Said \o <<m>>, m.kind # "KeyDown"
  PROVE  /\ \A B \in SUBSET Device :
              (\A d \in B : m = Attached(d) \/ (d \in announced /\ m # Detached(d)))
                => KnownBy(t, mirrored, B)
         /\ \A d \in Keyboard, k \in Key :
              Comes(t, k \in sinkHeld[d], d, k) <=> ~About(m, d, k) /\ Holds(d, k)
<1>1. Said \in Seq(Sealed) /\ announced \in SUBSET Device
  BY SaidIsSealed DEF TypeOK
<1>2. KnownBy(Said, mirrored, announced)
  BY DEF Known
<1>3. ASSUME NEW B \in SUBSET Device,
             \A d \in B : m = Attached(d) \/ (d \in announced /\ m # Detached(d))
      PROVE  KnownBy(t, mirrored, B)
  BY <1>1, <1>2, <1>3, KnownOneMore
<1>4. ASSUME NEW d \in Keyboard, NEW k \in Key
      PROVE  Comes(t, k \in sinkHeld[d], d, k) <=> ~About(m, d, k) /\ Holds(d, k)
  <2>1. (k \in sinkHeld[d]) \in BOOLEAN
    OBVIOUS
  <2>2. Comes(Said \o <<m>>, k \in sinkHeld[d], d, k)
          <=> IF About(m, d, k) THEN m = KeyDown(d, k) ELSE Comes(Said, k \in sinkHeld[d], d, k)
    BY <1>1, <2>1, ComesLast
  <2>3. m # KeyDown(d, k)
    BY DEF KeyDown
  <2>4. Holds(d, k) <=> Comes(Said, k \in sinkHeld[d], d, k)
    BY DEF Agreed
  <2> QED  BY <2>2, <2>3, <2>4
<1> QED  BY <1>3, <1>4

LEMMA AttachAgreed ==
  ASSUME TypeOK, Tidy, Agreed, Known, NEW d \in Device, Attach(d)
  PROVE  Agreed' /\ Known'
<1>1. held' = held
  BY DEF Attach, TypeOK, Tidy
<1>2. \A q \in Keyboard, k \in Key : Holds(q, k)' <=> Holds(q, k)
  BY <1>1 DEF Holds
<1>3. CASE driving = "There"
  <2>1. /\ out' = <<Attached(d)>> /\ announced' = announced \cup {d}
        /\ wire' = wire /\ mirrored' = mirrored /\ sinkHeld' = sinkHeld /\ (Live' <=> Live)
        /\ out = <<>>
    BY <1>3 DEF Attach, Says, network, sink, Live, Reads
  <2>2. Said' = Said \o <<Attached(d)>>
    BY <2>1, NothingToSay DEF Said
  <2>3. Attached(d) \in Sealed /\ Attached(d).kind # "KeyDown" /\ announced' \in SUBSET Device
    BY <2>1, DeviceInputs, InputIsSealed DEF Attached, TypeOK
  <2>4. \A q \in Device : Attached(d) # Detached(q) /\ \A k \in Key : ~About(Attached(d), q, k)
    BY DEF About, Attached, Detached, KeyDown, KeyUp
  <2>5. ASSUME Live
        PROVE  /\ KnownBy(Said', mirrored', announced')
               /\ \A q \in Keyboard, k \in Key : Holds(q, k)' <=> Comes(Said', k \in sinkHeld'[q], q, k)
    <3>1. \A q \in announced' : Attached(d) = Attached(q) \/ (q \in announced /\ Attached(d) # Detached(q))
      BY <2>1, <2>3, <2>4
    <3>2. KnownBy(Said', mirrored, announced')
      BY <2>2, <2>3, <2>5, <3>1, SaysAgreed
    <3>3. \A q \in Keyboard, k \in Key :
            Comes(Said', k \in sinkHeld[q], q, k) <=> ~About(Attached(d), q, k) /\ Holds(q, k)
      BY <2>2, <2>3, <2>5, SaysAgreed
    <3>4. \A q \in Keyboard, k \in Key : ~About(Attached(d), q, k)
      BY <2>4 DEF Device
    <3> QED  BY <1>2, <2>1, <3>2, <3>3, <3>4
  <2> QED  BY <2>1, <2>5 DEF Agreed, Known
<1>4. CASE driving # "There"
  BY <1>2, <1>4, NothingSaid DEF Attach, SaysNothing, sink
<1> QED  BY <1>3, <1>4

LEMMA DetachAgreed ==
  ASSUME TypeOK, Tidy, Agreed, Known, NEW d \in Device, Detach(d)
  PROVE  Agreed' /\ Known'
<1>1. \A q \in Device : held'[q] = IF q = d THEN <<>> ELSE held[q]
  BY DEF Detach, TypeOK
<1>2. announced' = announced \ {d}
  BY DEF Detach
<1>3. CASE driving = "There" /\ d \in announced
  <2>1. /\ out' = <<Detached(d)>>
        /\ wire' = wire /\ mirrored' = mirrored /\ sinkHeld' = sinkHeld /\ (Live' <=> Live)
        /\ out = <<>>
    BY <1>3 DEF Detach, Says, network, sink, Live, Reads
  <2>2. Said' = Said \o <<Detached(d)>>
    BY <2>1, NothingToSay DEF Said
  <2>3. Detached(d) \in Sealed /\ Detached(d).kind # "KeyDown" /\ announced' \in SUBSET Device
    BY <1>2, DeviceInputs, InputIsSealed DEF Detached, TypeOK
  <2>4. \A q \in Device : (Detached(d) = Detached(q) <=> q = d)
          /\ \A k \in Key : About(Detached(d), q, k) <=> q = d
    BY DEF About, Detached, KeyDown, KeyUp
  <2>5. ASSUME Live
        PROVE  /\ KnownBy(Said', mirrored', announced')
               /\ \A q \in Keyboard, k \in Key : Holds(q, k)' <=> Comes(Said', k \in sinkHeld'[q], q, k)
    <3>1. \A q \in announced' : Detached(d) = Attached(q) \/ (q \in announced /\ Detached(d) # Detached(q))
      BY <1>2, <2>3, <2>4
    <3>2. KnownBy(Said', mirrored, announced')
      BY <2>2, <2>3, <2>5, <3>1, SaysAgreed
    <3>3. \A q \in Keyboard, k \in Key :
            Comes(Said', k \in sinkHeld[q], q, k) <=> ~About(Detached(d), q, k) /\ Holds(q, k)
      BY <2>2, <2>3, <2>5, SaysAgreed
    <3>4. \A q \in Keyboard, k \in Key : Holds(q, k)' <=> q # d /\ Holds(q, k)
      BY <1>1 DEF Holds, Device
    <3>5. \A q \in Keyboard, k \in Key : About(Detached(d), q, k) <=> q = d
      BY <2>4 DEF Device
    <3> QED  BY <2>1, <3>2, <3>3, <3>4, <3>5
  <2> QED  BY <2>1, <2>5 DEF Agreed, Known
<1>4. CASE ~(driving = "There" /\ d \in announced)
  <2>1. held[d] = <<>>
    BY <1>4 DEF Detach, Reads, Tidy
  <2>2. held' = held
    BY <2>1 DEF Detach, TypeOK
  <2> QED  BY <1>2, <1>4, <2>2, NothingSaid DEF Detach, SaysNothing, sink, Holds
<1> QED  BY <1>3, <1>4

LEMMA KeyGoesDownAgreed ==
  ASSUME TypeOK, Tidy, Agreed, Known, NEW d \in Keyboard, NEW k \in Key, KeyGoesDown(d, k)
  PROVE  Agreed' /\ Known'
<1> d \in Device
  BY DEF Device
<1>1. CASE driving = "There" /\ ~Holds(d, k)
  <2>1. held[d] \in Seq(Key) /\ held' = [held EXCEPT ![d] = Append(held[d], k)]
    BY <1>1 DEF KeyGoesDown, TypeOK
  <2>2. Once(held[d]) /\ ~Among(held[d], k)
    BY <1>1 DEF Tidy, Holds, Among
  <2>3. \A x : Among(Append(held[d], k), x) <=> Among(held[d], x) \/ x = k
    BY <2>1, <2>2, PutIn
  <2>4. \A q \in Keyboard : held'[q] = IF q = d THEN Append(held[d], k) ELSE held[q]
    BY <2>1 DEF TypeOK, Device
  <2>5. \A q \in Keyboard, x \in Key : Holds(q, x)' <=> Among(held'[q], x)
    BY DEF Holds, Among
  <2>6. \A q \in Keyboard, x \in Key : Holds(q, x) <=> Among(held[q], x)
    BY DEF Holds, Among
  <2>7. \A q \in Keyboard, x \in Key : Holds(q, x)' <=> Holds(q, x) \/ (q = d /\ x = k)
    BY <2>3, <2>4, <2>5, <2>6
  <2>8. /\ Relays(d, KeyDown(d, k)) /\ Reads /\ d \in attached /\ UNCHANGED sink
        /\ KeyDown(d, k).kind = "KeyDown" /\ KeyDown(d, k).device = d /\ KeyDown(d, k) \in Input
    BY <1>1, KeyInputs DEF KeyGoesDown, KeyDown
  <2>9. /\ Known' /\ (Live' => Live)
        /\ Live => \A q \in Keyboard, x \in Key :
             Comes(Said', x \in sinkHeld'[q], q, x)
               <=> IF About(KeyDown(d, k), q, x) THEN KeyDown(d, k) = KeyDown(q, x) ELSE Holds(q, x)
    BY <2>8, RelaysAgreed
  <2>10. \A q \in Keyboard, x \in Key :
          /\ About(KeyDown(d, k), q, x) <=> q = d /\ x = k
          /\ KeyDown(d, k) = KeyDown(q, x) <=> q = d /\ x = k
    BY DEF About, Detached, KeyDown, KeyUp
  <2> QED  BY <2>7, <2>9, <2>10 DEF Agreed
<1>2. CASE ~(driving = "There" /\ ~Holds(d, k))
  BY <1>2, NothingSaid DEF KeyGoesDown, SaysNothing, sink, Holds
<1> QED  BY <1>1, <1>2

LEMMA KeyComesUpAgreed ==
  ASSUME TypeOK, Tidy, Agreed, Known, NEW d \in Keyboard, NEW k \in Key, KeyComesUp(d, k)
  PROVE  Agreed' /\ Known'
<1> d \in Device
  BY DEF Device
<1>1. CASE driving = "There" /\ Holds(d, k)
  <2>1. PICK i \in 1..Len(held[d]) : held[d][i] = k /\ held' = [held EXCEPT ![d] = RemoveAt(held[d], i)]
    BY <1>1 DEF KeyComesUp
  <2>2. held[d] \in Seq(Key) /\ Once(held[d]) /\ held[d] # <<>>
    BY <1>1 DEF Tidy, TypeOK, Holds
  <2>3. \A x : Among(RemoveAt(held[d], i), x) <=> Among(held[d], x) /\ x # k
    BY <2>1, <2>2, TakenOut
  <2>4. \A q \in Keyboard, x \in Key : Holds(q, x)' <=> Holds(q, x) /\ ~(q = d /\ x = k)
    <3>1. \A q \in Keyboard : held'[q] = IF q = d THEN RemoveAt(held[d], i) ELSE held[q]
      BY <2>1 DEF TypeOK, Device
    <3>2. \A q \in Keyboard, x \in Key : Holds(q, x)' <=> Among(held'[q], x)
      BY DEF Holds, Among
    <3>3. \A q \in Keyboard, x \in Key : Holds(q, x) <=> Among(held[q], x)
      BY DEF Holds, Among
    <3> QED  BY <2>3, <3>1, <3>2, <3>3
  <2>5. /\ Relays(d, KeyUp(d, k)) /\ Reads /\ d \in attached /\ UNCHANGED sink
        /\ KeyUp(d, k).kind \notin {"Detached", "KeyDown"} /\ KeyUp(d, k) \in Input
    BY <1>1, <2>2, KeyInputs DEF KeyComesUp, KeyUp, Tidy
  <2>6. /\ Known' /\ (Live' => Live)
        /\ Live => \A q \in Keyboard, x \in Key :
             Comes(Said', x \in sinkHeld'[q], q, x)
               <=> IF About(KeyUp(d, k), q, x) THEN KeyUp(d, k) = KeyDown(q, x) ELSE Holds(q, x)
    BY <2>5, RelaysAgreed
  <2>7. \A q \in Keyboard, x \in Key :
          /\ About(KeyUp(d, k), q, x) <=> q = d /\ x = k
          /\ KeyUp(d, k) # KeyDown(q, x)
    BY DEF About, Detached, KeyDown, KeyUp
  <2> QED  BY <2>4, <2>6, <2>7 DEF Agreed
<1>2. CASE ~(driving = "There" /\ Holds(d, k))
  BY <1>2, NothingSaid DEF KeyComesUp, SaysNothing, sink, Holds
<1> QED  BY <1>1, <1>2

LEMMA PointsAgreed ==
  ASSUME TypeOK, Tidy, Agreed, Known, NEW d \in Mouse, NEW down \in BOOLEAN,
         NEW still \in BOOLEAN, Points(d, down, still)
  PROVE  Agreed' /\ Known'
<1> d \in Device
  BY DEF Device
<1>1. UNCHANGED held /\ \A q \in Keyboard, x \in Key : Holds(q, x)' <=> Holds(q, x)
  BY DEF Points, Holds
<1>2. CASE SaysNothing /\ UNCHANGED announced
  BY <1>1, <1>2, NothingSaid DEF Points, SaysNothing, sink
<1>3. CASE Relays(d, Pointer(d, down))
  <2>1. /\ Reads /\ d \in attached /\ UNCHANGED sink
        /\ Pointer(d, down).kind \notin {"Detached", "KeyDown"} /\ Pointer(d, down) \in Input
    BY PointerInputs DEF Points, Pointer
  <2>2. /\ Known' /\ (Live' => Live)
        /\ Live => \A q \in Keyboard, x \in Key :
             Comes(Said', x \in sinkHeld'[q], q, x)
               <=> IF About(Pointer(d, down), q, x) THEN Pointer(d, down) = KeyDown(q, x) ELSE Holds(q, x)
    BY <1>3, <2>1, RelaysAgreed
  <2>3. \A q \in Keyboard, x \in Key : ~About(Pointer(d, down), q, x)
    BY DEF About, Detached, KeyDown, KeyUp, Pointer
  <2> QED  BY <1>1, <2>2, <2>3 DEF Agreed
<1> QED  BY <1>2, <1>3 DEF Points

LEMMA InTwo ==
  ASSUME NEW S, NEW s \in Seq(S), NEW n \in 0..Len(s)
  PROVE  LET u == SubSeq(s, n + 1, Len(s))
         IN  u \in Seq(S) /\ s = SubSeq(s, 1, n) \o u
<1> DEFINE a == SubSeq(s, 1, n)  u == SubSeq(s, n + 1, Len(s))  t == a \o u
<1>1. Len(s) \in Nat /\ n \in Nat /\ n =< Len(s)
  OBVIOUS
<1>2. a \in Seq(S) /\ Len(a) = n /\ \A j \in 1..n : a[j] = s[j]
  BY <1>1
<1>3. u \in Seq(S)
  BY <1>1
<1>4. Len(u) = Len(s) - n
  <2>1. CASE n = Len(s)
    BY <1>1, <2>1
  <2>2. CASE n + 1 =< Len(s)
    <3>1. Len(u) = Len(s) - (n + 1) + 1
      BY <1>1, <2>2
    <3>2. Len(s) - (n + 1) + 1 = Len(s) - n
      BY <1>1
    <3> QED  BY <3>1, <3>2
  <2> HIDE DEF u
  <2>3. n = Len(s) \/ n + 1 =< Len(s)
    BY <1>1
  <2> QED  BY <2>1, <2>2, <2>3
<1>5. ASSUME NEW j \in 1..Len(s) - n PROVE u[j] = s[j + n]
  <2>1. u[j] = s[(n + 1) + j - 1]
    BY <1>1
  <2>2. (n + 1) + j - 1 = j + n
    BY <1>1
  <2> QED  BY <2>1, <2>2
<1>6. t \in Seq(S) /\ Len(t) = Len(a) + Len(u)
  <2>1. a \in Seq(S)
    BY <1>2
  <2> HIDE DEF a, u
  <2> QED  BY <2>1, <1>3
<1>7. \A j \in 1..Len(t) : t[j] = IF j =< Len(a) THEN a[j] ELSE u[j - Len(a)]
  <2> HIDE DEF a, u
  <2> QED  BY <1>2, <1>3
<1> HIDE DEF a, u, t
<1>8. Len(t) = Len(s)
  BY <1>1, <1>2, <1>4, <1>6
<1>9. ASSUME NEW j \in 1..Len(s) PROVE t[j] = s[j]
  <2>1. CASE j =< n
    BY <1>1, <1>2, <1>7, <1>8, <2>1
  <2>2. CASE ~(j =< n)
    <3>1. j - n \in 1..Len(s) - n /\ (j - n) + n = j
      BY <1>1, <2>2
    <3>2. u[j - n] = s[j]
      BY <1>5, <3>1
    <3> QED  BY <1>2, <1>7, <1>8, <2>2, <3>2
  <2> QED  BY <2>1, <2>2
<1>10. t = s
  <2>1. t = [j \in 1..Len(t) |-> t[j]] /\ s = [j \in 1..Len(s) |-> s[j]]
    BY <1>6
  <2> QED  BY <1>8, <1>9, <2>1
<1> QED  BY <1>3, <1>10 DEF a, u, t

(* A message handed over with nothing else to say: read after all that was *)
(* said, or not at all on a session that is no longer live.                *)
LEMMA HandOverAgreed ==
  ASSUME TypeOK, Agreed, Known, NEW m \in Sealed, NEW went \in BOOLEAN, HandOver(m, went),
         out = <<>>, out' = <<>>, session' => session, Live' => went,
         UNCHANGED <<announced, sink>>, m.kind \notin {"KeyDown", "Attached", "Detached"},
         Live' => \A d \in Keyboard, k \in Key : Holds(d, k)' <=> ~About(m, d, k) /\ Holds(d, k)
  PROVE  Agreed' /\ Known'
<1> DEFINE u == IF gap THEN Unopenable ELSE m
<1>1. wire \in Seq(Sealed) /\ Said = wire
  BY NothingToSay, SaidIsSealed
<1>2. u \in Sealed /\ u.kind # "KeyDown"
  BY MarksAreSealed DEF Unopenable
<1>3. wire \o <<u>> = Append(wire, u) /\ Append(wire, u) \in Seq(Sealed)
  BY <1>1, <1>2
<1>4. wire' = wire \/ wire' = wire \o <<u>>
  BY <1>3 DEF HandOver
<1>5. Said' = wire' /\ mirrored' = mirrored /\ sinkHeld' = sinkHeld
  <2>1. wire' \in Seq(Sealed)
    BY <1>1, <1>3, <1>4
  <2> QED  BY <2>1 DEF Said, sink
<1>6. OfOneKnown(wire', mirrored)
  <2>1. KnownBy(wire, mirrored, {})
    BY DEF Known, KnownBy
  <2>2. KnownBy(wire \o <<u>>, mirrored, {})
    BY <1>1, <1>2, <2>1, KnownOneMore
  <2> QED  BY <1>4, <2>2 DEF Known, KnownBy
<1>7. ASSUME Live'
      PROVE  /\ KnownBy(Said', mirrored, announced')
             /\ \A d \in Keyboard, k \in Key :
                  Holds(d, k)' <=> Comes(Said', k \in sinkHeld[d], d, k)
  <2>1. Live /\ went
    BY <1>7 DEF HandOver, Live
  <2>2. Said' = Said \o <<m>>
    BY <1>1, <1>3, <1>5, <2>1 DEF HandOver, Live
  <2>3. \A d \in announced : m # Detached(d)
    BY DEF Detached
  <2>4. announced' \in SUBSET Device /\ announced' = announced
    BY DEF TypeOK
  <2>5. KnownBy(Said', mirrored, announced')
    BY <2>1, <2>2, <2>3, <2>4, SaysAgreed
  <2>6. \A d \in Keyboard, k \in Key :
          Comes(Said', k \in sinkHeld[d], d, k) <=> ~About(m, d, k) /\ Holds(d, k)
    BY <2>1, <2>2, SaysAgreed
  <2> QED  BY <1>7, <2>5, <2>6
<1> QED  BY <1>5, <1>6, <1>7 DEF Agreed, Known

LEMMA SendAgreed ==
  ASSUME TypeOK, Tidy, Agreed, Known, NEW went \in BOOLEAN, Send(went)
  PROVE  Agreed' /\ Known'
<1> DEFINE m == Head(out)
<1>1. /\ wire \in Seq(Sealed) /\ out \in Seq(Sealed) /\ out # <<>> /\ Said = wire \o out
      /\ m \in Sealed /\ Tail(out) \in Seq(Sealed)
  BY SaidIsSealed, Shortened DEF Send, Said
<1>2. session /\ HandOver(m, went)
  BY DEF Send, Tidy
<1>3. /\ UNCHANGED <<announced, held, mirrored, sinkHeld, cut>>
      /\ out' = IF went THEN Tail(out) ELSE <<>>
      /\ session' = went
      /\ gap' = (gap \/ ~went)
  BY DEF Send, HandOver, forwarding, sink
<1>4. Append(wire, m) \o Tail(out) = Said
  BY <1>1
<1>5. Append(wire, m) \in Seq(Sealed) /\ Append(wire, Unopenable) \in Seq(Sealed)
  BY <1>1, MarksAreSealed
<1>6. CASE Live /\ went
  <2>1. wire' = Append(wire, m) /\ Said' = Said
    BY <1>2, <1>3, <1>4, <1>6 DEF HandOver, Live, Said
  <2>2. OfOneKnown(Said, mirrored)
    BY <1>6 DEF Known, KnownBy
  <2> DEFINE sent == Append(wire, m)
  <2>3. sent \in Seq(Sealed) /\ sent \o Tail(out) = Said /\ Tail(out) \in Seq(Sealed)
    BY <1>1, <1>4, <1>5
  <2> HIDE DEF m, sent
  <2>4. OfOneKnown(sent, mirrored)
    <3> DEFINE rest == Tail(out)
    <3>1. rest \in Seq(Sealed) /\ OfOneKnown(sent \o rest, mirrored)
      BY <2>2, <2>3
    <3> HIDE DEF rest
    <3> QED  BY <2>3, <3>1, KnownSoFar
  <2>5. Known'
    BY <1>3, <1>6, <2>1, <2>4 DEF Known, sent
  <2>6. Agreed'
    BY <1>3, <1>6, <2>1 DEF Agreed, Holds
  <2> QED  BY <2>5, <2>6
<1>7. CASE ~(Live /\ went)
  <2>1. ~Live'
    BY <1>2, <1>3, <1>7 DEF Live
  <2>2. wire' = wire \/ wire' = wire \o <<Unopenable>>
    <3>1. Append(wire, Unopenable) = wire \o <<Unopenable>>
      BY <1>1, MarksAreSealed
    <3>2. went /\ ~cut => gap
      BY <1>2, <1>7 DEF Live
    <3>3. wire' = wire \/ wire' = Append(wire, Unopenable)
      BY <1>2, <3>2 DEF HandOver
    <3> QED  BY <3>1, <3>3
  <2>3. OfOneKnown(wire', mirrored)
    <3>1. KnownBy(wire, mirrored, {})
      BY DEF Known, KnownBy
    <3>2. Unopenable.kind # "KeyDown"
      BY DEF Unopenable
    <3>3. KnownBy(wire \o <<Unopenable>>, mirrored, {})
      BY <1>1, <3>1, <3>2, MarksAreSealed, KnownOneMore
    <3> QED  BY <2>2, <3>3 DEF Known, KnownBy
  <2> QED  BY <1>3, <2>1, <2>3 DEF Agreed, Known
<1> QED  BY <1>6, <1>7

LEMMA WaitHereAgreed ==
  ASSUME TypeOK, Agreed, Known, NEW went \in BOOLEAN, WaitHere(went)
  PROVE  Agreed' /\ Known'
<1>1. \A d \in Keyboard, k \in Key :
        (Holds(d, k)' <=> Holds(d, k)) /\ ~About(StillHere, d, k)
  BY DEF WaitHere, forwarding, Holds, About, StillHere, KeyDown, KeyUp, Detached
<1>2. /\ HandOver(StillHere, went) /\ out = <<>> /\ out' = <<>> /\ session /\ (Live' => went)
      /\ UNCHANGED <<announced, sink>>
  BY DEF WaitHere, Reads, forwarding, Live
<1>3. StillHere \in Sealed /\ StillHere.kind \notin {"KeyDown", "Attached", "Detached"}
  BY MarksAreSealed DEF StillHere
<1> QED  BY <1>1, <1>2, <1>3, HandOverAgreed

LEMMA LetGoOfAKeyAgreed ==
  ASSUME TypeOK, Tidy, Agreed, Known, NEW d \in Keyboard, NEW went \in BOOLEAN,
         LetGoOfAKey(d, went)
  PROVE  Agreed' /\ Known'
<1> DEFINE k == Last(held[d])  m == KeyUp(d, k)
<1>1. d \in Device /\ held[d] \in Seq(Key) /\ held[d] # <<>> /\ Once(held[d])
  BY DEF Device, LetGoOfAKey, TypeOK, Tidy
<1>2. k \in Key /\ \A x : Among(Front(held[d]), x) <=> Among(held[d], x) /\ x # k
  BY <1>1, LastTakenOff
<1>3. \A q \in Keyboard : held'[q] = IF q = d THEN Front(held[d]) ELSE held[q]
  BY <1>1 DEF LetGoOfAKey, TypeOK, Device
<1>4. /\ m \in Sealed /\ m.kind \notin {"KeyDown", "Attached", "Detached"}
      /\ HandOver(m, went) /\ UNCHANGED <<announced, sink>>
      /\ out = <<>> /\ out' = <<>> /\ session' = session
  BY <1>2, KeyInputs, InputIsSealed DEF LetGoOfAKey, KeyUp, Tidy
<1>5. Live' => went
  BY <1>4 DEF HandOver, Live
<1>6. \A q \in Keyboard, x \in Key :
        /\ Holds(q, x)' <=> Among(held'[q], x)
        /\ Holds(q, x) <=> Among(held[q], x)
        /\ About(m, q, x) <=> q = d /\ x = k
  BY DEF Holds, Among, About, KeyDown, KeyUp, Detached
<1>7. \A q \in Keyboard, x \in Key : Holds(q, x)' <=> ~About(m, q, x) /\ Holds(q, x)
  <2> HIDE DEF k, m
  <2> QED  BY <1>2, <1>3, <1>6
<1> HIDE DEF m
<1> QED  BY <1>4, <1>5, <1>7, HandOverAgreed

LEMMA LetGoOfAButtonAgreed ==
  ASSUME TypeOK, Tidy, Agreed, Known, NEW d \in Mouse, NEW went \in BOOLEAN,
         LetGoOfAButton(d, went)
  PROVE  Agreed' /\ Known'
<1> DEFINE m == Pointer(d, FALSE)
<1>1. /\ m \in Sealed /\ m.kind \notin {"KeyDown", "Attached", "Detached"}
      /\ HandOver(m, went) /\ UNCHANGED <<announced, held, sink>>
      /\ out = <<>> /\ out' = <<>> /\ session' = session
  BY PointerInputs, InputIsSealed DEF LetGoOfAButton, Pointer, Tidy
<1>2. Live' => went
  BY <1>1 DEF HandOver, Live
<1>3. \A q \in Keyboard, x \in Key : (Holds(q, x)' <=> Holds(q, x)) /\ ~About(m, q, x)
  BY <1>1 DEF Holds, About, KeyDown, KeyUp, Detached, Pointer
<1> HIDE DEF m
<1> QED  BY <1>1, <1>2, <1>3, HandOverAgreed

(* A session starts with both ends holding nothing.                        *)
LEMMA LinkComesAgreed ==
  ASSUME SinkInv, Tidy, NEW paired \in BOOLEAN, LinkComes(paired)
  PROVE  Agreed' /\ Known'
<1>1. wire' = <<>> /\ out' = <<>> /\ announced' = {} /\ Said' = <<>>
  BY DEF LinkComes, NewlyAnnounced, Tidy, Said
<1>2. \A d \in Keyboard, k \in Key : ~Holds(d, k)'
  BY DEF LinkComes, NewlyHeld, NothingHeld, Holds, Device
<1>3. \A d \in Device : sinkHeld'[d] = {}
  BY DEF LinkComes, SinkInv, Mentioned, OneAtATime
<1>4. \A d \in Keyboard, k \in Key : ~Comes(Said', k \in sinkHeld'[d], d, k)
  BY <1>1, <1>3 DEF Comes, Device
<1>5. Known'
  BY <1>1 DEF Known, KnownBy, OfOneKnown
<1> QED  BY <1>2, <1>4, <1>5 DEF Agreed

LEMMA CutOffAgreed ==
  ASSUME TypeOK, Known, NEW n \in 0..Len(wire), CutOff(n)
  PROVE  Agreed' /\ Known'
<1> DEFINE u == SubSeq(wire, n + 1, Len(wire))
<1>1. wire \in Seq(Sealed) /\ wire' \in Seq(Sealed) /\ wire' = SubSeq(wire, 1, n)
  BY CutShort DEF CutOff, TypeOK
<1>2. u \in Seq(Sealed) /\ wire = SubSeq(wire, 1, n) \o u
  BY <1>1, InTwo
<1>3. OfOneKnown(wire', mirrored)
  BY <1>1, <1>2, KnownSoFar DEF Known
<1>4. ~Live' /\ mirrored' = mirrored
  BY DEF CutOff, Live, sink
<1> QED  BY <1>3, <1>4 DEF Agreed, Known

LEMMA TakeAgreed ==
  ASSUME TypeOK, Agreed, Known, Take
  PROVE  Agreed' /\ Known'
<1> DEFINE m == Head(wire)
<1>1. /\ wire \in Seq(Sealed) /\ out \in Seq(Sealed) /\ Said \in Seq(Sealed) /\ wire # <<>>
      /\ m \in Sealed /\ wire' = Tail(wire) /\ Taken(m) /\ m # Unopenable
  BY SaidIsSealed, Shortened DEF Take
<1>2. Said # <<>> /\ Head(Said) = m /\ Tail(Said) = Tail(wire) \o out
  BY <1>1 DEF Said
<1>3. Said' = Tail(Said) /\ (Live' <=> Live) /\ UNCHANGED <<announced, held>>
  BY <1>1, <1>2 DEF Take, Said, forwarding, Live
<1>4. \A d \in Device : /\ m = Attached(d) => d \in mirrored'
                        /\ m # Detached(d) /\ d \in mirrored => d \in mirrored'
  BY <1>1, WhatAnnounces DEF Taken
<1>5. OfOneKnown(wire', mirrored')
  <2>1. KnownBy(wire, mirrored, {})
    BY DEF Known, KnownBy
  <2> HIDE DEF m
  <2>2. Head(wire) = m
    BY DEF m
  <2>3. KnownBy(Tail(wire), mirrored', {})
    BY <1>1, <1>4, <2>1, <2>2, KnownOneLess
  <2> QED  BY <1>1, <2>3 DEF KnownBy
<1>6. ASSUME Live PROVE KnownBy(Said', mirrored', announced')
  <2>1. KnownBy(Said, mirrored, announced) /\ announced \in SUBSET Device
    BY <1>6 DEF Known, TypeOK
  <2>2. KnownBy(Tail(Said), mirrored', announced)
    BY <1>1, <1>2, <1>4, <2>1, KnownOneLess
  <2> QED  BY <1>3, <2>2
<1>7. ASSUME NEW d \in Keyboard, NEW k \in Key
      PROVE  (k \in sinkHeld'[d]) <=> IF About(m, d, k) THEN m = KeyDown(d, k) ELSE k \in sinkHeld[d]
  <2>1. /\ About(m, d, k) <=> \/ m.kind \in {"KeyDown", "KeyUp"} /\ m.device = d /\ m.key = k
                              \/ m.kind = "Detached" /\ m.device = d
        /\ m = KeyDown(d, k) <=> m.kind = "KeyDown" /\ m.device = d /\ m.key = k
    BY <1>1, WhatIsAbout
  <2>2. d \in Device /\ sinkHeld \in [Device -> SUBSET Key]
    BY DEF Device, TypeOK
  <2> HIDE DEF m
  <2>3. CASE m.kind = "KeyDown"
    <3>1. sinkHeld' = [sinkHeld EXCEPT ![m.device] = @ \cup {m.key}]
      BY <1>1, <2>3 DEF Taken
    <3> QED  BY <2>1, <2>2, <2>3, <3>1
  <2>4. CASE m.kind = "KeyUp"
    <3>1. sinkHeld' = [sinkHeld EXCEPT ![m.device] = @ \ {m.key}]
      BY <1>1, <2>4 DEF Taken
    <3> QED  BY <2>1, <2>2, <2>4, <3>1
  <2>5. CASE m.kind = "Detached"
    <3>1. sinkHeld' = [sinkHeld EXCEPT ![m.device] = {}]
      BY <1>1, <2>5 DEF Taken
    <3> QED  BY <2>1, <2>2, <2>5, <3>1
  <2>6. CASE m.kind \notin {"KeyDown", "KeyUp", "Detached"}
    <3>1. sinkHeld' = sinkHeld
      BY <1>1, <2>6 DEF Taken
    <3> QED  BY <2>1, <2>6, <3>1
  <2> QED  BY <2>3, <2>4, <2>5, <2>6
<1>8. ASSUME Live, NEW d \in Keyboard, NEW k \in Key
      PROVE  Holds(d, k) <=> Comes(Said', k \in sinkHeld'[d], d, k)
  <2> DEFINE after == IF About(m, d, k) THEN m = KeyDown(d, k) ELSE k \in sinkHeld[d]
  <2>1. (k \in sinkHeld[d]) \in BOOLEAN
    OBVIOUS
  <2>2. Comes(Said, k \in sinkHeld[d], d, k) <=> Comes(Tail(Said), after, d, k)
    <3>1. Comes(Said, k \in sinkHeld[d], d, k)
            <=> Comes(Tail(Said), IF About(Head(Said), d, k) THEN Head(Said) = KeyDown(d, k)
                                  ELSE k \in sinkHeld[d], d, k)
      BY <1>1, <1>2, <2>1, ComesFirst
    <3> QED  BY <1>2, <3>1
  <2>3. Holds(d, k) <=> Comes(Said, k \in sinkHeld[d], d, k)
    BY <1>8 DEF Agreed
  <2>4. after <=> k \in sinkHeld'[d]
    BY <1>7
  <2> HIDE DEF after
  <2>5. Comes(Tail(Said), after, d, k) <=> Comes(Tail(Said), k \in sinkHeld'[d], d, k)
    BY <2>4 DEF Comes
  <2> QED  BY <1>3, <2>2, <2>3, <2>5
<1>9. Agreed'
  <2>1. \A d \in Keyboard, k \in Key : Holds(d, k)' <=> Holds(d, k)
    BY <1>3 DEF Holds
  <2> QED  BY <1>3, <1>8, <2>1 DEF Agreed
<1>10. Known'
  BY <1>3, <1>5, <1>6 DEF Known
<1> QED  BY <1>9, <1>10

LEMMA SessionEndsAgreed ==
  ASSUME SessionEnds
  PROVE  Agreed' /\ Known'
  BY DEF SessionEnds, Agreed, Known, OfOneKnown, Live

LEMMA DeviceLostAgreed ==
  ASSUME SinkInv, Tidy, NEW d \in Device, DeviceLost(d)
  PROVE  Agreed' /\ Known'
<1>1. ~serving
  BY DEF DeviceLost, SinkInv, OneAtATime
<1>2. cut' /\ wire' = <<>>
  BY <1>1 DEF DeviceLost, Tidy, network
<1> QED  BY <1>2 DEF Agreed, Known, OfOneKnown, Live

AgreementInv == SinkInv /\ Tidy /\ Agreed /\ Known

LEMMA AgreementInit == Init => AgreementInv
<1> SUFFICES ASSUME Init PROVE AgreementInv
  OBVIOUS
<1>1. Tidy
  BY NoKeyHeld DEF Init, Tidy, NothingHeld
<1>2. Agreed /\ Known
  BY DEF Init, Agreed, Known, OfOneKnown, Live
<1> QED  BY <1>1, <1>2, SinkInit DEF AgreementInv

LEMMA AgreementStep == AgreementInv /\ [Next]_vars => AgreementInv'
<1> SUFFICES ASSUME AgreementInv, [Next]_vars PROVE AgreementInv'
  OBVIOUS
<1>1. TypeOK /\ SinkInv /\ Tidy /\ Agreed /\ Known
  BY DEF AgreementInv, SinkInv
<1>2. SinkInv' /\ Tidy'
  BY <1>1, SinkStep, TidyStep
<1>3. Agreed' /\ Known'
  <2>1. CASE UNCHANGED <<held, announced, session, cut, gap, wire, out, mirrored, sinkHeld>>
    BY <1>1, <2>1, NothingSaid DEF Holds
  <2>2. CASE UNCHANGED vars
    BY <2>1, <2>2 DEF vars, forwarding, network, sink
  <2>3. CASE AskForTheSink \/ AskForThisMachine \/ ComeBack \/ WaitThere
    BY <2>1, <2>3 DEF AskForTheSink, AskForThisMachine, ComeBack, WaitThere, SaysNothing,
                      forwarding, network, sink
  <2>4. CASE Person
    BY <1>1, <2>3, <2>4, AttachAgreed, DetachAgreed, KeyGoesDownAgreed, KeyComesUpAgreed,
       PointsAgreed DEF Person
  <2>5. CASE Run
    BY <1>1, <2>3, <2>5, SendAgreed, WaitHereAgreed, LetGoOfAKeyAgreed, LetGoOfAButtonAgreed
       DEF Run
  <2>6. CASE Serve
    BY <1>1, <2>6, TakeAgreed, SessionEndsAgreed, DeviceLostAgreed DEF Serve
  <2>7. CASE Network
    BY <1>1, <2>7, LinkComesAgreed, CutOffAgreed DEF Network
  <2> QED  BY <2>2, <2>4, <2>5, <2>6, <2>7 DEF Next
<1> QED  BY <1>2, <1>3 DEF AgreementInv

(* On a session nothing has been lost from, the keys this end believes the *)
(* sink holds are the ones it will hold when it has read what was said,    *)
(* and no key is said of a keyboard the sink has not been told of by then. *)
THEOREM TheEndsAgree == Spec => []Agreement
<1>1. ASSUME AgreementInv PROVE Agreement
  <2>1. SameKeysDown
    BY <1>1 DEF AgreementInv, Agreed, Live, Comes, LastIn, SameKeysDown, LastAbout
  <2>2. SaidOfAKeyboardItKnows
    BY <1>1 DEF AgreementInv, Known, OfOneKnown, Told, SaidOfAKeyboardItKnows, ToldOf
  <2> QED  BY <2>1, <2>2 DEF Agreement
<1> QED
  BY <1>1, AgreementInit, AgreementStep, PTL DEF Spec

=============================================================================
