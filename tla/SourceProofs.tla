---------------------------- MODULE SourceProofs ----------------------------
(***************************************************************************)
(* Proofs about the forwarding machine, for every set of keys and however  *)
(* far behind the run is: nothing is refused without a link to carry it,   *)
(* the bits say what the machine was shown, and both machines see the      *)
(* release of whatever they were told is down.                             *)
(*                                                                         *)
(* What is refused and what this machine believes are invariants as they   *)
(* stand.  What the sink believes is not: a key is told to it long after   *)
(* the finger moved, so the argument is about the stream, every press in   *)
(* which has a finger behind it or a release behind it on the stream.      *)
(***************************************************************************)
EXTENDS Source, TLAPS

(* From place n of the stream on, key k comes up or has a finger on it.    *)
ComesUpAfter(k, n) ==
  k \in fingers \/ \E i \in 1..Len(stream) : i > n /\ stream[i] = KeyUp(k)

PressesComeUp ==
  \A n \in 1..Len(stream) : stream[n].kind = "KeyDown" => ComesUpAfter(stream[n].key, n)
OptionsComeUp == \A k \in option : ComesUpAfter(k, 0)
HeldComeUp ==
  session => /\ \A k \in held : place = "There" /\ ComesUpAfter(k, 0)
             /\ place \in {"Here", "Returning"} => held = {}

LocalInv ==
  /\ TypeOK
  /\ NeverSentNowhere
  /\ OthersComeUpHere
  /\ HeldHereIsShown
SinkInv == PressesComeUp /\ OptionsComeUp /\ HeldComeUp

-----------------------------------------------------------------------------
(* The stream.                                                             *)

(* Handing an event over leaves what was on the stream where it was.       *)
LEMMA Handed ==
  ASSUME NEW s \in Seq(Event), NEW e \in Event
  PROVE  /\ Append(s, e) \in Seq(Event)
         /\ Len(Append(s, e)) = Len(s) + 1
         /\ \A i \in 1..Len(s) : Append(s, e)[i] = s[i]
         /\ Append(s, e)[Len(s) + 1] = e
  OBVIOUS

(* Taking the first event moves every other one forward by one.            *)
LEMMA Taken ==
  ASSUME NEW s \in Seq(Event), s # <<>>
  PROVE  /\ Head(s) \in Event /\ Head(s) = s[1]
         /\ Tail(s) \in Seq(Event)
         /\ Len(s) \in Nat \ {0}
         /\ Len(Tail(s)) = Len(s) - 1
         /\ \A i \in 1..Len(s) - 1 : Tail(s)[i] = s[i + 1]
  OBVIOUS

LEMMA EventKinds ==
  ASSUME NEW e \in Event
  PROVE  /\ e.kind \in {"KeyDown", "KeyUp"} => e.key \in Key
         /\ e.kind = "KeyUp" => e = KeyUp(e.key)
         /\ e.kind = "KeyDown" => e = KeyDown(e.key)
         /\ e.kind = "Asked" => e.driving \in Driving
  BY DEF Event, Stroke, KeyUp, KeyDown, NothingMore

LEMMA EventsMade ==
  /\ \A k \in Key : KeyDown(k) \in Event /\ KeyUp(k) \in Event
  /\ \A driving \in Driving : Asked(driving) \in Event
  /\ NothingMore \in Event
  BY DEF Event, Stroke, KeyDown, KeyUp, Asked, NothingMore

-----------------------------------------------------------------------------
(* What this machine believes, and what is refused.                        *)

LEMMA LocalInit == Init => LocalInv
<1>1. Init => stream \in Seq(Event)
  BY DEF Init
<1> QED
  BY <1>1 DEF Init, LocalInv, TypeOK, NeverSentNowhere, OthersComeUpHere,
              HeldHereIsShown, Suppressing, Place

LEMMA PressLocal ==
  ASSUME LocalInv, NEW k \in Key, Press(k)
  PROVE  LocalInv'
<1>1. stream' \in Seq(Event)
  BY Handed, EventsMade DEF Press, HandsOver, LocalInv, TypeOK
<1> QED
  BY <1>1 DEF Press, RunUnmoved, LocalInv, TypeOK, NeverSentNowhere,
              OthersComeUpHere, HeldHereIsShown

(* The one release refused while everything is belongs to a key the bits   *)
(* do not name, and the ones refused with the chord to its letters.        *)
LEMMA ReleaseLocal ==
  ASSUME LocalInv, NEW k \in Key, Release(k)
  PROVE  LocalInv'
<1>1. stream' \in Seq(Event)
  BY Handed, EventsMade DEF Release, HandsOver, LocalInv, TypeOK
<1>2. CASE ~Refuses(k, TRUE)
  BY <1>1, <1>2 DEF Release, LetsGoHere, RunUnmoved, LocalInv, TypeOK,
                    NeverSentNowhere, OthersComeUpHere, HeldHereIsShown
<1>3. CASE Refuses(k, TRUE)
  <2>1. k \in {ToTheSink, BackHere} \/ k \notin machine \/ k \in Option
    <3>1. refusing \in Suppressing /\ machine \ heldHere \subseteq Option
      BY ChordAssumption DEF LocalInv, TypeOK, HeldHereIsShown
    <3>2. CASE refusing = "Everything"
      BY <1>3, <3>1, <3>2 DEF Refuses
    <3>3. CASE refusing = "TheSwitch"
      BY <1>3, <3>3 DEF Refuses, IsTheSwitch
    <3>4. CASE refusing = "Nothing"
      BY <1>3, <3>4 DEF Refuses
    <3> QED
      BY <3>1, <3>2, <3>3, <3>4 DEF Suppressing
  <2> QED
    BY <1>1, <1>3, <2>1 DEF Release, LetsGoHere, RunUnmoved, LocalInv, TypeOK,
                            NeverSentNowhere, OthersComeUpHere, HeldHereIsShown
<1> QED
  BY <1>2, <1>3

LEMMA HandsLocal ==
  ASSUME LocalInv, Hands
  PROVE  LocalInv'
<1>1. ASSUME NEW e \in Event, AskFromOutside(e)
      PROVE  LocalInv'
  <2>1. stream' \in Seq(Event)
    BY <1>1, Handed DEF AskFromOutside, HandsOver, LocalInv, TypeOK
  <2> QED
    BY <1>1, <2>1 DEF AskFromOutside, RunUnmoved, LocalInv, TypeOK, NeverSentNowhere,
                      OthersComeUpHere, HeldHereIsShown
<1>2. CASE BoundPasses
  BY <1>2 DEF BoundPasses, LocalInv, TypeOK, NeverSentNowhere, OthersComeUpHere,
              HeldHereIsShown
<1> QED
  BY <1>1, <1>2, PressLocal, ReleaseLocal, EventsMade DEF Hands

LEMMA FollowedIsOption ==
  ASSUME NEW e \in Event, option \in SUBSET Option
  PROVE  Followed(e) \in SUBSET Option
  BY DEF Followed

LEMMA RelayedIsKeys ==
  ASSUME NEW e \in Event, TypeOK
  PROVE  Relayed(e) \in SUBSET Key
<1>1. CASE e.kind = "KeyDown"
  BY <1>1, EventKinds, ChordAssumption DEF Relayed, TypeOK
<1> QED
  BY <1>1 DEF Relayed, TypeOK

(* Every step of the run keeps it: what it refuses next goes with where it *)
(* is, and it shows this machine nothing but the modifier.                 *)
LEMMA RunLocal ==
  ASSUME LocalInv, LinkComes \/ Run
  PROVE  LocalInv'
<1> USE DEF LocalInv, TypeOK, NeverSentNowhere, OthersComeUpHere, HeldHereIsShown,
            HandsUnmoved, Refuse, Place, Suppressing
<1>1. CASE TakeHere
  BY <1>1, Taken, FollowedIsOption DEF TakeHere, Arrives, Took
<1>2. CASE WaitHere
  BY <1>2, Taken DEF WaitHere, CameBackEmpty, Ends
<1>3. CASE LinkComes
  BY <1>3 DEF LinkComes, OnANewLink
<1>4. CASE StopLooking
  BY <1>4 DEF StopLooking
<1>5. CASE TakeThere
  <2>1. Head(stream) \in Event /\ Tail(stream) \in Seq(Event)
    BY <1>5, Taken DEF TakeThere, Arrives
  <2>2. option' \in SUBSET Option /\ held' \in SUBSET Key
    BY <1>5, <2>1, FollowedIsOption, RelayedIsKeys DEF TakeThere
  <2>3. stream' \in Seq(Event) /\ UNCHANGED <<fingers, heldHere, machine, over, bound>>
    BY <1>5, <2>1 DEF TakeThere, Took
  <2>4. CASE UNCHANGED <<place, refusing, session>>
    BY <2>2, <2>3, <2>4
  <2>5. CASE LinkGone
    BY <2>2, <2>3, <2>5 DEF LinkGone, GivesBack
  <2> QED
    BY <1>5, <2>4, <2>5 DEF TakeThere
<1>6. CASE TakeAgain
  BY <1>6, Taken DEF TakeAgain, Arrives, Took
<1>7. CASE ComeBack
  BY <1>7, Taken, ChordAssumption DEF ComeBack, WithTheModifier, Arrives, Took, LetGo
<1>8. CASE Returned
  BY <1>8 DEF Returned
<1>9. CASE WaitThere
  BY <1>9, Taken DEF WaitThere, CameBackEmpty, Ends, LinkGone, GivesBack
<1> QED
  BY <1>1, <1>2, <1>3, <1>4, <1>5, <1>6, <1>7, <1>8, <1>9 DEF Run

LEMMA LocalStep == LocalInv /\ [Next]_vars => LocalInv'
<1>1. CASE UNCHANGED vars
  BY <1>1 DEF vars, LocalInv, TypeOK, NeverSentNowhere, OthersComeUpHere, HeldHereIsShown
<1> QED
  BY <1>1, HandsLocal, RunLocal DEF Next

LEMMA LocalInvariance == Spec => []LocalInv
  BY LocalInit, LocalStep, PTL DEF Spec

(* Every variable keeps its type.                                          *)
THEOREM TypeCorrect == Spec => []TypeOK
<1>1. LocalInv => TypeOK
  BY DEF LocalInv
<1> QED
  BY <1>1, LocalInvariance, PTL

(* However the run and the procedure interleave, this machine's keyboard   *)
(* is refused only with a session to carry it.                             *)
THEOREM SuppressionIsCarried == Spec => []NeverSentNowhere
<1>1. LocalInv => NeverSentNowhere
  BY DEF LocalInv
<1> QED
  BY <1>1, LocalInvariance, PTL

(* No key but the chord's own is left down on this machine.                *)
THEOREM NoOtherKeyStuckHere == Spec => []OthersComeUpHere
<1>1. LocalInv => OthersComeUpHere
  BY DEF LocalInv
<1> QED
  BY <1>1, LocalInvariance, PTL

(* The bits kept beside the procedure are what the machine was shown.      *)
THEOREM BitsAreTrue == Spec => []HeldHereIsShown
<1>1. LocalInv => HeldHereIsShown
  BY DEF LocalInv
<1> QED
  BY <1>1, LocalInvariance, PTL

-----------------------------------------------------------------------------
(* What the sink believes.                                                 *)

(* A stroke handed over takes no release away, and a finger that comes up  *)
(* puts its own there.                                                     *)
LEMMA HandedComesUp ==
  ASSUME TypeOK, NEW q, NEW n \in 0..Len(stream), ComesUpAfter(q, n),
         NEW e \in Event, HandsOver(e),
         \A x \in fingers \ fingers' : e = KeyUp(x)
  PROVE  ComesUpAfter(q, n)'
<1>1. /\ Len(stream) \in Nat /\ Len(stream') = Len(stream) + 1
      /\ \A i \in 1..Len(stream) : stream'[i] = stream[i]
      /\ stream'[Len(stream) + 1] = e
  BY Handed DEF TypeOK, HandsOver
<1>2. CASE q \in fingers
  BY <1>1, <1>2 DEF ComesUpAfter
<1>3. CASE \E i \in 1..Len(stream) : i > n /\ stream[i] = KeyUp(q)
  BY <1>1, <1>3 DEF ComesUpAfter
<1> QED
  BY <1>2, <1>3 DEF ComesUpAfter

(* What is behind an event that is not the release itself is still there   *)
(* once the event is taken.                                                *)
LEMMA PastTheFirst ==
  ASSUME TypeOK, stream # <<>>, NEW q, ComesUpAfter(q, 0), Head(stream) # KeyUp(q)
  PROVE  ComesUpAfter(q, 1)
  BY Taken DEF TypeOK, ComesUpAfter

LEMMA TakenComesUp ==
  ASSUME TypeOK, stream # <<>>, stream' = Tail(stream), UNCHANGED fingers,
         NEW q, NEW n \in Nat, ComesUpAfter(q, n + 1)
  PROVE  ComesUpAfter(q, n)'
<1>1. /\ Len(stream) \in Nat /\ Len(stream') = Len(stream) - 1
      /\ \A i \in 1..Len(stream) - 1 : stream'[i] = stream[i + 1]
  BY Taken DEF TypeOK
<1>2. CASE q \in fingers
  BY <1>2 DEF ComesUpAfter
<1>3. CASE \E i \in 1..Len(stream) : i > n + 1 /\ stream[i] = KeyUp(q)
  <2>1. PICK i \in 1..Len(stream) : i > n + 1 /\ stream[i] = KeyUp(q)
    BY <1>3
  <2>2. i - 1 \in 1..Len(stream') /\ i - 1 > n /\ stream'[i - 1] = KeyUp(q)
    BY <1>1, <2>1
  <2> QED
    BY <2>2 DEF ComesUpAfter
<1> QED
  BY <1>2, <1>3 DEF ComesUpAfter

LEMMA TakenPresses ==
  ASSUME TypeOK, PressesComeUp, stream # <<>>, stream' = Tail(stream), UNCHANGED fingers
  PROVE  PressesComeUp'
<1>1. SUFFICES ASSUME NEW n \in 1..Len(stream'), stream'[n].kind = "KeyDown",
                      NEW q, q = stream'[n].key
               PROVE  ComesUpAfter(q, n)'
  BY DEF PressesComeUp, ComesUpAfter
<1>2. n \in Nat /\ n + 1 \in 1..Len(stream) /\ stream'[n] = stream[n + 1]
  BY Taken DEF TypeOK
<1>3. ComesUpAfter(q, n + 1)
  BY <1>1, <1>2 DEF PressesComeUp
<1> QED
  BY <1>2, <1>3, TakenComesUp

(* Whatever was coming up still is, once one event that is not its release *)
(* has been taken.                                                         *)
LEMMA StillComesUp ==
  ASSUME TypeOK, stream # <<>>, stream' = Tail(stream), UNCHANGED fingers,
         NEW q, ComesUpAfter(q, 0), Head(stream) # KeyUp(q)
  PROVE  ComesUpAfter(q, 0)'
  BY PastTheFirst, TakenComesUp

LEMMA PressedComesUp ==
  ASSUME TypeOK, PressesComeUp, stream # <<>>, stream' = Tail(stream), UNCHANGED fingers,
         Head(stream).kind = "KeyDown", NEW q, q = Head(stream).key
  PROVE  ComesUpAfter(q, 0)'
<1>1. ComesUpAfter(q, 1)
  BY Taken DEF TypeOK, PressesComeUp
<1> QED
  BY <1>1, TakenComesUp

(* Chording follows the fingers: an option it holds has one on it, or a    *)
(* release it has not read yet.                                            *)
LEMMA TakenOptions ==
  ASSUME TypeOK, PressesComeUp, OptionsComeUp, stream # <<>>, stream' = Tail(stream),
         UNCHANGED fingers, option' = Followed(Head(stream))
  PROVE  OptionsComeUp'
<1> DEFINE e == Head(stream)
<1>1. e \in Event
  BY Taken DEF TypeOK
<1>2. SUFFICES ASSUME NEW q \in option'
               PROVE  ComesUpAfter(q, 0)'
  BY DEF OptionsComeUp, ComesUpAfter
<1>3. CASE e.kind = "KeyDown" /\ q = e.key
  BY <1>3, PressedComesUp
<1>4. CASE q \in option /\ e # KeyUp(q)
  BY <1>4, StillComesUp DEF OptionsComeUp
<1>5. (e.kind = "KeyDown" /\ q = e.key) \/ (q \in option /\ e # KeyUp(q))
  <2>1. CASE e.kind = "KeyDown"
    BY <1>2, <2>1 DEF Followed, KeyUp
  <2>2. CASE e.kind = "KeyUp"
    BY <1>2, <2>2 DEF Followed, KeyUp
  <2>3. CASE e.kind \notin {"KeyDown", "KeyUp"}
    BY <1>2, <2>3 DEF Followed, KeyUp
  <2> QED
    BY <2>1, <2>2, <2>3
<1> QED
  BY <1>3, <1>4, <1>5

LEMMA SinkInit == Init => SinkInv
  BY DEF Init, SinkInv, PressesComeUp, OptionsComeUp, HeldComeUp

LEMMA HandsSink ==
  ASSUME LocalInv, SinkInv, Hands
  PROVE  SinkInv'
<1>t. TypeOK
  BY DEF LocalInv
<1>1. ASSUME NEW e \in Event, HandsOver(e), RunUnmoved,
             \A x \in fingers \ fingers' : e = KeyUp(x),
             e.kind = "KeyDown" => e.key \in fingers'
      PROVE  SinkInv'
  <2>1. /\ Len(stream) \in Nat /\ Len(stream') = Len(stream) + 1
        /\ \A i \in 1..Len(stream) : stream'[i] = stream[i]
        /\ stream'[Len(stream) + 1] = e
    BY <1>t, <1>1, Handed DEF TypeOK, HandsOver
  <2>2. ASSUME NEW q, NEW n \in 0..Len(stream), ComesUpAfter(q, n)
        PROVE  ComesUpAfter(q, n)'
    BY <1>t, <1>1, <2>2, HandedComesUp
  <2>3. PressesComeUp'
    <3>1. SUFFICES ASSUME NEW n \in 1..Len(stream'), stream'[n].kind = "KeyDown",
                          NEW q, q = stream'[n].key
                   PROVE  ComesUpAfter(q, n)'
      BY DEF PressesComeUp, ComesUpAfter
    <3>2. CASE n = Len(stream) + 1
      BY <1>1, <2>1, <3>1, <3>2 DEF ComesUpAfter
    <3>3. CASE n \in 1..Len(stream)
      BY <2>1, <2>2, <3>1, <3>3 DEF SinkInv, PressesComeUp
    <3> QED
      BY <2>1, <3>2, <3>3
  <2>4. \A q : ComesUpAfter(q, 0) => ComesUpAfter(q, 0)'
    BY <2>1, <2>2
  <2>5. UNCHANGED <<option, held, session, place>>
    BY <1>1 DEF RunUnmoved
  <2>6. OptionsComeUp'
    BY <2>4, <2>5 DEF SinkInv, OptionsComeUp, ComesUpAfter
  <2>7. HeldComeUp'
    BY <2>4, <2>5 DEF SinkInv, HeldComeUp, ComesUpAfter
  <2> QED
    BY <2>3, <2>6, <2>7 DEF SinkInv
<1>2. ASSUME NEW k \in Key, Press(k)
      PROVE  SinkInv'
  BY <1>1, <1>2, EventsMade DEF Press, KeyDown
<1>3. ASSUME NEW k \in Key, Release(k)
      PROVE  SinkInv'
  BY <1>1, <1>3, EventsMade DEF Release, KeyUp
<1>4. ASSUME NEW driving \in Driving, AskFromOutside(Asked(driving))
      PROVE  SinkInv'
  BY <1>1, <1>4, EventsMade DEF AskFromOutside, Asked
<1>5. CASE AskFromOutside(NothingMore)
  BY <1>1, <1>5, EventsMade DEF AskFromOutside, NothingMore
<1>6. CASE BoundPasses
  BY <1>6 DEF BoundPasses, SinkInv, PressesComeUp, OptionsComeUp, HeldComeUp, ComesUpAfter
<1> QED
  BY <1>2, <1>3, <1>4, <1>5, <1>6 DEF Hands

(* A step of the run that takes an event and tells the sink nothing keeps  *)
(* it where the sink already holds nothing, or where nothing is released.  *)
LEMMA TakenSink ==
  ASSUME LocalInv, SinkInv, Arrives, Took, HandsUnmoved,
         option' = Followed(Head(stream))
  PROVE  PressesComeUp' /\ OptionsComeUp'
<1>1. TypeOK /\ PressesComeUp /\ OptionsComeUp /\ UNCHANGED fingers
      /\ stream # <<>> /\ stream' = Tail(stream)
  BY DEF LocalInv, SinkInv, Arrives, Took, HandsUnmoved
<1> QED
  BY <1>1, TakenPresses, TakenOptions

LEMMA EmptySink ==
  ASSUME LocalInv, SinkInv, CameBackEmpty
  PROVE  /\ PressesComeUp' /\ OptionsComeUp'
         /\ \A q : ComesUpAfter(q, 0) => ComesUpAfter(q, 0)'
<1>1. TypeOK /\ PressesComeUp /\ OptionsComeUp /\ UNCHANGED <<fingers, option>>
  BY DEF LocalInv, SinkInv, CameBackEmpty, HandsUnmoved
<1>2. CASE stream = <<>>
  BY <1>1, <1>2 DEF CameBackEmpty, PressesComeUp, OptionsComeUp, ComesUpAfter
<1>3. CASE stream # <<>>
  <2>1. stream' = Tail(stream) /\ Head(stream) = NothingMore
    BY <1>3 DEF CameBackEmpty, Empty
  <2>2. \A q : Head(stream) # KeyUp(q)
    BY <2>1 DEF NothingMore, KeyUp
  <2>3. \A q : ComesUpAfter(q, 0) => ComesUpAfter(q, 0)'
    BY <1>1, <1>3, <2>1, <2>2, StillComesUp
  <2> QED
    BY <1>1, <1>3, <2>1, <2>3, TakenPresses DEF OptionsComeUp, ComesUpAfter
<1> QED
  BY <1>2, <1>3

(* What the sink is told in one step: the key pressed, and every option it *)
(* is pressed under.                                                       *)
LEMMA RelayedComesUp ==
  ASSUME LocalInv, SinkInv, session, place = "There", Arrives, Took, HandsUnmoved,
         NEW q \in Relayed(Head(stream))
  PROVE  ComesUpAfter(q, 0)'
<1> DEFINE e == Head(stream)
<1>1. TypeOK /\ PressesComeUp /\ OptionsComeUp /\ UNCHANGED fingers
      /\ stream # <<>> /\ stream' = Tail(stream) /\ e \in Event
      /\ \A k \in held : ComesUpAfter(k, 0)
  BY Taken DEF LocalInv, SinkInv, HeldComeUp, Arrives, Took, HandsUnmoved, TypeOK
<1>2. CASE e.kind = "KeyDown" /\ q = e.key
  BY <1>1, <1>2, PressedComesUp
<1>3. CASE q \in held \cup option /\ e # KeyUp(q)
  BY <1>1, <1>3, StillComesUp DEF OptionsComeUp
<1>4. (e.kind = "KeyDown" /\ q = e.key) \/ (q \in held \cup option /\ e # KeyUp(q))
  <2>1. CASE e.kind = "KeyDown"
    BY <2>1 DEF Relayed, KeyUp
  <2>2. CASE e.kind = "KeyUp"
    BY <2>2 DEF Relayed, KeyUp
  <2>3. CASE e.kind \notin {"KeyDown", "KeyUp"}
    BY <2>3 DEF Relayed, KeyUp
  <2> QED
    BY <2>1, <2>2, <2>3
<1> QED
  BY <1>2, <1>3, <1>4

LEMMA RunSink ==
  ASSUME LocalInv, SinkInv, LinkComes \/ Run
  PROVE  SinkInv'
<1>1. CASE TakeHere
  <2>1. PressesComeUp' /\ OptionsComeUp'
    BY <1>1, TakenSink DEF TakeHere
  <2>2. HeldComeUp'
    BY <1>1 DEF TakeHere, SinkInv, HeldComeUp
  <2> QED
    BY <2>1, <2>2 DEF SinkInv
<1>2. CASE WaitHere
  <2>1. PressesComeUp' /\ OptionsComeUp'
    BY <1>2, EmptySink DEF WaitHere
  <2>2. HeldComeUp'
    BY <1>2 DEF WaitHere, CameBackEmpty, Ends, SinkInv, HeldComeUp
  <2> QED
    BY <2>1, <2>2 DEF SinkInv
<1>3. CASE LinkComes
  BY <1>3 DEF LinkComes, OnANewLink, HandsUnmoved, SinkInv, PressesComeUp, OptionsComeUp,
              HeldComeUp, ComesUpAfter
<1>4. CASE StopLooking
  BY <1>4 DEF StopLooking, HandsUnmoved, SinkInv, PressesComeUp, OptionsComeUp,
              HeldComeUp, ComesUpAfter
<1>5. CASE TakeThere
  <2>1. PressesComeUp' /\ OptionsComeUp'
    BY <1>5, TakenSink DEF TakeThere
  <2>2. HeldComeUp'
    <3>1. CASE UNCHANGED <<place, refusing, session>>
      <4>1. SUFFICES ASSUME session
                     PROVE  \A q \in held' : ComesUpAfter(q, 0)'
        BY <1>5, <3>1 DEF HeldComeUp, TakeThere, ComesUpAfter
      <4> QED
        BY <1>5, <4>1, RelayedComesUp DEF TakeThere
    <3>2. CASE LinkGone
      BY <3>2 DEF LinkGone, HeldComeUp
    <3> QED
      BY <1>5, <3>1, <3>2 DEF TakeThere
  <2> QED
    BY <2>1, <2>2 DEF SinkInv
<1>6. CASE TakeAgain
  <2>1. Head(stream).kind \in {"KeyDown", "Asked"} /\ Head(stream) \in Event
    BY <1>6, Taken DEF TakeAgain, AskedFor, Arrives, LocalInv, TypeOK
  <2>2. \A q : Head(stream) # KeyUp(q)
    BY <2>1 DEF KeyUp
  <2>3. \A q : ComesUpAfter(q, 0) => ComesUpAfter(q, 0)'
    BY <1>6, <2>2, StillComesUp DEF TakeAgain, Arrives, Took, HandsUnmoved, LocalInv
  <2>4. PressesComeUp'
    BY <1>6, TakenPresses DEF TakeAgain, Arrives, Took, HandsUnmoved, LocalInv, SinkInv
  <2> QED
    BY <1>6, <2>3, <2>4 DEF TakeAgain, SinkInv, OptionsComeUp, HeldComeUp, ComesUpAfter
<1>7. CASE ComeBack
  <2>1. Head(stream).kind \in {"KeyDown", "Asked"} /\ Head(stream) \in Event
    BY <1>7, Taken DEF ComeBack, AskedFor, Arrives, LocalInv, TypeOK
  <2>2. \A q : Head(stream) # KeyUp(q)
    BY <2>1 DEF KeyUp
  <2>3. \A q : ComesUpAfter(q, 0) => ComesUpAfter(q, 0)'
    BY <1>7, <2>2, StillComesUp DEF ComeBack, WithTheModifier, Arrives, Took, HandsUnmoved, LocalInv
  <2>4. PressesComeUp'
    BY <1>7, TakenPresses DEF ComeBack, WithTheModifier, Arrives, Took, HandsUnmoved, LocalInv, SinkInv
  <2> QED
    BY <1>7, <2>3, <2>4 DEF ComeBack, LetGo, SinkInv, OptionsComeUp, HeldComeUp, ComesUpAfter
<1>8. CASE Returned
  BY <1>8 DEF Returned, HandsUnmoved, SinkInv, PressesComeUp, OptionsComeUp, HeldComeUp,
              ComesUpAfter
<1>9. CASE WaitThere
  <2>1. /\ PressesComeUp' /\ OptionsComeUp'
        /\ \A q : ComesUpAfter(q, 0) => ComesUpAfter(q, 0)'
    BY <1>9, EmptySink DEF WaitThere
  <2>2. HeldComeUp'
    BY <1>9, <2>1 DEF WaitThere, CameBackEmpty, LinkGone, Ends, SinkInv, HeldComeUp,
                      ComesUpAfter
  <2> QED
    BY <2>1, <2>2 DEF SinkInv
<1> QED
  BY <1>1, <1>2, <1>3, <1>4, <1>5, <1>6, <1>7, <1>8, <1>9 DEF Run

LEMMA SinkStep == LocalInv /\ SinkInv /\ [Next]_vars => SinkInv'
<1>1. CASE UNCHANGED vars
  BY <1>1 DEF vars, SinkInv, PressesComeUp, OptionsComeUp, HeldComeUp, ComesUpAfter
<1> QED
  BY <1>1, HandsSink, RunSink DEF Next

(* Nothing the sink was told is down outlives its finger: over a link that *)
(* is up its release is on its way, and none is left when the keyboard has *)
(* come back.                                                              *)
THEOREM SinkIsLetGo == Spec => []SinkLetsGo
<1>1. SinkInv => SinkLetsGo
  BY DEF SinkInv, HeldComeUp, SinkLetsGo, WillComeUp, ComesUpAfter
<1> QED
  BY <1>1, SinkInit, SinkStep, LocalInvariance, PTL DEF Spec
=============================================================================
