-------------------------- MODULE ProcessesProofs ---------------------------
(***************************************************************************)
(* Proofs about the supervisor, for every bound it may be given, and about *)
(* the processes of the converting machine over any number of lives and    *)
(* failures: what is proved of one life holds of each, programs of two     *)
(* installs run together only where an install was cut short, and a        *)
(* recording is handed over under the name of the run it is of.            *)
(*                                                                         *)
(* Neither of the supervisor's properties is inductive.  How long the run  *)
(* has been quiet is bounded by what the supervisor has still to wait      *)
(* (QuietBounded).  That a working run is ended for a cause needs what it  *)
(* may be quiet for besides what its supervisor was held up (AnswerOwed):  *)
(* until it is next asked, and then until its promise is due, where a late *)
(* wake-up makes the next probe due at once (ClockKept).  To these         *)
(* invariants a step of the processes is one of Watchdog's own, the start  *)
(* of a life, the end of one, or a run that goes while it waits            *)
(* (StepOfTheWatchdog).                                                    *)
(***************************************************************************)
EXTENDS MCProcesses, TLAPS

(* What has gone by and what is still to be waited, in every phase.        *)
QuietBounded ==
  /\ phase = "Turn" => silent <= Silence
  /\ phase = "HandingOver" => silent + left <= Silence + HandOver
  /\ phase = "Waiting" => silent + left <= Silence + HandOver + ProbeEvery
  /\ phase = "Asleep" => silent + left <= Silence + HandOver + ProbeEvery + Stall
  /\ phase = "Ending" => silent + left <= Silence + HandOver + ProbeEvery + Stall + Grace

(* A run with nothing to do and nothing asked of it, all of whose beats    *)
(* have been read.                                                         *)
Unasked == child = "Idle" /\ probes = 0 /\ beats = 0

(* When the clock was last read, against what is left of the wait.         *)
ClockKept ==
  /\ phase = "Turn" => sinceAt = 0
  /\ phase = "Waiting" => toProbe <= sinceAt + left
  /\ phase = "Asleep" => toProbe + Stall <= sinceAt + left

(* What a run at work has been quiet for, besides what its supervisor was  *)
(* held up: while its beats have all been read, as long as it has not been *)
(* asked or is still within its promise.                                   *)
AnswerOwed ==
  Supervising /\ ~HeldUpTooLong =>
    /\ child \in {"Idle", "Busy"} => silent <= heldUp + ProbeEvery + BeatWithin
    /\ child = "Busy" /\ beats = 0 => silent + due <= heldUp + ProbeEvery + BeatWithin
    /\ child = "Idle" /\ beats = 0 => silent <= heldUp + ProbeEvery
    /\ Unasked =>
         /\ phase \in {"Turn", "HandingOver"} => silent + toProbe <= heldUp + ProbeEvery
         /\ phase = "Waiting" => silent + left <= heldUp + ProbeEvery

HeldUpCounted == heldUp \in Nat /\ heldUp <= silent

WorkInv == TypeOK /\ HeldUpCounted /\ ClockKept /\ AnswerOwed /\ EndedForCause

USE SilenceAssumption, ProbeEveryAssumption, GraceAssumption,
    BeatWithinAssumption, HandOverAssumption, StallAssumption, ArrivalsAssumption,
    PipeAssumption

-----------------------------------------------------------------------------
LEMMA TypeStep == TypeOK /\ [Next]_vars => TypeOK'
<1> SUFFICES ASSUME TypeOK, [Next]_vars PROVE TypeOK'
  OBVIOUS
<1> USE DEF TypeOK, Phase, Child
<1>1. CASE FindsItEnded
  BY <1>1 DEF FindsItEnded, HasExited
<1>2. ASSUME NEW asked \in BOOLEAN, Turn(asked) PROVE TypeOK'
  BY <1>2 DEF Turn, HasExited, Probed, OneMoreProbe
<1>3. CASE HandedOver
  BY <1>3 DEF HandedOver, WaitLeft
<1>4. ASSUME NEW heard \in BOOLEAN, NEW asks \in BOOLEAN, Wakes(heard, asks)
      PROVE TypeOK'
  BY <1>4 DEF Wakes, WaitIsUp, BeatUnread, SilentBy, GraceFor
<1>5. CASE EndIt
  BY <1>5 DEF EndIt, IsKilled
<1>6. CASE Run
  BY <1>6 DEF Run, TakesUp, Beats, Wedges, Goes, SupervisorUnmoved
<1>7. CASE Tick
  BY <1>7 DEF Tick, BeatUnread
<1>8. CASE Dozes
  BY <1>8 DEF Dozes
<1>9. CASE UNCHANGED vars
  BY <1>9 DEF vars
<1> QED
  BY <1>1, <1>2, <1>3, <1>4, <1>5, <1>6, <1>7, <1>8, <1>9 DEF Next, Supervisor

(* Every variable has its type, whatever the bounds.                       *)
THEOREM TypeCorrect == Spec => []TypeOK
<1>1. Init => TypeOK
  BY DEF Init, TypeOK, Phase, Child
<1> QED
  BY <1>1, TypeStep, PTL DEF Spec

-----------------------------------------------------------------------------
LEMMA QuietStep == TypeOK /\ QuietBounded /\ [Next]_vars => QuietBounded'
<1> SUFFICES ASSUME TypeOK, QuietBounded, [Next]_vars PROVE QuietBounded'
  OBVIOUS
<1> USE DEF TypeOK, QuietBounded
<1>1. CASE FindsItEnded
  BY <1>1 DEF FindsItEnded, HasExited
<1>2. ASSUME NEW asked \in BOOLEAN, Turn(asked) PROVE QuietBounded'
  BY <1>2 DEF Turn, HasExited, Probed, OneMoreProbe
<1>3. CASE HandedOver
  BY <1>3 DEF HandedOver, WaitLeft
<1>4. ASSUME NEW heard \in BOOLEAN, NEW asks \in BOOLEAN, Wakes(heard, asks)
      PROVE QuietBounded'
  BY <1>4 DEF Wakes, WaitIsUp, BeatUnread, SilentBy, GraceFor
<1>5. CASE EndIt
  BY <1>5 DEF EndIt, IsKilled
<1>6. CASE Run
  BY <1>6 DEF Run, TakesUp, Beats, Wedges, Goes, SupervisorUnmoved
<1>7. CASE Tick
  BY <1>7 DEF Tick
<1>8. CASE Dozes
  BY <1>8 DEF Dozes
<1>9. CASE UNCHANGED vars
  BY <1>9 DEF vars
<1> QED
  BY <1>1, <1>2, <1>3, <1>4, <1>5, <1>6, <1>7, <1>8, <1>9 DEF Next, Supervisor

(* Whatever the run does and whoever asks for the recording, the           *)
(* supervisor of watchdog.rs has ended a quiet run within the silence it   *)
(* allows, a probe interval, a hand-over, what it woke late by and the      *)
(* grace.                                                                  *)
THEOREM QuietIsEnded == Spec => []EndedInTime
<1>1. Init => QuietBounded
  BY DEF Init, QuietBounded
<1>2. TypeOK /\ QuietBounded => EndedInTime
  BY DEF TypeOK, Phase, QuietBounded, EndedInTime
<1> QED
  BY <1>1, <1>2, TypeCorrect, QuietStep, PTL DEF Spec

-----------------------------------------------------------------------------
(* The processes, life after life.                                         *)

(* What the supervisor may take a step of the processes for.               *)
WaitOver ==
  /\ child' = "Gone"
  /\ UNCHANGED due /\ SupervisorUnmoved /\ UNCHANGED <<probes, beats>>

LEMMA StepOfTheWatchdog ==
  ASSUME [HNext]_<<allvars, history>>
  PROVE  [Next]_vars \/ JustStarted \/ AllGone \/ WaitOver
<1> USE DEF Next, Run, Supervisor
<1>1. CASE Starts
  BY <1>1 DEF Starts
<1>2. CASE SupervisorKilled \/ Reboots
  BY <1>2 DEF SupervisorKilled, Reboots
<1>3. CASE LooksAtTheFile
  BY <1>3 DEF LooksAtTheFile, Wedges
<1>4. CASE StopsWaiting
  BY <1>4 DEF StopsWaiting, WaitOver
<1>5. CASE GivesThemBack
  BY <1>5 DEF GivesThemBack, Goes
<1>6. CASE Converts
  BY <1>6 DEF Converts
<1>7. CASE GoesWrong
  BY <1>7 DEF GoesWrong
<1>8. CASE Supervises
  BY <1>8 DEF Supervises
<1>9. CASE Switches
  BY <1>9 DEF Switches
<1>10. CASE Installs
  BY <1>10 DEF Installs, BeginsInstalling, PutsInPlace, Enlists, Bootstraps, CutShort,
               Uninstalls, BootedOut
<1>11. CASE Clock
  BY <1>11 DEF Clock
<1>12. CASE UNCHANGED <<allvars, history>>
  BY <1>12 DEF allvars
<1> QED
  BY <1>1, <1>2, <1>3, <1>4, <1>5, <1>6, <1>7, <1>8, <1>9, <1>10, <1>11, <1>12
  DEF HNext, PNext

-----------------------------------------------------------------------------
(* One life after another.                                                 *)

Quiet == TypeOK /\ QuietBounded

LEMMA QuietEveryLife == Quiet /\ [HNext]_<<allvars, history>> => Quiet'
<1> SUFFICES ASSUME Quiet, [HNext]_<<allvars, history>> PROVE Quiet'
  OBVIOUS
<1>1. CASE [Next]_vars
  BY <1>1, TypeStep, QuietStep DEF Quiet
<1>2. CASE JustStarted
  BY <1>2 DEF JustStarted, Quiet, TypeOK, Phase, Child, QuietBounded
<1>3. CASE AllGone
  BY <1>3 DEF AllGone, Quiet, TypeOK, Phase, Child, QuietBounded
<1>4. CASE WaitOver
  BY <1>4 DEF WaitOver, SupervisorUnmoved, Quiet, TypeOK, Phase, Child, QuietBounded
<1> QED  BY <1>1, <1>2, <1>3, <1>4, StepOfTheWatchdog

LEMMA QuietAtFirst == HInit => Quiet
  BY DEF HInit, PInit, Quiet, TypeOK, Phase, Child, QuietBounded

(* In every life, whatever went wrong in the ones before and whenever it   *)
(* is switched, installed or started again: a quiet run is ended within    *)
(* the silence, a probe interval, a hand-over, what its supervisor woke    *)
(* late by and the grace.                                                  *)
THEOREM QuietIsEndedEveryLife == HSpec => []EndedInTime
<1>1. Quiet => EndedInTime
  BY DEF Quiet, TypeOK, Phase, QuietBounded, EndedInTime
<1> QED  BY <1>1, QuietAtFirst, QuietEveryLife, PTL DEF HSpec

(* What a step of the processes makes of the time held up: nothing where no *)
(* time passes, one more where it passes with nobody listening, until it   *)
(* is too long.                                                            *)
LEMMA HeldUpStays ==
  ASSUME HeldUpCounted, TypeOK, HeardOrHeldUp, silent' = silent
  PROVE  heldUp' = heldUp
BY DEF HeldUpCounted, TypeOK, HeardOrHeldUp

LEMMA HeldUpInATick ==
  ASSUME HeldUpCounted, TypeOK, HeardOrHeldUp, Tick
  PROVE  /\ heldUp' = IF phase \in {"HandingOver", "Asleep"} /\ ~HeldUpTooLong THEN heldUp + 1
                      ELSE heldUp
         /\ HeldUpCounted'
<1>1. silent' = silent + 1 /\ silent' # 0 /\ silent' > silent
  BY DEF Tick, TypeOK
<1> QED
  BY <1>1 DEF HeldUpCounted, TypeOK, HeardOrHeldUp

LEMMA HeldUpHeard ==
  ASSUME HeardOrHeldUp, silent' = 0 PROVE heldUp' = 0 /\ HeldUpCounted'
BY DEF HeardOrHeldUp, HeldUpCounted

-----------------------------------------------------------------------------
(* The steps in which no time passes and no beat is read.                  *)

StillOwed == HeldUpCounted' /\ ClockKept' /\ AnswerOwed' /\ EndedForCause'

(* What has been spent and what is owed, added up.                         *)
LEMMA PromiseAdds ==
  ASSUME NEW spent \in Nat, NEW spare \in Nat, NEW owed \in Nat,
         spent <= spare, owed <= BeatWithin
  PROVE  spent + owed <= spare + BeatWithin
  OBVIOUS

LEMMA RunStep ==
  ASSUME WorkInv, HeardOrHeldUp, Run PROVE StillOwed
<1> USE DEF WorkInv, TypeOK, SupervisorUnmoved
<1>1. heldUp' = heldUp /\ silent' = silent /\ UNCHANGED <<phase, left, sinceAt, toProbe>>
  BY HeldUpStays DEF Run, TakesUp, Beats, Wedges, Goes
<1>2. HeldUpCounted' /\ ClockKept' /\ (HeldUpTooLong' <=> HeldUpTooLong)
  BY <1>1 DEF HeldUpCounted, ClockKept, HeldUpTooLong
<1>3. EndedForCause'
  BY <1>1, <1>2 DEF Run, TakesUp, Beats, Wedges, Goes, EndedForCause
<1>4. AnswerOwed'
  <2> SUFFICES ASSUME Supervising, ~HeldUpTooLong PROVE AnswerOwed'
    BY <1>1, <1>2 DEF AnswerOwed, Supervising
  <2> USE DEF Supervising, AnswerOwed, Unasked, HeldUpCounted
  <2>1. CASE TakesUp
    <3>1. beats = 0 => silent <= heldUp + ProbeEvery
      BY <2>1 DEF TakesUp
    <3>2. due' \in Nat /\ due' <= BeatWithin /\ child' = "Busy" /\ beats' = beats
      BY <2>1 DEF TakesUp
    <3>3. heldUp + ProbeEvery \in Nat /\ silent \in Nat
      OBVIOUS
    <3>4. beats = 0 => silent + due' <= (heldUp + ProbeEvery) + BeatWithin
      BY ONLY <3>1, <3>2, <3>3, PromiseAdds
    <3>5. silent <= heldUp + ProbeEvery + BeatWithin
      BY <2>1 DEF TakesUp
    <3> QED
      BY <1>1, <3>2, <3>4, <3>5
  <2>2. CASE Beats
    BY <1>1, <2>2 DEF Beats
  <2>3. CASE Wedges \/ Goes
    BY <1>1, <2>3 DEF Wedges, Goes
  <2> QED
    BY <2>1, <2>2, <2>3 DEF Run
<1> QED
  BY <1>2, <1>3, <1>4 DEF StillOwed

LEMMA TurnStep ==
  ASSUME WorkInv, HeardOrHeldUp, NEW asked \in BOOLEAN, Turn(asked)
  PROVE  StillOwed
<1> USE DEF WorkInv, TypeOK, Turn, HasExited, Probed, OneMoreProbe
<1>1. heldUp' = heldUp
  BY HeldUpStays
<1>2. HeldUpCounted' /\ ClockKept' /\ (HeldUpTooLong' <=> HeldUpTooLong)
  BY <1>1 DEF HeldUpCounted, ClockKept, HeldUpTooLong
<1>3. AnswerOwed'
  BY <1>1, <1>2 DEF AnswerOwed, Supervising, Unasked, HeldUpCounted
<1>4. EndedForCause'
  BY DEF EndedForCause
<1> QED
  BY <1>2, <1>3, <1>4 DEF StillOwed

LEMMA HandedOverOrDozesStep ==
  ASSUME WorkInv, HeardOrHeldUp, HandedOver \/ Dozes PROVE StillOwed
<1> USE DEF WorkInv, TypeOK, HandedOver, WaitLeft, Dozes
<1>1. heldUp' = heldUp
  BY HeldUpStays
<1>2. HeldUpCounted' /\ ClockKept' /\ (HeldUpTooLong' <=> HeldUpTooLong)
  BY <1>1 DEF HeldUpCounted, ClockKept, HeldUpTooLong
<1>3. AnswerOwed'
  BY <1>1, <1>2 DEF AnswerOwed, Supervising, Unasked, HeldUpCounted
<1>4. EndedForCause'
  BY DEF EndedForCause
<1> QED
  BY <1>2, <1>3, <1>4 DEF StillOwed

-----------------------------------------------------------------------------
(* The end of a wait.  A beat that is heard begins the silence anew; a     *)
(* wait that is over leaves a probe due at once.                           *)
LEMMA WakesStep ==
  ASSUME WorkInv, HeardOrHeldUp,
         NEW heard \in BOOLEAN, NEW asks \in BOOLEAN, Wakes(heard, asks)
  PROVE  StillOwed
<1> USE DEF WorkInv, TypeOK, Wakes, WaitIsUp, BeatUnread, SilentBy, GraceFor
<1>1. CASE heard
  <2>1. silent' = 0 /\ heldUp' = 0 /\ HeldUpCounted'
    BY <1>1, HeldUpHeard
  <2>2. ClockKept'
    BY DEF ClockKept
  <2>3. AnswerOwed'
    BY <1>1, <2>1 DEF AnswerOwed, Supervising, Unasked
  <2>4. EndedForCause'
    BY <1>1, <2>1 DEF EndedForCause, HeldUpTooLong
  <2> QED
    BY <2>1, <2>2, <2>3, <2>4 DEF StillOwed
<1>2. CASE ~heard
  <2>1. silent' = silent /\ heldUp' = heldUp /\ UNCHANGED <<probes, beats, child, due>>
    BY <1>2, HeldUpStays
  <2>2. HeldUpCounted' /\ ClockKept' /\ (HeldUpTooLong' <=> HeldUpTooLong)
    BY <2>1 DEF HeldUpCounted, ClockKept, HeldUpTooLong
  <2>3. toProbe' = 0
    BY <1>2 DEF ClockKept
  <2>4. AnswerOwed'
    BY <2>1, <2>2, <2>3 DEF AnswerOwed, Supervising, Unasked, HeldUpCounted
  <2>5. EndedForCause'
    <3> SUFFICES ASSUME phase' = "Ending", child \in {"Idle", "Busy"}, ~HeldUpTooLong
                 PROVE  FALSE
      BY <2>1, <2>2 DEF EndedForCause, Child
    <3>1. silent <= heldUp + ProbeEvery + BeatWithin
      BY DEF AnswerOwed, Supervising
    <3>2. Silence <= silent
      BY <1>2
    <3> QED
      BY <3>1, <3>2 DEF HeldUpTooLong, HeldUpCounted
  <2> QED
    BY <2>2, <2>4, <2>5 DEF StillOwed
<1> QED
  BY <1>1, <1>2

(* Time passes.                                                            *)
LEMMA TickStep ==
  ASSUME WorkInv, HeardOrHeldUp, Tick PROVE StillOwed
<1> USE DEF WorkInv, TypeOK, Tick
<1>1. /\ heldUp' = IF phase \in {"HandingOver", "Asleep"} /\ ~HeldUpTooLong THEN heldUp + 1
                   ELSE heldUp
      /\ HeldUpCounted'
  BY HeldUpInATick
<1>2. ClockKept'
  BY DEF ClockKept
<1>3. HeldUpTooLong => HeldUpTooLong'
  BY <1>1 DEF HeldUpTooLong, HeldUpCounted
<1>4. AnswerOwed'
  <2> SUFFICES ASSUME Supervising, ~HeldUpTooLong PROVE AnswerOwed'
    BY <1>3 DEF AnswerOwed, Supervising
  <2> USE DEF AnswerOwed, Supervising, Unasked, HeldUpCounted
  <2>1. CASE phase = "Waiting"
    BY <1>1, <2>1 DEF BeatUnread
  <2>2. CASE phase \in {"HandingOver", "Asleep"}
    BY <1>1, <2>2
  <2> QED
    BY <2>1, <2>2
<1>5. EndedForCause'
  BY <1>3 DEF EndedForCause
<1> QED
  BY <1>1, <1>2, <1>4, <1>5 DEF StillOwed

LEMMA WorkStep ==
  ASSUME WorkInv, HeardOrHeldUp, Next PROVE StillOwed
<1>1. CASE FindsItEnded
  BY <1>1, HeldUpStays DEF FindsItEnded, WorkInv, HeldUpCounted, ClockKept, AnswerOwed,
                           Supervising, EndedForCause, StillOwed
<1>2. ASSUME NEW asked \in BOOLEAN, Turn(asked) PROVE StillOwed
  BY <1>2, TurnStep
<1>3. CASE HandedOver \/ Dozes
  BY <1>3, HandedOverOrDozesStep
<1>4. ASSUME NEW heard \in BOOLEAN, NEW asks \in BOOLEAN, Wakes(heard, asks)
      PROVE  StillOwed
  BY <1>4, WakesStep
<1>5. CASE EndIt
  BY <1>5, HeldUpStays DEF EndIt, IsKilled, WorkInv, HeldUpCounted, ClockKept, AnswerOwed,
                           Supervising, EndedForCause, StillOwed
<1>6. CASE Run
  BY <1>6, RunStep
<1>7. CASE Tick
  BY <1>7, TickStep
<1> QED
  BY <1>1, <1>2, <1>3, <1>4, <1>5, <1>6, <1>7 DEF Next, Supervisor

LEMMA WorkEveryLife == WorkInv /\ [HNext]_<<allvars, history>> => WorkInv'
<1> SUFFICES ASSUME WorkInv, [HNext]_<<allvars, history>> PROVE WorkInv'
  OBVIOUS
<1> USE DEF WorkInv, HeldUpCounted, ClockKept, AnswerOwed, Supervising, Unasked,
            EndedForCause, HeldUpTooLong
<1>1. CASE UNCHANGED vars /\ heldUp' = heldUp
  BY <1>1 DEF vars, TypeOK
<1>2. CASE HeardOrHeldUp /\ Next
  BY <1>2, TypeStep, WorkStep DEF StillOwed
<1>3. CASE HeardOrHeldUp /\ JustStarted
  BY <1>3, HeldUpHeard DEF JustStarted, TypeOK, Phase, Child
<1>4. CASE HeardOrHeldUp /\ AllGone
  BY <1>4, HeldUpHeard DEF AllGone, TypeOK, Phase, Child
<1>5. CASE HeardOrHeldUp /\ WaitOver
  BY <1>5, HeldUpStays DEF WaitOver, SupervisorUnmoved, TypeOK, Phase, Child
<1>6. HeardOrHeldUp \/ (UNCHANGED vars /\ heldUp' = heldUp)
  BY DEF HNext, allvars, history
<1>7. HeardOrHeldUp /\ UNCHANGED vars => heldUp' = heldUp
  BY HeldUpStays DEF vars
<1> QED  BY <1>1, <1>2, <1>3, <1>4, <1>5, <1>6, <1>7, StepOfTheWatchdog

(* However lives begin and end, and whatever the bounds are, a run that    *)
(* keeps its promise (supervision.rs BEAT_WITHIN) is ended by its          *)
(* supervisor only where that was held up, by a reader of the recording or *)
(* by not being scheduled, for longer than the silence has to spare.       *)
THEOREM WorkingRunIsEndedForCause == HSpec => []EndedForCause
<1>1. HInit => WorkInv
  BY DEF HInit, PInit, WorkInv, TypeOK, Phase, Child, HeldUpCounted, ClockKept, AnswerOwed,
         Supervising, Unasked, EndedForCause
<1>2. WorkInv => EndedForCause
  BY DEF WorkInv
<1> QED  BY <1>1, <1>2, WorkEveryLife, PTL DEF HSpec

-----------------------------------------------------------------------------
(* What is installed.                                                      *)

LEMMA ThreePrograms == Len(Programs) = 3
  BY DEF Programs

(* While programs are being replaced there is no job and nothing runs; and *)
(* outside an install, cut short or going on, all of them are one's.       *)
WholeInstalls ==
  /\ install \in {"Copying", "Enlisting"} => ~job /\ ~Alive
  /\ install \in {"No", "Removed"} => copied = 0
  /\ install \in {"Enlisting", "Done"} => copied = 3

VersionInv == TypeOK /\ OneVersion /\ WholeInstalls

LEMMA VersionStep ==
  ASSUME VersionInv, PNext
  PROVE  OneVersion' /\ WholeInstalls'
<1> USE ThreePrograms, FaultsAssumption
    DEF VersionInv, OneVersion, ProcessesTypeOK, WholeInstalls, Alive, Install, RunStage
<1>1. CASE Starts
  BY <1>1 DEF Starts, PutAside, Aged, JustStarted, HasEnded, world
<1>2. CASE SupervisorKilled
  BY <1>2 DEF SupervisorKilled, Fails, AllGone
<1>3. CASE Reboots
  BY <1>3 DEF Reboots, Fails, AllGone
<1>4. CASE LooksAtTheFile
  BY <1>4 DEF LooksAtTheFile, SupervisorUnmoved, RunUnmoved, world, vars
<1>5. CASE StopsWaiting
  BY <1>5 DEF StopsWaiting, SupervisorUnmoved, RunUnmoved, world
<1>6. CASE GivesThemBack
  BY <1>6 DEF GivesThemBack, SupervisorUnmoved, RunUnmoved, world
<1>7. CASE Converts
  BY <1>7 DEF Converts, TakesUp, Beats, SupervisorUnmoved, world, life
<1>8. CASE GoesWrong
  BY <1>8 DEF GoesWrong, Goes, Wedges, Dozes, Fails, SupervisorUnmoved
<1>9. CASE Supervises
  <2>1. CASE FindsItEnded /\ UNCHANGED <<life, world>>
    BY <2>1 DEF FindsItEnded, life, world
  <2>2. ASSUME NEW asked \in BOOLEAN, Turn(asked), UNCHANGED <<life, world>>
        PROVE  OneVersion' /\ WholeInstalls'
    BY <2>2 DEF Turn, life, world
  <2>3. CASE HandedOver /\ UNCHANGED <<life, world>>
    BY <2>3 DEF HandedOver, life, world
  <2>4. ASSUME NEW heard \in BOOLEAN, Wakes(heard, TRUE), UNCHANGED <<life, world>>
        PROVE  OneVersion' /\ WholeInstalls'
    BY <2>4 DEF Wakes, life, world
  <2>5. CASE EndIt /\ run' = "None" /\ RunUnmoved
    BY <2>5 DEF EndIt, RunUnmoved, world
  <2> QED  BY <1>9, <2>1, <2>2, <2>3, <2>4, <2>5 DEF Supervises
<1>10. CASE Switches
  BY <1>10 DEF Switches, vars, life
<1>11. CASE BeginsInstalling \/ Uninstalls
  <2>1. ~Alive' /\ running' = 0 /\ job' = FALSE /\ run' = "None"
    BY <1>11 DEF BeginsInstalling, Uninstalls, BootedOut, AllGone
  <2>2. UNCHANGED <<off, live, kept, faults>>
    BY <1>11 DEF BeginsInstalling, Uninstalls, BootedOut
  <2>3. \/ install' = "Copying" /\ copied' = copied
        \/ install' = "Removed" /\ copied' = 0
    BY <1>11 DEF BeginsInstalling, Uninstalls
  <2>4. ProcessesTypeOK'
    <3>1. copied \in 0..3 /\ copied' \in 0..3 /\ running' \in 0..3
      BY <2>1, <2>3
    <3>2. install' \in Install /\ job' \in BOOLEAN /\ run' \in RunStage
      BY <2>1, <2>3
    <3> QED  BY <2>2, <3>1, <3>2
  <2>5. OneVersion'
    BY <2>1, <2>2, <2>3, <2>4
  <2>6. WholeInstalls'
    BY <2>1, <2>2, <2>3
  <2> QED  BY <2>5, <2>6
<1>12. CASE PutsInPlace
  BY <1>12 DEF PutsInPlace, MoreToCopy, vars, life
<1>13. CASE Enlists \/ Bootstraps \/ CutShort
  <2>1. UNCHANGED <<phase, run, live, kept, running, off, copied, faults>>
    BY <1>13 DEF Enlists, Bootstraps, CutShort, vars, life
  <2>2. ~Alive /\ ~Alive'
    BY <1>13, <2>1 DEF Enlists, Bootstraps, CutShort
  <2>3. \/ install' = "Enlisting" /\ copied = 3 /\ job' = job /\ ~job
        \/ install' = "Done" /\ copied = 3 /\ job' = TRUE
        \/ install' = "Cut" /\ job' = job
    BY <1>13 DEF Enlists, AllInPlace, Bootstraps, CutShort
  <2>4. ProcessesTypeOK'
    BY <2>1, <2>2, <2>3
  <2>5. OneVersion'
    BY <2>1, <2>2, <2>3, <2>4
  <2>6. WholeInstalls'
    BY <2>1, <2>2, <2>3
  <2> QED  BY <2>5, <2>6
<1>14. CASE Clock
  BY <1>14 DEF Clock, Tick, life, world
<1> QED
  BY <1>1, <1>2, <1>3, <1>4, <1>5, <1>6, <1>7, <1>8, <1>9, <1>10, <1>11, <1>12,
     <1>13, <1>14 DEF PNext, Installs

LEMMA VersionKept == VersionInv /\ [HNext]_<<allvars, history>> => VersionInv'
<1> SUFFICES ASSUME VersionInv, [HNext]_<<allvars, history>> PROVE VersionInv'
  OBVIOUS
<1>1. TypeOK'
  <2>1. CASE [Next]_vars
    BY <2>1, TypeStep DEF VersionInv
  <2>2. CASE JustStarted \/ AllGone \/ WaitOver
    BY <2>2 DEF JustStarted, AllGone, WaitOver, SupervisorUnmoved, VersionInv, TypeOK,
                Phase, Child
  <2> QED  BY <2>1, <2>2, StepOfTheWatchdog
<1>2. CASE PNext
  BY <1>1, <1>2, VersionStep DEF VersionInv
<1>3. CASE UNCHANGED <<allvars, history>>
  BY <1>1, <1>3 DEF VersionInv, OneVersion, ProcessesTypeOK, WholeInstalls, Alive,
                    allvars, vars, world, life
<1> QED  BY <1>2, <1>3 DEF HNext

(* However often it is installed, cut short, removed and started again:    *)
(* the programs running are all of one install, but after one cut short.   *)
THEOREM OneVersionRuns == HSpec => []OneVersion
<1>1. HInit => VersionInv
  BY ThreePrograms, FaultsAssumption
  DEF HInit, PInit, VersionInv, TypeOK, Phase, Child, OneVersion, ProcessesTypeOK,
      WholeInstalls, Alive, Install, RunStage
<1>2. VersionInv => OneVersion
  BY DEF VersionInv
<1> QED  BY <1>1, <1>2, VersionKept, PTL DEF HSpec

-----------------------------------------------------------------------------
(* Whose a recording is.                                                   *)

NameInv ==
  /\ wrote \in BOOLEAN /\ before \in BOOLEAN
  /\ live = IF wrote THEN "This" ELSE "Nothing"
  /\ kept = IF before THEN "Before" ELSE "Nothing"
  /\ run = "Converting" => wrote

LEMMA NameStep == NameInv /\ [HNext]_<<allvars, history>> => NameInv'
<1> SUFFICES ASSUME NameInv, [HNext]_<<allvars, history>> PROVE NameInv'
  OBVIOUS
<1> USE DEF NameInv
<1>1. CASE HNext /\ Reboots
  BY <1>1 DEF HNext, Reboots, AllGone
<1>2. CASE HNext /\ ~Reboots /\ Starts
  <2>1. live' = "Nothing" /\ kept' = Aged(live) /\ run' = "Starting"
    BY <1>2 DEF Starts, PutAside
  <2>2. wrote' = FALSE /\ before' = wrote
    BY <1>2 DEF HNext
  <2>3. kept' = IF wrote THEN "Before" ELSE "Nothing"
    BY <2>1 DEF Aged
  <2> QED  BY <2>1, <2>2, <2>3
<1>3. CASE HNext /\ ~Reboots /\ ~Starts
  <2>1. PNext /\ wrote' = (wrote \/ run' = "Converting") /\ before' = before
    BY <1>3 DEF HNext
  <2>2. CASE UNCHANGED <<live, kept>> /\ (run' = "Converting" => run = "Converting")
    BY <2>1, <2>2
  <2>3. CASE LooksAtTheFile
    BY <2>1, <2>3 DEF LooksAtTheFile, RunUnmoved
  <2>4. ~LooksAtTheFile => UNCHANGED <<live, kept>> /\ (run' = "Converting" => run = "Converting")
    <3> SUFFICES ASSUME ~LooksAtTheFile
                 PROVE  UNCHANGED <<live, kept>> /\ (run' = "Converting" => run = "Converting")
      OBVIOUS
    <3>1. CASE SupervisorKilled
      BY <3>1 DEF SupervisorKilled, AllGone
    <3>2. CASE StopsWaiting \/ GivesThemBack
      BY <3>2 DEF StopsWaiting, GivesThemBack, RunUnmoved
    <3>3. CASE Converts \/ GoesWrong
      BY <3>3 DEF Converts, GoesWrong, life
    <3>4. CASE Supervises
      BY <3>4 DEF Supervises, RunUnmoved, life
    <3>5. CASE Switches \/ Clock
      BY <3>5 DEF Switches, Clock, life
    <3>6. CASE Installs
      BY <3>6 DEF Installs, BeginsInstalling, PutsInPlace, Enlists, Bootstraps, CutShort,
                  Uninstalls, BootedOut, AllGone, life
    <3> QED  BY <1>3, <2>1, <3>1, <3>2, <3>3, <3>4, <3>5, <3>6 DEF PNext
  <2> QED  BY <2>2, <2>3, <2>4
<1>4. CASE UNCHANGED <<allvars, history>>
  BY <1>4 DEF allvars, life, history
<1> QED  BY <1>1, <1>2, <1>3, <1>4

(* However lives ended, an asker in the one going on is handed its run's   *)
(* recording under the name it asked for, and the one of the run before it *)
(* under the other, each where that run recorded and not otherwise.        *)
THEOREM RecordingsAreNamed == HSpec => []FilesNameTheirRun
<1>1. HInit => NameInv
  BY DEF HInit, PInit, NameInv
<1>2. NameInv => FilesNameTheirRun
  <2> SUFFICES ASSUME NameInv PROVE FilesNameTheirRun
    OBVIOUS
  <2>1. Answer[1] = live /\ Answer[2] = kept
    BY DEF Answer
  <2>2. Files = {<<i, Answer[i]>> : i \in {i \in 1..2 : Answer[i] # "Nothing"}}
    BY DEF Files
  <2>3. \A x : x \in Files <=> \/ live # "Nothing" /\ x = <<1, live>>
                               \/ kept # "Nothing" /\ x = <<2, kept>>
    BY <2>1, <2>2
  <2>4. \A x : x \in {<<1, "This">> : w \in {wrote} \cap {TRUE}} <=> wrote /\ x = <<1, "This">>
    <3>1. CASE wrote
      BY <3>1
    <3>2. CASE ~wrote
      BY <3>2
    <3> QED  BY <3>1, <3>2
  <2>5. \A x : x \in {<<2, "Before">> : b \in {before} \cap {TRUE}} <=> before /\ x = <<2, "Before">>
    <3>1. CASE before
      BY <3>1
    <3>2. CASE ~before
      BY <3>2
    <3> QED  BY <3>1, <3>2
  <2>6. \A x : x \in Files <=> x \in {<<1, "This">> : w \in {wrote} \cap {TRUE}}
                                     \cup {<<2, "Before">> : b \in {before} \cap {TRUE}}
    BY <2>3, <2>4, <2>5 DEF NameInv
  <2> QED  BY <2>6 DEF FilesNameTheirRun
<1> QED  BY <1>1, <1>2, NameStep, PTL DEF HSpec
=============================================================================
