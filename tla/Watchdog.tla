------------------------------ MODULE Watchdog ------------------------------
(***************************************************************************)
(* The supervising process (engine/src/watchdog.rs with the channel of     *)
(* bin-watchdog/src/beats.rs) and the run it supervises, over discrete     *)
(* time.  The run is what the supervisor may assume of it: asked, it       *)
(* answers within BeatWithin, and whatever it takes up it beats after.     *)
(* It may wedge or end at any moment.                                      *)
(*                                                                         *)
(* Every moment is relative: how long ago the last beat was read, how far  *)
(* off the next probe is, what is left of a wait.  Time passes only in     *)
(* Tick, and a call that does not wait takes none.                         *)
(***************************************************************************)
EXTENDS Naturals

CONSTANTS
  Silence,     \* how long the run may go without reporting
  ProbeEvery,  \* how often to ask
  Grace,       \* how long it gets to stop on its own
  BeatWithin,  \* the longest the run may take over one thing
  HandOver,    \* the longest one asker may take to read the recording: the
               \* code bounds each write of it, and not how many they are
  Stall,       \* how late the supervisor may be for the end of a wait, where it
               \* is not scheduled: a bound of the model
  Arrivals,    \* beats read from the pipe and not yet taken, which the code
               \* does not bound
  Pipe         \* probes waiting for the run, which takes up what is there
               \* together: how far the model counts them

ASSUME SilenceAssumption == Silence \in Nat
ASSUME ProbeEveryAssumption == ProbeEvery \in Nat \ {0}
ASSUME GraceAssumption == Grace \in Nat
ASSUME BeatWithinAssumption == BeatWithin \in Nat
ASSUME HandOverAssumption == HandOver \in Nat
ASSUME StallAssumption == Stall \in Nat
ASSUME ArrivalsAssumption == Arrivals \in Nat \ {0}
ASSUME PipeAssumption == Pipe \in Nat \ {0}

VARIABLES
  phase,    \* what the supervisor is doing
  left,     \* what is left of the wait, the hand-over or the grace; asleep,
            \* of the wait and of how late it may end
  sinceAt,  \* how long ago the moment it last read the clock was
  toProbe,  \* how far off the next probe was at that moment
  silent,   \* how long ago the last beat it read was
  probes,   \* probes sent and not yet taken up by the run
  beats,    \* beats that have arrived and it has not read
  child,    \* what the run is doing
  due       \* how long the run still has until its next beat

vars == <<phase, left, sinceAt, toProbe, silent, probes, beats, child, due>>

(* Turn: at the top of its loop.  Waiting: for a heartbeat.  Asleep: not    *)
(* scheduled while it waits.  HandingOver: writing the recording to whoever *)
(* asked.  Ending: asked the run to stop.                                  *)
Phase == {"Turn", "Waiting", "Asleep", "HandingOver", "Ending", "Killed", "Ended"}
Child == {"Idle", "Busy", "Wedged", "Gone"}
Supervising == phase \in {"Turn", "Waiting", "Asleep", "HandingOver"}

(* The run has just been started and has something to do before its first  *)
(* beat; the first probe is due at once.                                   *)
Init ==
  /\ phase = "Turn"
  /\ left = 0
  /\ sinceAt = 0
  /\ toProbe = 0
  /\ silent = 0
  /\ probes = 0
  /\ beats = 0
  /\ child = "Busy"
  /\ due = BeatWithin

-----------------------------------------------------------------------------
(* The run under supervision.                                              *)

SupervisorUnmoved == UNCHANGED <<phase, left, sinceAt, toProbe, silent>>

(* It takes up what is waiting for it, a probe or something of its own.    *)
TakesUp ==
  /\ child = "Idle"
  /\ probes' = 0
  /\ child' = "Busy"
  /\ due' \in 0..BeatWithin
  /\ SupervisorUnmoved
  /\ UNCHANGED beats

(* Its loop came round.  Beats unread together are read as one.            *)
Beats ==
  /\ child = "Busy"
  /\ child' = "Idle"
  /\ due' = 0
  /\ beats' = IF beats < Arrivals THEN beats + 1 ELSE beats
  /\ SupervisorUnmoved
  /\ UNCHANGED probes

Wedges ==
  /\ child \in {"Idle", "Busy"}
  /\ child' = "Wedged"
  /\ due' = 0
  /\ SupervisorUnmoved
  /\ UNCHANGED <<probes, beats>>

Goes ==
  /\ child \in {"Idle", "Busy"}
  /\ child' = "Gone"
  /\ due' = 0
  /\ SupervisorUnmoved
  /\ UNCHANGED <<probes, beats>>

-----------------------------------------------------------------------------
(* The supervisor.                                                         *)

HasExited == child = "Gone"
FindsItEnded ==
  /\ phase = "Turn"
  /\ HasExited
  /\ phase' = "Ended"
  /\ UNCHANGED <<left, sinceAt, toProbe, silent, probes, beats, child, due>>

(* The rest of a turn: a probe on the clock and not once per turn, then    *)
(* the recording to whoever asked for it, then the wait, which is bounded  *)
(* by the next probe.                                                      *)
OneMoreProbe == IF probes < Pipe THEN probes + 1 ELSE probes
Probed ==
  IF toProbe = 0 THEN probes' = OneMoreProbe /\ toProbe' = ProbeEvery
  ELSE UNCHANGED <<probes, toProbe>>
Turn(asked) ==
  /\ phase = "Turn"
  /\ ~HasExited
  /\ Probed
  /\ IF asked THEN phase' = "HandingOver" /\ left' = HandOver
     ELSE phase' = "Waiting" /\ left' = toProbe'
  /\ UNCHANGED <<sinceAt, silent, beats, child, due>>

(* The wait was going to be until the next probe, reckoned from a moment   *)
(* that is older by what the hand-over took.                               *)
WaitsOutTheSilence == Silence                  \* mutant
WaitLeft == toProbe
HandedOver ==
  /\ phase = "HandingOver"
  /\ phase' = "Waiting"
  /\ left' = WaitLeft
  /\ UNCHANGED <<sinceAt, toProbe, silent, probes, beats, child, due>>

(* It is not scheduled for a while, and reads no beat meanwhile.           *)
Dozes ==
  /\ phase = "Waiting"
  /\ phase' = "Asleep"
  /\ left' = left + Stall
  /\ UNCHANGED <<sinceAt, toProbe, silent, probes, beats, child, due>>

(* Where the machine has nothing to ask the run with, there is no grace.   *)
GraceFor(asks) == IF asks THEN Grace ELSE 0

(* The end of a wait: a beat that has arrived, or its time.  The beat is   *)
(* taken to be as old as the reading of it, and a silence as long as the   *)
(* bound ends the run, with or without a way to ask it first.  Late for    *)
(* the end, it may find the wait over before its reading thread has passed *)
(* on a beat that is in the pipe.                                          *)
BeatUnread == beats > 0
WaitIsUp == IF phase = "Asleep" THEN left <= Stall ELSE ~BeatUnread /\ left = 0
SilentRegardless(heard) == silent              \* mutant: a beat goes unheard
SilentBy(heard) == IF heard THEN 0 ELSE silent
Wakes(heard, asks) ==
  /\ phase \in {"Waiting", "Asleep"}
  /\ IF heard THEN BeatUnread ELSE WaitIsUp
  /\ beats' = IF heard THEN beats - 1 ELSE beats
  /\ silent' = SilentBy(heard)
  /\ sinceAt' = 0
  /\ toProbe' = IF toProbe > sinceAt THEN toProbe - sinceAt ELSE 0
  /\ IF SilentBy(heard) < Silence THEN phase' = "Turn" /\ left' = 0
     ELSE phase' = "Ending" /\ left' = GraceFor(asks)
  /\ UNCHANGED <<probes, child, due>>

(* The grace is over, and the run is stopped where it is.                  *)
IsKilled == child' = "Gone" /\ due' = 0
EndIt ==
  /\ phase = "Ending"
  /\ left = 0
  /\ phase' = "Killed"
  /\ IsKilled
  /\ UNCHANGED <<left, sinceAt, toProbe, silent, probes, beats>>

-----------------------------------------------------------------------------
(* Time passes while the supervisor waits and nothing is due: a run at     *)
(* work keeps its promise, and an idle one takes up a probe as it comes.   *)
Tick ==
  /\ phase \in {"Waiting", "Asleep", "HandingOver", "Ending"}
  /\ left > 0
  /\ phase = "Waiting" => ~BeatUnread
  /\ child = "Busy" => due > 0
  /\ child = "Idle" => probes = 0
  /\ left' = left - 1
  /\ sinceAt' = sinceAt + 1
  /\ silent' = silent + 1
  /\ due' = IF child = "Busy" THEN due - 1 ELSE due
  /\ UNCHANGED <<phase, toProbe, probes, beats, child>>

Supervisor ==
  \/ FindsItEnded
  \/ \E asked \in BOOLEAN : Turn(asked)
  \/ HandedOver
  \/ \E heard, asks \in BOOLEAN : Wakes(heard, asks)
  \/ EndIt

Run ==
  \/ TakesUp
  \/ Beats
  \/ Wedges
  \/ Goes

Next == Supervisor \/ Dozes \/ Run \/ Tick

(* The supervisor is scheduled, and the clock runs.  Nothing is assumed of *)
(* the run, and nobody asks for the recording for ever.                    *)
Spec == Init /\ [][Next]_vars /\ WF_vars(Supervisor) /\ WF_vars(Tick)

-----------------------------------------------------------------------------
(* Every variable has its type.                                            *)
TypeOK ==
  /\ phase \in Phase
  /\ left \in Nat
  /\ sinceAt \in Nat
  /\ toProbe \in 0..ProbeEvery
  /\ silent \in Nat
  /\ probes \in 0..Pipe
  /\ beats \in 0..Arrivals
  /\ child \in Child
  /\ due \in 0..BeatWithin

(* However the run behaves, and whoever asks for the recording meanwhile,  *)
(* the keyboards it holds are back within the silence allowed, one probe   *)
(* interval, one hand-over, what the supervisor was late by and the grace  *)
(* (ADR-0008).                                                             *)
EndedInTime ==
  phase # "Ended" /\ phase # "Killed" =>
    silent <= Silence + ProbeEvery + HandOver + Stall + Grace

(* A run that keeps its promise is never ended: "a supervisor allowing less *)
(* than it ends a run that is working", which is why the silence is twice  *)
(* the promise (bin-watchdog/src/main.rs).                                 *)
WorkingIsLeftAlone == phase = "Ending" => child \in {"Wedged", "Gone"}
=============================================================================
