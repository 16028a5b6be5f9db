---------------------------- MODULE MCProcesses -----------------------------
(***************************************************************************)
(* The processes of the converting machine in half seconds: the code's own *)
(* numbers are a silence of 8, a beat within 4, a write of a recording     *)
(* within 4, and a probe interval and a grace that are under one.  What is *)
(* added remembers which lives wrote a recording, and how much of a        *)
(* silence passed while the supervisor was not there to hear a beat.       *)
(***************************************************************************)
EXTENDS Processes

VARIABLES
  wrote,       \* this life's run has begun to record
  before,      \* the run of the life before it had
  heldUp       \* since the last beat was read, the time it spent handing a
               \* recording over or asleep

history == <<wrote, before, heldUp>>

HInit ==
  /\ PInit
  /\ wrote = FALSE
  /\ before = FALSE
  /\ heldUp = 0

(* Counted no further than it takes to be too long: what is left of the     *)
(* silence then is less than a probe interval and the run's promise.       *)
HeldUpTooLong == heldUp + ProbeEvery + BeatWithin >= Silence
HeardOrHeldUp ==
  heldUp' = IF silent' = 0 THEN 0
            ELSE IF silent' > silent /\ ~HeldUpTooLong /\ phase \in {"HandingOver", "Asleep"}
              THEN heldUp + 1
            ELSE heldUp
HNext ==
  /\ PNext
  /\ IF Reboots THEN wrote' = FALSE /\ before' = FALSE
     ELSE IF Starts THEN wrote' = FALSE /\ before' = wrote
     ELSE wrote' = (wrote \/ run' = "Converting") /\ UNCHANGED before
  /\ HeardOrHeldUp
HSpec == HInit /\ [][HNext]_<<allvars, history>> /\ Scheduled

(* However a life ended, what an asker gets in the next one is named for   *)
(* the run it is of: the run going on, if it has recorded, and the one     *)
(* before it, if that one did.                                             *)
FilesNameTheirRun ==
  Alive => Files = {<<1, "This">> : w \in {wrote} \cap {TRUE}}
                   \cup {<<2, "Before">> : b \in {before} \cap {TRUE}}

(* A run that keeps its promise is ended only where its supervisor was not  *)
(* there to hear it: while it handed a recording to a slow reader, or was  *)
(* asleep, for longer than a probe interval and the run's promise leave of *)
(* the silence.  Whatever else is ended has wedged, or is gone already.    *)
EndedForCause == phase = "Ending" => child \in {"Wedged", "Gone"} \/ HeldUpTooLong
=============================================================================
