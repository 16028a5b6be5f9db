----------------------------- MODULE Processes ------------------------------
(***************************************************************************)
(* The processes of the converting machine over many lives: launchd, which *)
(* starts the supervisor again however it ended; the supervisor, which is  *)
(* Watchdog and, at its start, puts the recordings of two runs in order    *)
(* (bin-watchdog/src/unix.rs); the run, which looks at the control file    *)
(* before it does anything else (bin-macos/src/main.rs); whoever switches  *)
(* converting off and on by that file; and the installer, which replaces   *)
(* the programs under all of them (bin-macos/src/install.rs).              *)
(*                                                                         *)
(* A recording is named by whose it is, seen from the life going on now:   *)
(* "This" run's, the one "Before" it, an "Older" one's, or "Nothing".      *)
(***************************************************************************)
EXTENDS Watchdog, Sequences

CONSTANT Faults  \* how often something outside the code goes wrong: a bound
                 \* of the model
ASSUME FaultsAssumption == Faults \in Nat

VARIABLES
  off,      \* the control file is there
  job,      \* launchd has the job
  run,      \* how far the run has come
  live,     \* the recording the run writes
  kept,     \* the recording put aside
  install,  \* how far the installer is
  copied,   \* how many of the programs on disk are the new ones
  running,  \* how many of them were when this life was started
  faults

world == <<off, job, install, copied, faults>>
life == <<run, live, kept, running>>
allvars == <<vars, world, life>>

Programs == <<"favjit", "favjit-watchdog", "favjit-menu">>
RunStage == {"None", "Starting", "Off", "Converting"}
Alive == phase \notin {"Killed", "Ended"}

Install == {"No", "Copying", "Enlisting", "Done", "Cut", "Removed"}

-----------------------------------------------------------------------------
(* launchd starts the supervisor, whatever it ended with (KeepAlive), and  *)
(* the supervisor moves the recording of the run before aside, leaves      *)
(* nothing in its place and only then starts the next run.                 *)
Aged(recording) ==
  CASE recording = "This" -> "Before"
    [] recording = "Before" -> "Older"
    [] OTHER -> recording
NotForgotten ==                                \* mutant
  /\ kept' = Aged(live)
  /\ live' = Aged(live)
PutAside ==
  /\ kept' = Aged(live)
  /\ live' = "Nothing"

(* Watchdog's Init, of the state that is to come.                          *)
JustStarted ==
  /\ phase' = "Turn" /\ child' = "Busy" /\ due' = BeatWithin
  /\ left' = 0 /\ sinceAt' = 0 /\ toProbe' = 0 /\ silent' = 0
  /\ probes' = 0 /\ beats' = 0

OnlyAfterAFailure == phase = "Killed"          \* mutant
HasEnded == ~Alive
Starts ==
  /\ job
  /\ HasEnded
  /\ PutAside
  /\ JustStarted
  /\ run' = "Starting"
  /\ running' = copied
  /\ UNCHANGED world

(* A process of the job goes, and with it the child it started: on the     *)
(* run's own account, or by a kill from outside that takes the supervisor  *)
(* and the rest of its process group.                                      *)
AllGone ==
  /\ phase' = "Killed"
  /\ child' = "Gone"
  /\ run' = "None"
  /\ left' = 0 /\ sinceAt' = 0 /\ toProbe' = 0 /\ silent' = 0
  /\ probes' = 0 /\ beats' = 0 /\ due' = 0
  /\ running' = 0

Fails == faults < Faults /\ faults' = faults + 1

SupervisorKilled ==
  /\ Alive
  /\ Fails
  /\ AllGone
  /\ UNCHANGED <<off, job, install, copied, live, kept>>

(* The recordings are memory and go with the machine; the control file and *)
(* the programs stay, and launchd reads the job from its list again.       *)
Reboots ==
  /\ Fails
  /\ AllGone
  /\ live' = "Nothing"
  /\ kept' = "Nothing"
  /\ job' = (install # "Removed")
  /\ install' = IF install \in {"Copying", "Enlisting"} THEN "Cut" ELSE install
  /\ UNCHANGED <<off, copied>>

-----------------------------------------------------------------------------
(* The run.                                                                *)

RunUnmoved == UNCHANGED <<live, kept, running, world>>

(* Before anything else, the control file.  A run that finds itself off    *)
(* waits, and says nothing to the supervisor meanwhile: what beats and     *)
(* answers probes is made after the wait.                                  *)
FoundOn == ~off
LooksAtTheFile ==
  /\ run = "Starting"
  /\ child = "Busy"
  /\ \/ /\ FoundOn
        /\ run' = "Converting"
        /\ live' = "This"
        /\ UNCHANGED <<vars, kept, running, world>>
     \/ /\ ~FoundOn
        /\ run' = "Off"
        /\ child' = "Wedged"
        /\ due' = 0
        /\ SupervisorUnmoved
        /\ UNCHANGED <<probes, beats>>
        /\ RunUnmoved

(* The wait ends with the process: asked to stop, or switched on again,    *)
(* which the next run starts from.                                         *)
WaitIsOver == ~off \/ phase = "Ending"
StopsWaiting ==
  /\ run = "Off"
  /\ WaitIsOver
  /\ run' = "None"
  /\ child' = "Gone"
  /\ UNCHANGED due
  /\ SupervisorUnmoved
  /\ UNCHANGED <<probes, beats>>
  /\ RunUnmoved

(* A converting run that comes round finds it was switched off, or asked   *)
(* to stop, and gives the keyboards back by ending.                        *)
OnlyTheTerm == phase = "Ending"                \* mutant
ToldToStop == off \/ phase = "Ending"
GivesThemBack ==
  /\ run = "Converting"
  /\ child \in {"Idle", "Busy"}
  /\ ToldToStop
  /\ run' = "None"
  /\ child' = "Gone"
  /\ due' = 0
  /\ SupervisorUnmoved
  /\ UNCHANGED <<probes, beats>>
  /\ RunUnmoved

Converts ==
  /\ run = "Converting"
  /\ TakesUp \/ Beats
  /\ UNCHANGED <<life, world>>

(* The output or the link it served went, a start that found no output, a  *)
(* crash; or it stops coming round and goes on holding what it holds.  Or  *)
(* the supervisor is not scheduled for a while.                            *)
GoesWrong ==
  /\ Fails
  /\ \/ Goes /\ run' = "None"
     \/ Wedges /\ UNCHANGED run
     \/ Dozes /\ UNCHANGED run
  /\ UNCHANGED <<live, kept, running, off, job, install, copied>>

-----------------------------------------------------------------------------
(* The supervisor is Watchdog's, on a machine that can ask.                *)
Supervises ==
  \/ /\ \/ FindsItEnded
        \/ \E asked \in BOOLEAN : Turn(asked)
        \/ HandedOver
        \/ \E heard \in BOOLEAN : Wakes(heard, TRUE)
     /\ UNCHANGED <<life, world>>
  \/ /\ EndIt
     /\ run' = "None"
     /\ RunUnmoved

(* What it writes to whoever asks, and what is made of that: the first     *)
(* recording under the name asked for, the second under that name and      *)
(* ".previous", and one of nothing not at all.                             *)
Answer == <<live, kept>>
NamedAfterDropping ==                          \* mutant
  LET said == SelectSeq(Answer, LAMBDA each : each # "Nothing")
  IN  {<<i, said[i]>> : i \in DOMAIN said}
Files == {<<i, Answer[i]>> : i \in {i \in 1..2 : Answer[i] # "Nothing"}}

-----------------------------------------------------------------------------
(* The menu, or a command: the file is written or taken away.              *)
Switches ==
  /\ off' = ~off
  /\ UNCHANGED <<vars, life, job, install, copied, faults>>

-----------------------------------------------------------------------------
(* The installer.  It stops the job before it replaces anything; each      *)
(* program is put in place whole, one after the other; and the job is      *)
(* started when all of it is there.  A step that fails ends it.            *)

LeftRunning == UNCHANGED <<job, vars, life>>   \* mutant
BootedOut ==
  /\ job' = FALSE
  /\ AllGone
  /\ UNCHANGED <<live, kept>>
BeginsInstalling ==
  /\ install \in {"No", "Cut"}
  /\ BootedOut
  /\ install' = "Copying"
  /\ UNCHANGED <<off, copied, faults>>

MoreToCopy == copied < Len(Programs)
PutsInPlace ==
  /\ install = "Copying"
  /\ MoreToCopy
  /\ copied' = copied + 1
  /\ UNCHANGED <<vars, life, off, job, install, faults>>

AllInPlace == copied = Len(Programs)
Enlists ==
  /\ install = "Copying"
  /\ AllInPlace
  /\ install' = "Enlisting"
  /\ UNCHANGED <<vars, life, off, job, copied, faults>>

Bootstraps ==
  /\ install = "Enlisting"
  /\ install' = "Done"
  /\ job' = TRUE
  /\ UNCHANGED <<vars, life, off, copied, faults>>

CutShort ==
  /\ install \in {"Copying", "Enlisting"}
  /\ install' = "Cut"
  /\ UNCHANGED <<vars, life, off, job, copied, faults>>

Uninstalls ==
  /\ install \in {"No", "Done", "Cut"}
  /\ BootedOut
  /\ install' = "Removed"
  /\ copied' = 0
  /\ UNCHANGED <<off, faults>>

Installs ==
  \/ BeginsInstalling
  \/ PutsInPlace
  \/ Enlists
  \/ Bootstraps
  \/ CutShort
  \/ Uninstalls

-----------------------------------------------------------------------------
(* A machine that has just come up with the job in place.                  *)
PInit ==
  /\ phase = "Killed" /\ child = "Gone" /\ run = "None"
  /\ left = 0 /\ sinceAt = 0 /\ toProbe = 0 /\ silent = 0
  /\ probes = 0 /\ beats = 0 /\ due = 0
  /\ off \in BOOLEAN
  /\ job = TRUE
  /\ live = "Nothing" /\ kept = "Nothing"
  /\ install = "No" /\ copied = 0 /\ running = 0
  /\ faults = 0

Clock == Tick /\ UNCHANGED <<life, world>>

PNext ==
  \/ Starts
  \/ SupervisorKilled
  \/ Reboots
  \/ LooksAtTheFile
  \/ StopsWaiting
  \/ GivesThemBack
  \/ Converts
  \/ GoesWrong
  \/ Supervises
  \/ Switches
  \/ Installs
  \/ Clock

(* launchd keeps the job alive, both processes are scheduled and the clock *)
(* runs.  Nothing is assumed of whoever switches it, of the installer, or  *)
(* of what fails.                                                          *)
Scheduled ==
  /\ WF_allvars(Starts) /\ WF_allvars(Supervises) /\ WF_allvars(Clock)
  /\ WF_allvars(LooksAtTheFile) /\ WF_allvars(StopsWaiting)
  /\ WF_allvars(GivesThemBack) /\ WF_allvars(Converts)

-----------------------------------------------------------------------------
(* Every variable has its type, the supervisor's own apart.                *)
ProcessesTypeOK ==
  /\ off \in BOOLEAN /\ job \in BOOLEAN
  /\ run \in RunStage
  /\ {live, kept} \subseteq {"Nothing", "This", "Before", "Older"}
  /\ install \in Install
  /\ {copied, running} \subseteq 0..Len(Programs)
  /\ faults \in 0..Faults

(* Programs of two installs never run together, except where an install    *)
(* was cut short and the machine started again with what was there.        *)
OneVersion ==
  ProcessesTypeOK /\ (Alive /\ running \notin {0, Len(Programs)} => install = "Cut")

(* Switched off, the keyboards are the machine's own before long, by the   *)
(* run's own end or by its supervisor's hand; switched on, it converts     *)
(* again, whatever the life before ended of.  A run that waits to be       *)
(* switched on says nothing meanwhile, and is ended by its supervisor      *)
(* however long it stays off.                                              *)
OffGivesThemBack ==
  /\ off ~> (~off \/ run # "Converting")
  /\ ~off /\ job ~> (off \/ ~job \/ run = "Converting")
  /\ run = "Off" ~> run # "Off"
=============================================================================
