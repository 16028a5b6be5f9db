------------------------------- MODULE Output -------------------------------
(***************************************************************************)
(* The connection converted input goes out through: bring_up_the_output in *)
(* engine/src/sink.rs, the reading and answering in engine/src/output.rs,  *)
(* the two ends host-macos/src/vhid.rs makes of one socket, and the        *)
(* service at the other end of it as host-sim stands in for it.            *)
(*                                                                         *)
(* Time is counted in seconds and passes only while a read waits: what the *)
(* loops do in between takes none of it.  A frame is on the wire in pieces: *)
(* two of its length and one of its body, where it has one.                *)
(***************************************************************************)
EXTENDS Naturals, Sequences, SequencesExt

CONSTANTS
  BeatEvery,    \* OUTPUT_HEARTBEAT
  Shortest,     \* THE_SHORTEST_READ, OUTPUT_READY_POLL
  Wait,         \* OUTPUT_WAIT
  BeatWithin,   \* supervision: BEAT_WITHIN
  ServiceBeats, \* how often the service says it is there
  Silence,      \* how long the service hears nothing before it closes
  Sayings,      \* a bound of the model: frames the service says besides its beats
  Room          \* a bound of the model: pieces on the wire when it says another

ASSUME OutputAssumption ==
  /\ BeatEvery \in Nat /\ Shortest \in Nat \ {0} /\ Wait \in Nat /\ BeatWithin \in Nat
  /\ Shortest <= BeatEvery
  /\ ServiceBeats \in Nat /\ Silence \in Nat /\ Sayings \in Nat /\ Room \in Nat

Device == {"keyboard", "pointing"}

VARIABLES
  phase,      \* of the loop: reaching, waiting for the devices, serving, over
  status,     \* what the service has said about itself, as this end has it
  got,        \* the pieces of the frame being read
  bound,      \* what each read of it is given
  left,       \* what is left of the read going on
  waited,     \* since the devices were asked for
  beaten,     \* since the supervisor was beaten at, while waiting
  since,      \* since this end last beat at the service
  read,       \* what the last read came to: a whole frame, or none
  owed,       \* requests and health checks read and not answered
  wire,       \* what the service has written and this end has not read
  open,       \* whether the service holds the connection
  rest,       \* what the service has still to write of the frame it stopped in
  paused,     \* whether it stopped in one since this end last beat at it
  devicesUp,  \* the devices the service has up
  said,       \* how many frames it has said
  heard,      \* how long since it heard anything
  beat,       \* how long since it beat
  torn        \* whether a report stopped part of the way out

service == <<rest, devicesUp, said>>
clocks == <<waited, beaten, since, heard, beat>>
outputVars == <<phase, status, got, bound, left, read, owed, wire, open, paused, service, clocks, torn>>
hung == rest # <<>>

NoFrame == [kind |-> "None", pairs |-> {}, up |-> {}, id |-> 0]
Frame(kind, pairs, up) == [kind |-> kind, pairs |-> pairs, up |-> up, id |-> said]
Pieces(f) == [i \in 1..(IF f.kind = "Empty" THEN 2 ELSE 3) |-> [of |-> f, at |-> i]]
Header == 2

OutputInit ==
  /\ phase = "Reach"
  /\ status = {}
  /\ got = <<>> /\ bound = 0 /\ left = 0
  /\ waited = 0 /\ beaten = 0 /\ since = 0
  /\ read = NoFrame /\ owed = <<>>
  /\ wire = <<>> /\ open = FALSE /\ rest = <<>> /\ paused = FALSE
  /\ devicesUp = {} /\ said = 0
  /\ heard = 0 /\ beat = 0
  /\ torn = FALSE

-----------------------------------------------------------------------------
(* The service.  What it hears of a stream a report stopped part of the    *)
(* way out on is no frame.                                                 *)
Hears == heard' = IF torn THEN heard ELSE 0

Says(f) ==
  /\ open /\ ~hung /\ phase # "Over"
  /\ wire' = wire \o Pieces(f)

MaySay == said < Sayings /\ Len(wire) <= Room

(* A device comes up or goes: said in a pair for each that changed, in     *)
(* something that wants an answer or in something that does not.           *)
SaysHowItIs ==
  /\ MaySay
  /\ \E up \in SUBSET Device, kind \in {"Request", "Response"} :
       /\ \E told \in SUBSET Device :
            /\ \A d \in Device : (d \in up) # (d \in devicesUp) => d \in told
            /\ Says(Frame(kind, {[device |-> d, up |-> d \in up] : d \in told}, up))
       /\ devicesUp' = up
  /\ said' = said + 1
  /\ UNCHANGED <<phase, status, got, bound, left, read, owed, open, paused, rest, clocks, torn>>

(* Something with no body, or a question about the connection itself.      *)
SaysSomethingElse ==
  /\ MaySay
  /\ \E kind \in {"HealthCheck", "Empty"} : Says(Frame(kind, {}, devicesUp))
  /\ said' = said + 1
  /\ UNCHANGED <<phase, status, got, bound, left, read, owed, open, paused, rest, devicesUp, clocks, torn>>

BeatsAtTheRun ==
  /\ beat >= ServiceBeats
  /\ Says(Frame("Beat", {}, devicesUp))
  /\ beat' = 0
  /\ UNCHANGED <<phase, status, got, bound, left, read, owed, open, paused, service, waited, beaten,
                 since, heard, torn>>

(* It stops with part of a frame written, and writes the rest when it     *)
(* does, which need not be ever.                                           *)
StopsHalfway ==
  /\ MaySay /\ open /\ ~hung /\ phase # "Over"
  /\ \E n \in 1..Header :
       LET pieces == Pieces(Frame("Beat", {}, devicesUp))
       IN /\ wire' = wire \o SubSeq(pieces, 1, n)
          /\ rest' = SubSeq(pieces, n + 1, Len(pieces))
  /\ said' = said + 1 /\ paused' = TRUE
  /\ UNCHANGED <<phase, status, got, bound, left, read, owed, open, devicesUp, clocks, torn>>

GoesOn ==
  /\ open /\ hung /\ phase # "Over"
  /\ \E n \in 1..Len(rest) :
       /\ wire' = wire \o SubSeq(rest, 1, n)
       /\ rest' = SubSeq(rest, n + 1, Len(rest))
  /\ UNCHANGED <<phase, status, got, bound, left, read, owed, open, paused, devicesUp, said, clocks, torn>>

(* It closes a connection it has heard nothing on, and whenever else it    *)
(* has a reason of its own.                                                *)
Closes ==
  /\ open /\ phase # "Over"
  /\ open' = FALSE
  /\ UNCHANGED <<phase, status, got, bound, left, read, owed, wire, paused, service, clocks, torn>>

-----------------------------------------------------------------------------
(* Bringing it up: the socket, its bounds and its two ends, and the two    *)
(* devices asked for on it.  Then a beat at the supervisor, and the wait.  *)
ReachTheOutput ==
  /\ phase = "Reach"
  /\ \/ /\ phase' = "Wait"
        /\ open' = TRUE
        /\ heard' = 0 /\ beat' = 0 /\ waited' = 0 /\ beaten' = 0
        /\ bound' = Shortest /\ left' = Shortest
     \/ /\ phase' = "Over"
        /\ UNCHANGED <<open, heard, beat, waited, beaten, bound, left>>
  /\ UNCHANGED <<status, got, read, owed, wire, paused, service, since, torn>>

(* What is left of an interval, and never nothing.                         *)
TheWholeInterval(interval, gone) == interval   \* mutant: a read is given all of it
LeftOf(interval, gone) == IF gone + Shortest >= interval THEN Shortest ELSE interval - gone

(* A frame takes as many reads as it takes, each with the whole bound.     *)
StartAFill == got' = <<>> /\ left' = bound'

Ready(s) == s = Device
ToldOnly(s, f) ==   \* mutant: what came up once is up for good
  IF f.kind \in {"Request", "Response"} THEN s \cup {p.device : p \in {q \in f.pairs : q.up}} ELSE s
Told(s, f) ==
  IF f.kind \in {"Request", "Response"}
  THEN {d \in Device : IF \E p \in f.pairs : p.device = d THEN [device |-> d, up |-> TRUE] \in f.pairs
                       ELSE d \in s}
  ELSE s
AsksAnAnswer(f) == f.kind \in {"HealthCheck", "Request"}

WaitUnbeaten(s) ==   \* mutant: the supervisor is left to wait as well
  \/ /\ waited >= Wait
     /\ phase' = "Over" /\ status' = s
     /\ UNCHANGED <<got, bound, left, beaten, since>>
  \/ /\ waited < Wait /\ Ready(s)
     /\ \/ phase' = "Serve" /\ since' = 0
        \/ phase' = "Over" /\ UNCHANGED since
     /\ status' = {} /\ got' = <<>>
     /\ UNCHANGED <<bound, left, beaten>>
  \/ /\ waited < Wait /\ ~Ready(s)
     /\ status' = s
     /\ bound' = Shortest /\ StartAFill
     /\ UNCHANGED <<phase, since, beaten>>
(* The wait is over because it took too long, whatever came up by then;    *)
(* or, a beat behind it if one is due, has both devices (a loop is handed  *)
(* the connection, and the run the writer); or goes round once more.       *)
WaitGoesRound(s) ==
  \/ /\ waited >= Wait
     /\ phase' = "Over" /\ status' = s
     /\ UNCHANGED <<got, bound, left, beaten, since>>
  \/ /\ waited < Wait /\ Ready(s)
     /\ \/ phase' = "Serve" /\ since' = 0
        \/ phase' = "Over" /\ UNCHANGED since
     /\ beaten' = IF beaten >= BeatWithin THEN 0 ELSE beaten
     /\ status' = {} /\ got' = <<>>
     /\ UNCHANGED <<bound, left>>
  \/ /\ waited < Wait /\ ~Ready(s)
     /\ beaten' = IF beaten >= BeatWithin THEN 0 ELSE beaten
     /\ status' = s
     /\ bound' = Shortest /\ StartAFill
     /\ UNCHANGED <<phase, since>>

(* One turn of the serving loop up to its read: a beat when one is due, on *)
(* a clock of its own, and a read given what was left before it.           *)
ServeGoesRound(s) ==
  /\ status' = s
  /\ got' = <<>>
  /\ phase' = "Turn"
  /\ UNCHANGED <<bound, left, beaten, since>>

BeatIfItIsDue(due) ==
  IF due THEN since' = 0 /\ paused' = hung /\ Hears ELSE UNCHANGED <<since, paused, heard>>
DueWhenQuiet == since >= BeatEvery /\ read = NoFrame   \* mutant: not while the service talks
Due == since >= BeatEvery
Turn ==
  /\ phase \in {"Serve", "Turn"}
  /\ \/ /\ phase' = "Read"
        /\ BeatIfItIsDue(Due)
        /\ bound' = LeftOf(BeatEvery, since)
        /\ StartAFill
     \/ /\ phase' = "Over"
        /\ UNCHANGED <<since, paused, heard, bound, got, left>>
  /\ UNCHANGED <<status, read, owed, wire, open, service, waited, beaten, beat, torn>>

-----------------------------------------------------------------------------
(* One read: any of what is there, up to what was asked for.               *)
Reading == phase \in {"Wait", "Read"} /\ owed = <<>>
StillWanted == IF Len(got) < Header THEN Header - Len(got)
          ELSE Len(Pieces(got[1].of)) - Len(got)
WholeFrame(pieces) == pieces # <<>> /\ Len(pieces) >= Header /\ Len(pieces) = Len(Pieces(pieces[1].of))

GoesRound(s) == IF phase = "Wait" THEN WaitGoesRound(s) ELSE ServeGoesRound(s)

ReadSome ==
  /\ Reading /\ wire # <<>>
  /\ \E n \in 1..Len(wire) :
       LET pieces == got \o SubSeq(wire, 1, n)
           f == pieces[1].of
       IN /\ n <= StillWanted
          /\ wire' = SubSeq(wire, n + 1, Len(wire))
          /\ IF ~WholeFrame(pieces)
             THEN /\ got' = pieces /\ left' = bound
                  /\ UNCHANGED <<phase, status, bound, read, owed, beaten, since>>
             ELSE /\ read' = f
                  /\ IF AsksAnAnswer(f)
                     THEN /\ owed' = <<f>>
                          /\ status' = Told(status, f)
                          /\ UNCHANGED <<phase, got, bound, left, beaten, since>>
                     ELSE GoesRound(Told(status, f)) /\ UNCHANGED owed
  /\ UNCHANGED <<open, paused, service, waited, heard, beat, torn>>

(* What asks for an answer is answered with its own id before anything     *)
(* else is read; an answer that will not go ends the loop.                 *)
AnswerIt ==
  /\ owed # <<>>
  /\ owed' = <<>>
  /\ \/ GoesRound(status) /\ Hears
     \/ /\ phase' = "Over"
        /\ UNCHANGED <<status, got, bound, left, beaten, since, heard>>
  /\ UNCHANGED <<read, wire, open, paused, service, waited, beat, torn>>

(* The bound came round with nothing: quiet where a frame was to begin,    *)
(* and otherwise a frame in pieces, which is not read on from.             *)
ReadOn ==   \* mutant: a frame in pieces is taken for a quiet one
  /\ Reading /\ wire = <<>> /\ open /\ left = 0
  /\ GoesRound(status)
  /\ UNCHANGED <<read, owed, wire, open, paused, service, waited, heard, beat, torn>>
ReadNothing ==
  /\ Reading /\ wire = <<>> /\ open /\ left = 0
  /\ read' = NoFrame
  /\ \/ got = <<>> /\ GoesRound(status)
     \/ /\ got # <<>>
        /\ phase' = "Over"
        /\ UNCHANGED <<status, got, bound, left, beaten, since>>
  /\ UNCHANGED <<owed, wire, open, paused, service, waited, heard, beat, torn>>

StaysGone ==   \* mutant: no bytes at all is taken for nothing yet
  /\ Reading /\ wire = <<>> /\ ~open
  /\ GoesRound(status)
  /\ UNCHANGED <<read, owed, wire, open, paused, service, waited, heard, beat, torn>>
ReadGone ==
  /\ Reading /\ wire = <<>> /\ ~open
  /\ phase' = "Over"
  /\ UNCHANGED <<status, got, bound, left, read, owed, wire, open, paused, service, clocks, torn>>

-----------------------------------------------------------------------------
(* The run posts a report on the other end while the loop serves.  One     *)
(* that will not go inside its bound is lost, or stops part of the way.    *)
Serving == phase \in {"Serve", "Turn", "Read"}
PostAReport ==
  /\ Serving /\ open
  /\ \/ Hears /\ UNCHANGED torn
     \/ torn' = TRUE /\ UNCHANGED heard
  /\ UNCHANGED <<phase, status, got, bound, left, read, owed, wire, open, paused, service, waited, beaten,
                 since, beat>>

(* A second passes in a read with nothing to take, if the service has      *)
(* nothing to do about it either.                                          *)
Tick ==
  /\ Reading /\ wire = <<>> /\ left > 0
  /\ open /\ heard < Silence /\ (hung \/ beat < ServiceBeats)
  /\ left' = left - 1
  /\ heard' = heard + 1
  /\ beat' = IF hung THEN beat ELSE beat + 1
  /\ IF phase = "Wait"
     THEN waited' = waited + 1 /\ beaten' = beaten + 1 /\ UNCHANGED since
     ELSE since' = since + 1 /\ UNCHANGED <<waited, beaten>>
  /\ UNCHANGED <<phase, status, got, bound, read, owed, wire, open, paused, service, torn>>

Service == SaysHowItIs \/ SaysSomethingElse \/ BeatsAtTheRun \/ StopsHalfway \/ GoesOn \/ Closes
Loop == ReachTheOutput \/ Turn \/ ReadSome \/ AnswerIt \/ ReadNothing \/ ReadGone

OutputNext == Service \/ Loop \/ PostAReport \/ Tick

(* The loop is a thread of its own and the clock goes on; the service owes *)
(* nothing but closing a connection it has heard nothing on.               *)
OutputSpec ==
  OutputInit /\ [][OutputNext]_outputVars /\ WF_outputVars(Loop) /\ WF_outputVars(Tick)
    /\ WF_outputVars(heard >= Silence /\ Closes) /\ WF_outputVars(BeatsAtTheRun)

-----------------------------------------------------------------------------
(* A read is never given nothing, which would be no bound at all.          *)
OutputTypeOK ==
  /\ phase \in {"Reach", "Wait", "Serve", "Turn", "Read", "Over"}
  /\ status \subseteq Device /\ devicesUp \subseteq Device
  /\ Reading => bound \in Shortest..BeatEvery
  /\ left \in 0..bound
  /\ since \in Nat /\ said \in 0..Sayings
  /\ Len(got) <= 2 /\ Len(owed) <= 1

FramesAreWhole == got # <<>> => got = SubSeq(Pieces(got[1].of), 1, Len(got))

(* What this end holds about the devices is what the service had when it   *)
(* wrote the last frame about them: one that went again is not waited for  *)
(* as if it were there, and no device is counted up that was not.  For a   *)
(* length is never taken out of the middle of a frame, however the pieces  *)
(* arrived and wherever a wait ended.                                      *)
StatusIsTheServices ==
  OutputTypeOK /\ FramesAreWhole /\ (phase = "Wait" /\ read # NoFrame => status = read.up)

HeldUp(by) == IF paused THEN 3 * by ELSE by

(* The service hears a beat as often as it was promised one, whatever it   *)
(* says meanwhile and however much of it there is to answer; a frame it    *)
(* stopped in holds the beat up by a bound more for each time it stopped.  *)
(* Waiting for the devices is no wedge either: the supervisor hears of the *)
(* run for as long as the wait goes on, and the wait ends.  So the service *)
(* closes for having heard nothing only where the devices took so long     *)
(* that the first beat was late, where it stopped in a frame itself, or    *)
(* where a report that could not be finished made the rest unreadable.     *)
BeatsInTime ==
  /\ Serving => since <= HeldUp(BeatEvery) + Shortest
  /\ phase = "Wait" => beaten <= BeatWithin + HeldUp(Shortest) /\ waited <= Wait + HeldUp(Shortest)
  /\ Serving /\ heard >= Silence => torn \/ paused \/ waited + BeatEvery + Shortest >= Silence

(* A service that closes, or stops in a frame it never finishes, is        *)
(* noticed: the wait for it does not last and it is not served for ever.   *)
GoneIsNoticed ==
  phase # "Reach" /\ (~open \/ hung) ~> phase = "Over" \/ (open /\ ~hung)
=============================================================================
