------------------------------ MODULE Serving ------------------------------
(***************************************************************************)
(* How a link comes up between two machines that have paired: the source   *)
(* looks, connects and shakes hands for as long as a person wants the      *)
(* keyboard over there (engine/src/source.rs relay), and the sink takes    *)
(* one connection at a time, each for as long as a silence lasts, and      *)
(* gives the listener up after a run of ones it could not use              *)
(* (engine/src/link.rs serve).                                             *)
(*                                                                         *)
(* What both read is what Pairing wrote.  Time goes by in the one length   *)
(* the source's waits all have, BEAT_WITHIN; what a machine does without   *)
(* waiting is done within it.  What crosses a link that is up is Link's.   *)
(***************************************************************************)
EXTENDS Pairing

CONSTANTS
  IDLE,       \* the silence the sink allows a peer, in the source's waits
  FAILURES,   \* the unusable connections in a row that end the serving
  Outages,    \* a bound of the model: times the network goes
  Scans       \* a bound of the model: connections of anybody else's

ASSUME ServingAssumption ==
  /\ IDLE \in Nat \ {0} /\ FAILURES \in Nat \ {0}
  /\ Outages \in Nat /\ Scans \in Nat

VARIABLES
  carrying,   \* whether the two runs are up, and with a pairing both ends spoke of
  knows,      \* whether the key the source pinned is the one the sink presents
  holds,      \* whether the sink's list holds the key the source presents
  driving,    \* whose the keyboard is to be
  attempt,    \* where the source is with its link
  left,       \* what is left of the wait it is in
  failed,     \* whether its last attempt failed
  backlog,    \* the connections the sink has not taken yet
  taken,      \* the one it has
  place,      \* where the sink is with that
  silent,     \* how long the sink has been reading nothing
  failures,   \* unusable connections in a row
  answered,   \* whether the sink's half of the handshake is on its way
  reachable,  \* whether the network is there
  outages, scans

runs == <<carrying, knows, holds>>
source == <<driving, attempt, left, failed>>
serve == <<taken, place, silent, failures>>
network == <<reachable, outages, scans>>
svars == <<runs, source, backlog, serve, answered, network>>

(* A connection is the source's own, one its end has let go of, or one     *)
(* whose end is gone without a word.                                       *)
Connection == {"Source", "LetGo", "Vanished"}

ServingInit ==
  /\ Init
  /\ carrying = "No" /\ knows = FALSE /\ holds = FALSE
  /\ driving = "Here" /\ attempt = "None" /\ left = 0 /\ failed = FALSE
  /\ backlog = <<>> /\ taken = "None" /\ place = "Accept" /\ silent = 0 /\ failures = 0
  /\ answered = FALSE
  /\ reachable = TRUE /\ outages = 0 /\ scans = 0

(* The converting run is up, and the forwarding one finds an identity and  *)
(* a pinned sink in its files.  What the programs that paired had in hand  *)
(* has gone with them.                                                     *)
ComeUp ==
  /\ carrying = "No"
  /\ at["Pair"] = "Off" /\ at["PairWith"] = "Off" /\ at["Convert"] = "Carrying"
  /\ {identity[Source], pinned} \subseteq Key
  /\ carrying' = IF BothPinned /\ excused = {} THEN "Paired" ELSE "Anyhow"
  /\ knows' = (pinned = mine["Convert"])
  /\ holds' = (identity[Source] \in Keys(list))
  /\ mine' = [p \in Process |-> IF at[p] = "Carrying" THEN mine[p] ELSE Nothing]
  /\ ended' = [m \in Machine |-> "NotYet"]
  /\ code' = [m \in Machine |-> 0]
  /\ conn' = "None" /\ up' = NoMessage /\ down' = NoMessage
  /\ shown' = 0 /\ deaths' = 0 /\ tries' = 0
  /\ served' = [c \in 1..Attempts |-> 0]
  /\ UNCHANGED <<files, at, secret, peer, knew, excused>>
  /\ UNCHANGED <<source, backlog, serve, answered, network>>

-----------------------------------------------------------------------------
(* The source.                                                             *)
InTouch == attempt = "Linked" /\ taken = "Source" /\ place = "Session"

AskForTheLink ==
  /\ carrying # "No"
  /\ driving = "Here"
  /\ driving' = "There"
  /\ UNCHANGED <<runs, attempt, left, failed, backlog, serve, answered, network>>

(* An ask to have it back is read off the stream, which nothing reads      *)
(* while a link is looked for; the session is kept.                        *)
AskForItBack ==
  /\ driving = "There" /\ attempt = "Linked"
  /\ driving' = "Here"
  /\ UNCHANGED <<runs, attempt, left, failed, backlog, serve, answered, network>>

Attempts1(where, wait, lost) ==
  /\ attempt' = where /\ left' = wait /\ failed' = lost
  /\ UNCHANGED <<runs, driving, serve, network>>

(* The pause goes between attempts and not in front of one.                *)
NeverPauses == FALSE                           \* mutant
Pauses == failed
LookAgain ==
  /\ driving = "There" /\ attempt = "None"
  /\ Attempts1(IF Pauses THEN "Pausing" ELSE "Looking", 1, failed)
  /\ UNCHANGED <<backlog, answered>>

PauseOver ==
  /\ attempt = "Pausing" /\ left = 0
  /\ Attempts1("Looking", 1, failed)
  /\ UNCHANGED <<backlog, answered>>

FindsIt ==
  /\ attempt = "Looking" /\ reachable /\ place # "Over"
  /\ Attempts1("Connecting", 1, FALSE)
  /\ UNCHANGED <<backlog, answered>>

FindsNothing ==
  /\ attempt = "Looking" /\ left = 0
  /\ ~(reachable /\ place # "Over")
  /\ Attempts1("None", 0, TRUE)
  /\ UNCHANGED <<backlog, answered>>

(* The machine the listener is on takes the connection, whether or not the *)
(* serving is there to; what the source sends first goes with it.          *)
Connects ==
  /\ attempt = "Connecting" /\ reachable /\ place # "Over"
  /\ Attempts1("Shaking", 1, failed)
  /\ backlog' = Append(backlog, "Source")
  /\ answered' = FALSE

CannotConnect ==
  /\ attempt = "Connecting" /\ (left = 0 \/ place = "Over")
  /\ ~(reachable /\ place # "Over")
  /\ Attempts1("None", 0, TRUE)
  /\ UNCHANGED <<backlog, answered>>

ShakesHands ==
  /\ attempt = "Shaking" /\ answered
  /\ Attempts1("Linked", 0, failed)
  /\ answered' = FALSE
  /\ UNCHANGED backlog

(* The connection is let go of: to the sink, one whose end has closed it.  *)
LetsGo(connections) ==
  [i \in DOMAIN connections |-> IF connections[i] = "Source" THEN "LetGo" ELSE connections[i]]
Closes ==
  /\ backlog' = LetsGo(backlog)
  /\ taken' = IF taken = "Source" THEN "LetGo" ELSE taken
  /\ UNCHANGED <<place, silent, failures>>

SinkHasIt == taken = "Source" \/ \E i \in DOMAIN backlog : backlog[i] = "Source"
HandshakeFails ==
  /\ attempt = "Shaking" /\ ~answered
  /\ left = 0 \/ (reachable /\ ~SinkHasIt)
  /\ attempt' = "None" /\ left' = 0 /\ failed' = TRUE
  /\ Closes
  /\ UNCHANGED <<runs, driving, answered, network>>

(* A send finds that the link has gone.                                    *)
FindsItGone ==
  /\ attempt = "Linked"
  /\ taken # "Source" \/ ~reachable
  /\ attempt' = "None"
  /\ Closes
  /\ UNCHANGED <<runs, driving, left, failed, answered, network>>

-----------------------------------------------------------------------------
(* The sink.                                                               *)
ServesOn == UNCHANGED <<runs, source, network>>

(* The next connection.  One whose end has closed it may be refused to the *)
(* accept, or refuse to be configured.                                     *)
Unusable(c) == c = "LetGo"
TakesOne ==
  /\ place = "Accept" /\ backlog # <<>>
  /\ backlog' = Tail(backlog)
  /\ taken' = Head(backlog)
  /\ failures' = 0
  /\ place' = "Handshake" /\ silent' = 0
  /\ UNCHANGED answered /\ ServesOn

OneIsEnough(n) == n >= 1                       \* mutant
TooMany(n) == n >= FAILURES
CannotTakeOne ==
  /\ place = "Accept" /\ backlog # <<>>
  /\ Unusable(Head(backlog))
  /\ backlog' = Tail(backlog)
  /\ failures' = failures + 1
  /\ place' = IF TooMany(failures + 1) THEN "Over" ELSE "Accept"
  /\ UNCHANGED <<taken, silent, answered>> /\ ServesOn

GivesUpOn ==
  /\ taken' = "None" /\ place' = "Accept" /\ silent' = 0
  /\ UNCHANGED failures

(* The source speaks first, and what it said is there or will not come.    *)
(* It is not for this end where another key was pinned; answered, it is    *)
(* let go of before a record is read where this end has not pinned it.     *)
Answers ==
  /\ place = "Handshake"
  /\ knows
  /\ taken = "Vanished" => silent = 0
  /\ answered' = (taken = "Source")
  /\ IF holds THEN place' = "Session" /\ silent' = 0 /\ UNCHANGED <<taken, failures>>
     ELSE GivesUpOn
  /\ UNCHANGED backlog /\ ServesOn

TooQuiet == silent = IDLE
HandshakeIncomplete ==
  /\ place = "Handshake"
  /\ ~knows \/ taken = "LetGo" \/ (taken = "Vanished" /\ TooQuiet)
  /\ GivesUpOn
  /\ UNCHANGED <<backlog, answered>> /\ ServesOn

(* A read that comes back with no record, whichever way.                   *)
SourceIsGone ==
  /\ place = "Session"
  /\ taken = "LetGo" \/ TooQuiet
  /\ GivesUpOn
  /\ UNCHANGED <<backlog, answered>> /\ ServesOn

-----------------------------------------------------------------------------
(* The network, and whoever else is on it.                                 *)
Vanishes(connections) ==
  [i \in DOMAIN connections |-> IF connections[i] = "Source" THEN "Vanished" ELSE connections[i]]

NetworkGoes ==
  /\ carrying # "No" /\ reachable /\ outages < Outages
  /\ reachable' = FALSE
  /\ outages' = outages + 1
  /\ backlog' = Vanishes(backlog)
  /\ taken' = IF taken = "Source" THEN "Vanished" ELSE taken
  /\ answered' = FALSE
  /\ UNCHANGED <<runs, source, place, silent, failures, scans>>

NetworkIsBack ==
  /\ ~reachable
  /\ reachable' = TRUE
  /\ UNCHANGED <<runs, source, backlog, serve, answered, outages, scans>>

(* One that connects and lets go at once, as a scan of the ports does.     *)
Scanned ==
  /\ carrying # "No" /\ reachable /\ place # "Over" /\ scans < Scans
  /\ scans' = scans + 1
  /\ backlog' = Append(backlog, "LetGo")
  /\ UNCHANGED <<runs, source, serve, answered, reachable, outages>>

-----------------------------------------------------------------------------
(* What does not wait is done before time goes by.                         *)
SourceIsDue ==
  \/ attempt = "None" /\ driving = "There"
  \/ attempt \in {"Pausing", "Looking", "Connecting", "Shaking"} /\ left = 0
  \/ attempt = "Connecting" /\ reachable
  \/ attempt = "Shaking" /\ (answered \/ (reachable /\ ~SinkHasIt))
SinkIsDue ==
  \/ place = "Accept" /\ backlog # <<>>
  \/ place \in {"Handshake", "Session"} /\ (taken = "LetGo" \/ TooQuiet)
  \/ place = "Handshake" /\ taken = "Source"

(* A linked source has spoken, or it has not.                              *)
TimePasses ==
  /\ carrying # "No" /\ ~SourceIsDue /\ ~SinkIsDue
  /\ left' = IF left > 0 THEN left - 1 ELSE 0
  /\ silent' \in IF place \in {"Accept", "Over"} THEN {0}
                 ELSE IF InTouch THEN {0, silent + 1} ELSE {silent + 1}
  /\ <<left, silent>>' # <<left, silent>>
  /\ UNCHANGED <<runs, driving, attempt, failed, backlog, taken, place, failures,
                 answered, network>>

Looks ==
  \/ LookAgain \/ PauseOver \/ FindsIt \/ FindsNothing \/ Connects \/ CannotConnect
  \/ ShakesHands \/ HandshakeFails
Serves == TakesOne \/ CannotTakeOne \/ Answers \/ HandshakeIncomplete \/ SourceIsGone

ServingNext ==
  \/ AskForTheLink \/ AskForItBack \/ FindsItGone
  \/ Looks \/ Serves
  \/ NetworkGoes \/ NetworkIsBack \/ Scanned \/ TimePasses

PairingOrServing ==
  \/ carrying = "No" /\ Next /\ UNCHANGED svars
  \/ ComeUp
  \/ ServingNext /\ UNCHANGED vars

(* Both runs go on and time goes by; the network need not come back, and   *)
(* nobody need ask for anything.                                           *)
ServingSpec ==
  /\ ServingInit /\ [][PairingOrServing]_<<vars, svars>>
  /\ WF_<<vars, svars>>(PairSteps /\ carrying = "No" /\ UNCHANGED svars)
  /\ WF_<<vars, svars>>(PairWithSteps /\ carrying = "No" /\ UNCHANGED svars)
  /\ WF_<<vars, svars>>((Looks \/ Serves \/ TimePasses) /\ UNCHANGED vars)

-----------------------------------------------------------------------------
(* A person who asks for the keyboard to go over is served in the end:     *)
(* with both machines paired and the network there, a link comes up at     *)
(* both ends, however many of the source's own attempts were left behind   *)
(* at the listener while the sink sat out the silence of a session that    *)
(* was dead.  Those are never the run of failures that ends the serving.   *)
LinkComesUp ==
  (/\ carrying = "Paired"
   /\ driving = "There" /\ attempt # "Linked" /\ reachable) ~> (InTouch \/ ~reachable)
=============================================================================
