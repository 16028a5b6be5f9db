------------------------------ MODULE Pairing ------------------------------
(***************************************************************************)
(* Pairing: the identity each machine makes on first use, the code the     *)
(* sink shows and serves one attempt under, the exchange over it, and what *)
(* each end writes down (engine/src/pairing.rs, pairing-exchange/src/      *)
(* lib.rs, the pairing.rs of each host and the two files in their link.rs). *)
(*                                                                         *)
(* Two machines, and on each a run that carries input beside the one that  *)
(* pairs.  The arithmetic is what the exchange relies on it for: two halves *)
(* of one exchange agree on one secret where the code was the same, and    *)
(* what was sealed under another opens as nothing.                         *)
(***************************************************************************)
EXTENDS Naturals, Sequences, SequencesExt

CONSTANTS
  Attempts,   \* a bound of the model: codes shown, and times one is typed
  Runs,       \* the runs that carry input beside the two that pair
  Made,       \* a bound of the model: keypairs a machine makes
  Deaths      \* a bound of the model: calls that fail and processes that die

ASSUME PairingAssumption ==
  /\ Attempts \in Nat /\ Made \in Nat /\ Deaths \in Nat
  /\ Runs \subseteq {"Convert", "Relay"}

Sink == "Sink"
Source == "Source"
Machine == {Sink, Source}
Process == {"Convert", "Pair", "Relay", "PairWith"}
On(p) == IF p \in {"Convert", "Pair"} THEN Sink ELSE Source

Key == [of : Machine, nth : 1..Made]
Nothing == [of |-> "Nothing", nth |-> 0]      \* no file, or no key
Halfway == [of |-> "Halfway", nth |-> 0]      \* a file opened and not yet written
Note == [of |-> "Note", nth |-> 0]            \* a line of a person's that is no key
Glued == [of |-> "Glued", nth |-> 0]          \* two keys on one line, which is neither
Earlier == [of |-> "Earlier", nth |-> 0]      \* a source paired with before
NoMessage == [kind |-> "None"]

VARIABLES
  identity,   \* the identity file of each machine
  made,       \* how many keypairs each machine has made
  list,       \* the sink's file: its lines, and whether the last one ends
  pinned,     \* the source's file
  at,         \* where each process is
  mine,       \* the identity each process presents
  shown,      \* how many codes the sink has shown
  code,       \* the code being served, and the one that was typed
  conn,       \* the source's connection: none, waiting, taken or gone
  up, down,   \* what is on it each way
  secret,     \* what each end has agreed on
  peer,       \* the key each end has opened
  ended,      \* how pairing ended at each end
  served,     \* how many connections each code has been served on
  knew,       \* the keys sent by an end the code that was shown was typed at
  deaths, tries,
  excused     \* what a crash, an unreadable file or two first runs have undone

files == <<identity, made, list, pinned>>
exchange == <<code, conn, up, down, secret, peer>>
vars == <<files, at, mine, shown, exchange, ended, served, knew, deaths, tries, excused>>

-----------------------------------------------------------------------------
(* The two files: a line that is not a key names nobody.                   *)
Keys(text) == {text.lines[i] : i \in DOMAIN text.lines} \cap (Key \cup {Earlier})
AddedAsItEnds(text, key) ==   \* mutant: a last line with no end is gone on with
  IF text.ends THEN [lines |-> Append(text.lines, key), ends |-> TRUE]
  ELSE [lines |-> Append(Front(text.lines), Glued), ends |-> TRUE]
Added(text, key) == [lines |-> Append(text.lines, key), ends |-> TRUE]
NoText == [lines |-> <<>>, ends |-> TRUE]

(* The secret of two halves of one exchange, made under one code.          *)
SecretOf(c, n) == [code |-> c, exchange |-> n]
NoSecret == SecretOf(0, Attempts + 1)

Init ==
  /\ identity = [m \in Machine |-> Nothing]
  /\ made = [m \in Machine |-> 0]
  /\ list = [lines |-> <<Note, Earlier>>, ends |-> FALSE]
  /\ pinned = Nothing
  /\ at = [p \in Process |-> "Off"]
  /\ mine = [p \in Process |-> Nothing]
  /\ shown = 0
  /\ code = [m \in Machine |-> 0]
  /\ conn = "None" /\ up = NoMessage /\ down = NoMessage
  /\ secret = [m \in Machine |-> NoSecret]
  /\ peer = [m \in Machine |-> Nothing]
  /\ ended = [m \in Machine |-> "NotYet"]
  /\ served = [c \in 1..Attempts |-> 0]
  /\ knew = {}
  /\ deaths = 0 /\ tries = 0
  /\ excused = {}

Goes(p, to) == at' = [at EXCEPT ![p] = to]

-----------------------------------------------------------------------------
(* The identity: what the file holds, or a keypair made and kept in it.    *)
Next1(p) == IF p = "Pair" THEN "Listen" ELSE IF p = "PairWith" THEN "Find" ELSE "Carrying"

MayStart(p) ==
  /\ at[p] = "Off"
  /\ p = "Pair" => shown < Attempts
  /\ p = "PairWith" => shown > 0 /\ tries < Attempts

Refused(p) == IF p \in {"Pair", "PairWith"} THEN "Off" ELSE "Linkless"

UnkeptIsUsed(p) == at' = [at EXCEPT ![p] = Next1(p)] /\ UNCHANGED mine   \* mutant
Unkept(p) == at' = [at EXCEPT ![p] = Refused(p)] /\ mine' = [mine EXCEPT ![p] = Nothing]

FromBytes(file) == file \in Key

ReadIdentity(p) ==
  LET m == On(p)
  IN /\ MayStart(p)
     /\ ended' = IF p \in {"Pair", "PairWith"} THEN [ended EXCEPT ![m] = "NotYet"] ELSE ended
     /\ tries' = IF p = "PairWith" THEN tries + 1 ELSE tries
     /\ \/ /\ identity[m] = Nothing
           /\ \/ /\ made[m] < Made
                 /\ made' = [made EXCEPT ![m] = @ + 1]
                 /\ mine' = [mine EXCEPT ![p] = [of |-> m, nth |-> made[m] + 1]]
                 /\ Goes(p, "Open") /\ UNCHANGED deaths
              \/ /\ deaths < Deaths /\ deaths' = deaths + 1
                 /\ Unkept(p) /\ UNCHANGED made
        \/ /\ identity[m] # Nothing
           /\ IF FromBytes(identity[m])
              THEN mine' = [mine EXCEPT ![p] = identity[m]] /\ Goes(p, Next1(p))
              ELSE Unkept(p)
           /\ UNCHANGED <<made, deaths>>
     /\ UNCHANGED <<identity, list, pinned, shown, exchange, served, knew, excused>>

(* Opened for a write that replaces what is there.  One that finds the     *)
(* other process of this machine has made one since is not told of it.     *)
OpenIdentity(p) ==
  LET m == On(p)
  IN /\ at[p] = "Open"
     /\ \/ /\ identity' = [identity EXCEPT ![m] = Halfway]
           /\ excused' = IF identity[m] = Nothing THEN excused ELSE excused \cup {m}
           /\ Goes(p, "Write")
           /\ UNCHANGED <<mine, deaths>>
        \/ /\ deaths < Deaths /\ deaths' = deaths + 1
           /\ Unkept(p)
           /\ UNCHANGED <<identity, excused>>
     /\ UNCHANGED <<made, list, pinned, shown, exchange, ended, served, knew, tries>>

WriteIdentity(p) ==
  LET m == On(p)
  IN /\ at[p] = "Write"
     /\ \/ /\ identity' = [identity EXCEPT ![m] = mine[p]]
           /\ Goes(p, Next1(p))
           /\ UNCHANGED <<mine, deaths>>
        \/ /\ deaths < Deaths /\ deaths' = deaths + 1
           /\ Unkept(p)
           /\ UNCHANGED identity
     /\ UNCHANGED <<made, list, pinned, shown, exchange, ended, served, knew, tries, excused>>

-----------------------------------------------------------------------------
(* The sink.  A listener, the port put on the network, a code, and the     *)
(* code in front of a person before anything is waited for.                *)
Ends(m, how) == ended' = [ended EXCEPT ![m] = how]
(* What an end held goes with it, and what it sent is still to be read.    *)
Over(m, how) ==
  /\ Goes(IF m = Sink THEN "Pair" ELSE "PairWith", "Off")
  /\ Ends(m, how)
  /\ conn' = IF conn = "None" THEN conn ELSE "Gone"
  /\ secret' = [secret EXCEPT ![m] = NoSecret]
  /\ peer' = [peer EXCEPT ![m] = Nothing]
  /\ up' = IF m = Sink THEN NoMessage ELSE up
  /\ down' = IF m = Source THEN NoMessage ELSE down

Stops(p, step, m, how) ==
  /\ at[p] = step
  /\ deaths < Deaths /\ deaths' = deaths + 1
  /\ Over(m, how)
  /\ UNCHANGED <<files, mine, shown, code, served, knew, tries, excused>>

ShowTheCode ==
  /\ at["Pair"] = "Listen"
  /\ \/ /\ shown' = shown + 1
        /\ code' = [code EXCEPT ![Sink] = shown + 1]
        /\ Goes("Pair", "Accept")
        /\ UNCHANGED <<ended, deaths>>
     \/ /\ deaths < Deaths /\ deaths' = deaths + 1
        /\ Ends(Sink, "Failed")
        /\ Goes("Pair", "Off")
        /\ UNCHANGED <<shown, code>>
  /\ UNCHANGED <<files, mine, conn, up, down, secret, peer, served, knew, tries, excused>>

(* One connection, whoever it is: the source's, or another machine's that  *)
(* has not the code.                                                       *)
Accept ==
  /\ at["Pair"] = "Accept"
  /\ served' = [served EXCEPT ![code[Sink]] = @ + 1]
  /\ \/ conn = "Waiting" /\ conn' = "Taken" /\ Goes("Pair", "TakeOffer")
     \/ Goes("Pair", "Other") /\ UNCHANGED conn
  /\ UNCHANGED <<files, mine, shown, code, up, down, secret, peer, ended, knew, deaths, tries, excused>>

SpendsNothing(how) == Goes("Pair", "Accept") /\ UNCHANGED <<ended, conn, up, down, secret, peer>>   \* mutant
WrongCode(how) == Over(Sink, how)
AnotherMachine ==
  /\ at["Pair"] = "Other"
  /\ \E how \in {"Failed", "Interrupted"} : WrongCode(how)
  /\ UNCHANGED <<files, mine, shown, code, served, knew, deaths, tries, excused>>

(* A half that arrived makes the other half and the secret at one go.      *)
TakeOffer ==
  /\ at["Pair"] = "TakeOffer" /\ up # NoMessage
  /\ up' = NoMessage
  /\ secret' = [secret EXCEPT ![Sink] = SecretOf(code[Sink], up.n)]
  /\ down' = [kind |-> "Answer", n |-> up.n]
  /\ Goes("Pair", "TakeKey")
  /\ UNCHANGED <<files, mine, shown, code, conn, peer, ended, served, knew, deaths, tries, excused>>

(* What was sealed opens under the same secret for the same direction.     *)
OpensAny(sealed, s, from) == sealed.key   \* mutant: what it was sealed under is not looked at
Opened(sealed, s, from) ==
  IF sealed.under = s /\ sealed.from = from THEN sealed.key ELSE Nothing

AnswersKey(sealed) ==
  IF Opened(sealed, secret[Sink], Source) = Nothing
  THEN WrongCode("Failed")
  ELSE /\ up' = NoMessage
       /\ peer' = [peer EXCEPT ![Sink] = Opened(sealed, secret[Sink], Source)]
       /\ down' = [kind |-> "Key", under |-> secret[Sink], from |-> Sink, key |-> mine["Pair"]]
       /\ Goes("Pair", "Read")
       /\ UNCHANGED <<ended, conn, secret>>

TakeSourceKey ==
  /\ at["Pair"] = "TakeKey" /\ up # NoMessage
  /\ AnswersKey(up)
  /\ UNCHANGED <<files, mine, shown, code, served, knew, deaths, tries, excused>>

(* What the list held, and nothing where it could not be read; then the    *)
(* whole of it replaced, which leaves it empty until it is written.        *)
ReadTheList ==
  /\ at["Pair"] = "Read"
  /\ \/ UNCHANGED <<deaths, excused>> /\ Goes("Pair", "Replace")
     \/ /\ deaths < Deaths /\ deaths' = deaths + 1
        /\ excused' = excused \cup {"List"}
        /\ Goes("Pair", "ReplaceAll")
  /\ UNCHANGED <<files, mine, shown, exchange, ended, served, knew, tries>>

Authorize ==
  /\ at["Pair"] \in {"Replace", "ReplaceAll"}
  /\ list' = Added(IF at["Pair"] = "Replace" THEN list ELSE NoText, peer[Sink])
  /\ Over(Sink, "Pinned")
  /\ UNCHANGED <<identity, made, pinned, mine, shown, code, served, knew, deaths, tries, excused>>

(* A write that will not go on, or a process that ends in it.              *)
ListCutShort ==
  /\ at["Pair"] \in {"Replace", "ReplaceAll"}
  /\ deaths < Deaths /\ deaths' = deaths + 1
  /\ \/ list' = NoText /\ excused' = excused \cup {"List"}
     \/ UNCHANGED <<list, excused>>
  /\ Over(Sink, "Failed")
  /\ UNCHANGED <<identity, made, pinned, mine, shown, code, served, knew, tries>>

-----------------------------------------------------------------------------
(* The source.  The digits are typed, rightly or not and sooner or later;  *)
(* what answers may be a name left standing from an attempt that is over.  *)
Found ==
  {"Nothing"}
  \cup (IF at["Pair"] \in {"Accept", "Other"} THEN {"Serving"} ELSE {})
  \cup (IF at["Pair"] \in {"TakeOffer", "TakeKey", "Read", "Replace", "ReplaceAll"}
        THEN {"Taken"} ELSE {})

FindTheSink ==
  /\ at["PairWith"] = "Find"
  /\ \E typed \in 0..shown : code' = [code EXCEPT ![Source] = typed]
  /\ \E found \in Found :
       \/ /\ found = "Serving"
          /\ conn' = "Waiting" /\ up' = NoMessage /\ down' = NoMessage
          /\ Goes("PairWith", "Offer")
          /\ UNCHANGED ended
       \/ /\ found = "Taken"
          /\ Goes("PairWith", "Unserved")
          /\ UNCHANGED <<conn, up, down, ended>>
       \/ /\ found = "Nothing"
          /\ Goes("PairWith", "Off") /\ Ends(Source, "Failed")
          /\ UNCHANGED <<conn, up, down>>
  /\ UNCHANGED <<files, mine, shown, secret, peer, served, knew, deaths, tries, excused>>

SendOffer ==
  /\ at["PairWith"] = "Offer"
  /\ up' = [kind |-> "Offer", n |-> code[Source]]
  /\ secret' = [secret EXCEPT ![Source] = SecretOf(code[Source], code[Source])]
  /\ Goes("PairWith", "TakeAnswer")
  /\ UNCHANGED <<files, mine, shown, code, conn, down, peer, ended, served, knew, deaths, tries, excused>>

SendSourceKey ==
  /\ at["PairWith"] = "TakeAnswer" /\ down # NoMessage
  /\ down' = NoMessage
  /\ up' = [kind |-> "Key", under |-> secret[Source], from |-> Source, key |-> mine["PairWith"]]
  /\ knew' = IF code[Source] = code[Sink] THEN knew \cup {mine["PairWith"]} ELSE knew
  /\ Goes("PairWith", "TakeKey")
  /\ UNCHANGED <<files, mine, shown, code, conn, secret, peer, ended, served, deaths, tries, excused>>

TakeSinkKey ==
  /\ at["PairWith"] = "TakeKey" /\ down # NoMessage
  /\ IF Opened(down, secret[Source], Sink) = Nothing
     THEN Over(Source, "Failed")
     ELSE /\ peer' = [peer EXCEPT ![Source] = Opened(down, secret[Source], Sink)]
          /\ down' = NoMessage
          /\ Goes("PairWith", "Pin")
          /\ UNCHANGED <<ended, conn, up, secret>>
  /\ UNCHANGED <<files, mine, shown, code, served, knew, deaths, tries, excused>>

PinTheSink ==
  /\ at["PairWith"] = "Pin"
  /\ pinned' = peer[Source]
  /\ Over(Source, "Pinned")
  /\ UNCHANGED <<identity, made, list, mine, shown, code, served, knew, deaths, tries, excused>>

PinCutShort ==
  /\ at["PairWith"] = "Pin"
  /\ deaths < Deaths /\ deaths' = deaths + 1
  /\ pinned' \in {pinned, Halfway}
  /\ Over(Source, "Failed")
  /\ UNCHANGED <<identity, made, list, mine, shown, code, served, knew, tries, excused>>

-----------------------------------------------------------------------------
(* A read ends with nothing when the other end is gone, or when what it    *)
(* was given to wait has gone by.                                          *)
WaitsForEver(p) == conn = "Gone"   \* mutant: a read with no bound on it
GivesUp(p) == TRUE
NothingCame(p, m, from) ==
  /\ at[p] \in {"TakeOffer", "TakeAnswer", "TakeKey"}
  /\ from = NoMessage /\ GivesUp(p)
  /\ Over(m, "Interrupted")
  /\ UNCHANGED <<files, mine, shown, code, served, knew, deaths, tries, excused>>

Unserved ==
  /\ at["PairWith"] = "Unserved"
  /\ Goes("PairWith", "Off") /\ Ends(Source, "Interrupted")
  /\ UNCHANGED <<files, mine, shown, exchange, served, knew, deaths, tries, excused>>

(* A call that is refused at either end, and a process that is ended.      *)
CallRefused ==
  \/ \E step \in {"TakeOffer", "TakeKey"} : Stops("Pair", step, Sink, "Interrupted")
  \/ \E step \in {"Offer", "TakeAnswer", "TakeKey"} : Stops("PairWith", step, Source, "Interrupted")
  \/ Stops("Pair", "Accept", Sink, "Failed")

Step(p) ==
  \/ ReadIdentity(p) \/ OpenIdentity(p) \/ WriteIdentity(p)
PairSteps ==
  \/ Step("Pair") \/ ShowTheCode \/ AnotherMachine \/ TakeOffer \/ TakeSourceKey
  \/ ReadTheList \/ Authorize \/ NothingCame("Pair", Sink, up)
PairWithSteps ==
  \/ Step("PairWith") \/ FindTheSink \/ SendOffer \/ SendSourceKey \/ TakeSinkKey
  \/ PinTheSink \/ NothingCame("PairWith", Source, down) \/ Unserved

Next ==
  \/ \E p \in Runs : Step(p)
  \/ PairSteps \/ PairWithSteps \/ Accept
  \/ ListCutShort \/ PinCutShort \/ CallRefused

(* Each process goes on; nobody need connect to a code that is shown, and  *)
(* nobody need run any of them again.                                      *)
Spec == Init /\ [][Next]_vars /\ WF_vars(PairSteps) /\ WF_vars(PairWithSteps)

-----------------------------------------------------------------------------
TypeOK ==
  /\ \A m \in Machine : identity[m] \in Key \cup {Nothing, Halfway}
  /\ \A p \in Process : mine[p] \in [of : {On(p)}, nth : 1..Made] \cup {Nothing}
  /\ pinned \in Key \cup {Nothing, Halfway}
  /\ conn \in {"None", "Waiting", "Taken", "Gone"}
  /\ \A p \in Process : at[p] = "Carrying" => mine[p] # Nothing

(* A key is written down only where the code vouched for it: it was sent   *)
(* by an end the code being shown was typed at, and an end that pins this  *)
(* machine's knows the code as well.  The code itself is spent by the      *)
(* first connection, whatever becomes of it.                               *)
VouchedFor ==
  /\ TypeOK
  /\ Keys(list) \subseteq {Earlier} \cup knew
  /\ ended[Source] = "Pinned" => mine["PairWith"] \in knew
  /\ \A c \in 1..Attempts : served[c] <= 1

BothPinned == ended[Sink] = "Pinned" /\ ended[Source] = "Pinned"

(* Two machines that say they have paired can carry input: what each wrote *)
(* down is what a run at the other end presents, now and after a restart,  *)
(* unless two first runs of one machine made an identity each.  A source   *)
(* paired with before stays paired: a pairing adds a line and keeps what   *)
(* was there, short of a file that could not be read or a write cut short. *)
PairedCanLink ==
  /\ BothPinned /\ excused = {} =>
       /\ at["Convert"] = "Carrying" => pinned = mine["Convert"]
       /\ at["Relay"] = "Carrying" => mine["Relay"] \in Keys(list)
       /\ identity[Source] \in Keys(list) /\ pinned = identity[Sink]
  /\ "List" \notin excused => Earlier \in Keys(list)

(* An attempt is over within its bounds whatever the other end does: an    *)
(* end left waiting in the exchange is not left there.                     *)
PairingEnds ==
  /\ at["PairWith"] \in {"Offer", "TakeAnswer", "TakeKey", "Unserved"} ~> at["PairWith"] \in {"Off", "Pin"}
  /\ at["Pair"] \in {"TakeOffer", "TakeKey"} ~> at["Pair"] \in {"Off", "Read"}
=============================================================================
