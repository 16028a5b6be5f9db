---------------------------- MODULE PairingProofs ----------------------------
(***************************************************************************)
(* Proofs about pairing, for any number of codes, keypairs and failures:   *)
(* a key is written down only where a code vouched for it, and two         *)
(* machines that both say they have paired can carry input.                *)
(*                                                                         *)
(* The invariant has five parts.  Types also ties each key to the machine  *)
(* that made it; Codes counts the attempts served under each code; Turns   *)
(* is what may be on the connection at each pair of places; Vouching       *)
(* follows a key from the code it was typed under to the list; Linked      *)
(* holds the identity in use, the identity on the disk and what the other  *)
(* end wrote down together, as long as no two processes have made an       *)
(* identity at once and no list has been read or written by halves.        *)
(***************************************************************************)
EXTENDS Pairing, TLAPS

(* The secrets, the three messages and the lines of the list.              *)
Secret == [code : 0..Attempts, exchange : 0..Attempts + 1]
Offers == [kind : {"Offer"}, n : 0..Attempts]
Replies == [kind : {"Answer"}, n : 0..Attempts]
Sealed == [kind : {"Key"}, under : Secret, from : Machine, key : Key]
Line == Key \cup {Note, Earlier}

(* Where a process stands, by what it may do there.                        *)
Runners == {"Convert", "Relay"}
Waits == {"Off", "Open", "Write", "Listen", "Find", "Carrying", "Linkless"}
Listens == {"Accept", "Other"}
Reads == {"Read", "Replace", "ReplaceAll"}
Places == Waits \cup Listens \cup Reads \cup {"TakeOffer", "TakeKey", "Offer", "TakeAnswer", "Pin", "Unserved"}

(* The types, and whose each key is.                                       *)
Holdings ==
  /\ identity \in [Machine -> Key \cup {Nothing, Halfway}]
  /\ \A m \in Machine : identity[m] \in Key => identity[m].of = m
  /\ made \in [Machine -> 0..Made]
  /\ at \in [Process -> Places]
  /\ mine \in [Process -> Key \cup {Nothing}]
  /\ \A p \in Process : /\ mine[p] # Nothing => mine[p].of = On(p)
                        /\ at[p] \notin {"Off", "Linkless"} => mine[p] # Nothing
Texts ==
  /\ list \in [lines : Seq(Line), ends : BOOLEAN]
  /\ pinned \in Key \cup {Nothing, Halfway}
Messages ==
  /\ shown \in 0..Attempts
  /\ code \in [Machine -> 0..Attempts]
  /\ conn \in {"None", "Waiting", "Taken", "Gone"}
  /\ up \in {NoMessage} \cup Offers \cup Sealed
  /\ down \in {NoMessage} \cup Replies \cup Sealed
  /\ secret \in [Machine -> Secret]
  /\ peer \in [Machine -> Key \cup {Nothing}]
Tallies ==
  /\ ended \in [Machine -> {"NotYet", "Pinned", "Failed", "Interrupted"}]
  /\ served \in [1..Attempts -> Nat]
  /\ knew \in SUBSET Key
Types == Holdings /\ Texts /\ Messages /\ Tallies

(* A code is served on one connection.                                     *)
Codes ==
  /\ code[Sink] = shown /\ code[Source] <= shown
  /\ at["Pair"] \in {"Open", "Write", "Listen"} => shown < Attempts
  /\ at["Pair"] \in Listens \cup Reads \cup {"TakeOffer", "TakeKey"} => shown > 0
  /\ \A c \in 1..Attempts : /\ served[c] <= 1
                            /\ c > shown => served[c] = 0
                            /\ c = shown /\ at["Pair"] = "Accept" => served[c] = 0

(* What may be on the connection at each pair of places.                   *)
Turns ==
  /\ conn = "Waiting" =>
       /\ at["Pair"] \in Listens /\ at["PairWith"] \in {"Offer", "TakeAnswer"} /\ down = NoMessage
       /\ up \in (IF at["PairWith"] = "Offer" THEN {NoMessage} ELSE Offers)
  /\ at["Pair"] = "TakeOffer" =>
       /\ at["PairWith"] \notin {"TakeKey", "Pin"}
       /\ at["PairWith"] = "Offer" => down = NoMessage /\ up = NoMessage
       /\ at["PairWith"] = "TakeAnswer" => down = NoMessage
       /\ up \in {NoMessage} \cup Offers
  /\ at["Pair"] = "TakeKey" => at["PairWith"] # "Offer" /\ up \in {NoMessage} \cup Sealed
  /\ at["PairWith"] = "TakeKey" => down \in {NoMessage} \cup Sealed

(* What was sealed under the code that is shown vouches for its key.        *)
Vouching ==
  /\ at["PairWith"] \in {"TakeAnswer", "TakeKey"} => secret[Source] = SecretOf(code[Source], code[Source])
  /\ at["Pair"] = "TakeKey" => secret[Sink].code = shown
  /\ up \in Sealed => /\ up.under.code <= shown
                      /\ up.under.code = shown => up.key \in knew
                      /\ at["PairWith"] = "TakeKey" => up.key = mine["PairWith"]
  /\ down \in Sealed /\ at["PairWith"] = "TakeKey" => mine["PairWith"] \in knew
  /\ at["PairWith"] = "Pin" => mine["PairWith"] \in knew
  /\ ended[Source] = "Pinned" => at["PairWith"] = "Off" /\ mine["PairWith"] \in knew
  /\ at["Pair"] \in Reads => peer[Sink] \in knew
  /\ Keys(list) \subseteq {Earlier} \cup knew

(* One identity of each machine, unless two processes made one at once.     *)
Unmixed(m) ==
  m \notin excused =>
    /\ \A p \in Process : On(p) = m =>
         /\ at[p] = "Write" => identity[m] = Halfway
         /\ mine[p] = Nothing \/ at[p] \in {"Open", "Write"} \/ mine[p] = identity[m]
    /\ \A p, q \in Process : On(p) = m /\ On(q) = m /\ at[p] = "Write" /\ at[q] = "Write" => p = q

(* What the two ends have of each other.                                    *)
Linked ==
  /\ \A m \in Machine : Unmixed(m)
  /\ Source \notin excused => knew \subseteq {identity[Source]}
  /\ Sink \notin excused =>
       /\ down \in Sealed => down.key = identity[Sink]
       /\ at["PairWith"] = "Pin" => peer[Source] = identity[Sink]
       /\ ended[Source] = "Pinned" => pinned = identity[Sink] /\ pinned \in Key
  /\ at["PairWith"] = "Pin" => peer[Source] # Nothing
  /\ ended[Sink] = "Pinned" => at["Pair"] = "Off" /\ Keys(list) \cap knew # {}
  /\ at["Pair"] = "ReplaceAll" => "List" \in excused
  /\ "List" \notin excused => Earlier \in Keys(list)

USE PairingAssumption

(* What tells the messages, and the keys, apart.                            *)
LEMMA Kinds ==
  /\ \A m \in Sealed : m.kind = "Key"
  /\ \A m \in Offers : m.kind = "Offer"
  /\ \A m \in Replies : m.kind = "Answer"
  /\ NoMessage.kind = "None"
  BY DEF Sealed, Offers, Replies, NoMessage

LEMMA Marks ==
  /\ \A k \in Key : k # Nothing /\ k # Halfway /\ k # Note /\ k # Earlier /\ k.of \in Machine
  /\ Nothing # Halfway /\ Note # Earlier
<1>1. /\ \A k \in Key : k.of \in Machine
      /\ Nothing.of = "Nothing" /\ Halfway.of = "Halfway" /\ Note.of = "Note" /\ Earlier.of = "Earlier"
  BY DEF Key, Nothing, Halfway, Note, Earlier
<1> QED  BY <1>1 DEF Machine, Sink, Source

LEMMA TypesInit == Init => Types
<1> SUFFICES ASSUME Init PROVE Types
  OBVIOUS
<1>1. list \in [lines : Seq(Line), ends : BOOLEAN]
  BY DEF Init, Line
<1>2. NoSecret \in Secret
  BY DEF NoSecret, SecretOf, Secret
<1> QED  BY <1>1, <1>2, Marks DEF Init, Types, Holdings, Texts, Messages, Tallies, Machine, Process, Places, Waits, Sink, Source, On

(* How a process comes by the key it presents.                             *)
LEMMA ReadsIdentity ==
  ASSUME Types, NEW p \in Process, ReadIdentity(p)
  PROVE  /\ \E k \in Key \cup {Nothing}, s \in Places :
              /\ mine' = [mine EXCEPT ![p] = k] /\ at' = [at EXCEPT ![p] = s]
              /\ \/ identity[On(p)] = Nothing /\ k # Nothing /\ k.of = On(p) /\ s = "Open"
                 \/ k = Nothing /\ s \in {"Off", "Linkless"}
                 \/ identity[On(p)] \in Key /\ k = identity[On(p)] /\ s = Next1(p)
         /\ made' \in [Machine -> 0..Made]
         /\ ended' = IF p \in {"Pair", "PairWith"} THEN [ended EXCEPT ![On(p)] = "NotYet"] ELSE ended
         /\ UNCHANGED <<identity, list, pinned, shown, exchange, served, knew, excused>>
<1> DEFINE m == On(p)
<1>1. m \in Machine
  BY DEF On, Machine
<1>2. "Open" \in Places /\ Next1(p) \in Places /\ Refused(p) \in Places /\ Refused(p) \in {"Off", "Linkless"}
  BY DEF Places, Waits, Next1, Refused
<1>3. CASE identity[m] = Nothing /\ made[m] < Made
           /\ made' = [made EXCEPT ![m] = @ + 1]
           /\ mine' = [mine EXCEPT ![p] = [of |-> m, nth |-> made[m] + 1]]
           /\ Goes(p, "Open")
  <2>1. made[m] + 1 \in 1..Made
    BY <1>1, <1>3 DEF Types, Holdings
  <2>2. made' \in [Machine -> 0..Made]
    BY <1>1, <1>3, <2>1 DEF Types, Holdings
  <2> DEFINE k == [of |-> m, nth |-> made[m] + 1]
  <2>3. k \in Key /\ k.of = m
    BY <1>1, <2>1 DEF Key
  <2> HIDE DEF k
  <2>4. mine' = [mine EXCEPT ![p] = k] /\ at' = [at EXCEPT ![p] = "Open"]
    BY <1>3 DEF Goes, k
  <2> QED  BY <1>2, <1>3, <2>2, <2>3, <2>4, Marks DEF ReadIdentity
<1>4. CASE Unkept(p) /\ UNCHANGED made
  BY <1>2, <1>4 DEF ReadIdentity, Types, Holdings, Unkept
<1>5. CASE identity[m] \in Key /\ mine' = [mine EXCEPT ![p] = identity[m]] /\ Goes(p, Next1(p)) /\ UNCHANGED made
  BY <1>2, <1>5 DEF ReadIdentity, Types, Holdings, Goes
<1> QED  BY <1>3, <1>4, <1>5 DEF ReadIdentity, FromBytes

LEMMA OpensIdentity ==
  ASSUME Types, NEW p \in Process, OpenIdentity(p)
  PROVE  /\ at[p] = "Open"
         /\ \/ /\ identity' = [identity EXCEPT ![On(p)] = Halfway]
               /\ excused' = IF identity[On(p)] = Nothing THEN excused ELSE excused \cup {On(p)}
               /\ at' = [at EXCEPT ![p] = "Write"] /\ mine' = mine
            \/ \E s \in {"Off", "Linkless"} :
                 /\ at' = [at EXCEPT ![p] = s] /\ mine' = [mine EXCEPT ![p] = Nothing]
                 /\ identity' = identity /\ excused' = excused
         /\ UNCHANGED <<made, list, pinned, shown, exchange, ended, served, knew>>
  BY DEF OpenIdentity, Unkept, Refused, Goes

LEMMA WritesIdentity ==
  ASSUME Types, NEW p \in Process, WriteIdentity(p)
  PROVE  /\ at[p] = "Write"
         /\ \/ /\ identity' = [identity EXCEPT ![On(p)] = mine[p]]
               /\ at' = [at EXCEPT ![p] = Next1(p)] /\ mine' = mine
            \/ \E s \in {"Off", "Linkless"} :
                 /\ at' = [at EXCEPT ![p] = s] /\ mine' = [mine EXCEPT ![p] = Nothing]
                 /\ identity' = identity
         /\ UNCHANGED <<made, list, pinned, shown, exchange, ended, served, knew, excused>>
  BY DEF WriteIdentity, Unkept, Refused, Goes

LEMMA StepTypes ==
  ASSUME Types, NEW p \in Process, Step(p)
  PROVE  Types'
<1>1. On(p) \in Machine /\ Types
  BY DEF On, Machine
<1>2. {"Off", "Linkless", "Write"} \subseteq Places /\ Next1(p) \in Places
  BY DEF Places, Waits, Next1
<1>3. CASE ReadIdentity(p)
  <2>1. PICK k \in Key \cup {Nothing}, s \in Places :
          /\ mine' = [mine EXCEPT ![p] = k] /\ at' = [at EXCEPT ![p] = s]
          /\ \/ identity[On(p)] = Nothing /\ k # Nothing /\ k.of = On(p) /\ s = "Open"
             \/ k = Nothing /\ s \in {"Off", "Linkless"}
             \/ identity[On(p)] \in Key /\ k = identity[On(p)] /\ s = Next1(p)
    BY <1>1, <1>3, ReadsIdentity
  <2>2. (k # Nothing => k.of = On(p)) /\ (s \notin {"Off", "Linkless"} => k # Nothing)
    BY <1>1, <2>1, Marks DEF Types, Holdings
  <2>3. /\ made' \in [Machine -> 0..Made]
        /\ ended' = IF p \in {"Pair", "PairWith"} THEN [ended EXCEPT ![On(p)] = "NotYet"] ELSE ended
        /\ UNCHANGED <<identity, list, pinned, shown, exchange, served, knew, excused>>
    BY <1>1, <1>3, ReadsIdentity
  <2>4. Holdings'
    BY <1>1, <2>1, <2>2, <2>3 DEF Types, Holdings
  <2>5. Tallies'
    BY <1>1, <2>3 DEF Types, Tallies
  <2> QED  BY <1>1, <2>3, <2>4, <2>5 DEF Types, exchange, Texts, Messages
<1>4. CASE OpenIdentity(p)
  <2>1. UNCHANGED <<made, list, pinned, shown, exchange, ended, served, knew>>
    BY <1>1, <1>4, OpensIdentity
  <2>2. at[p] = "Open" /\ mine[p] # Nothing
    BY <1>1, <1>4, OpensIdentity DEF Types, Holdings
  <2>3. CASE /\ identity' = [identity EXCEPT ![On(p)] = Halfway]
             /\ at' = [at EXCEPT ![p] = "Write"] /\ mine' = mine
    BY <1>1, <1>2, <2>1, <2>2, <2>3, Marks DEF Types, Holdings, Texts, Messages, Tallies, exchange
  <2>4. ASSUME NEW s \in {"Off", "Linkless"},
               at' = [at EXCEPT ![p] = s] /\ mine' = [mine EXCEPT ![p] = Nothing] /\ identity' = identity
        PROVE  Types'
    BY <1>1, <1>2, <2>1, <2>4 DEF Types, Holdings, Texts, Messages, Tallies, exchange
  <2> QED  BY <1>1, <1>4, <2>3, <2>4, OpensIdentity
<1>5. CASE WriteIdentity(p)
  <2>1. /\ UNCHANGED <<made, list, pinned, shown, exchange, ended, served, knew, excused>>
        /\ at[p] = "Write"
    BY <1>1, <1>5, WritesIdentity
  <2>2. mine[p] \in Key /\ mine[p].of = On(p)
    BY <1>1, <2>1 DEF Types, Holdings
  <2>3. CASE /\ identity' = [identity EXCEPT ![On(p)] = mine[p]]
             /\ at' = [at EXCEPT ![p] = Next1(p)] /\ mine' = mine
    BY <1>1, <1>2, <2>1, <2>2, <2>3, Marks DEF Types, Holdings, Texts, Messages, Tallies, exchange
  <2>4. ASSUME NEW s \in {"Off", "Linkless"},
               at' = [at EXCEPT ![p] = s] /\ mine' = [mine EXCEPT ![p] = Nothing] /\ identity' = identity
        PROVE  Types'
    BY <1>1, <1>2, <2>1, <2>4 DEF Types, Holdings, Texts, Messages, Tallies, exchange
  <2> QED  BY <1>1, <1>5, <2>3, <2>4, WritesIdentity
<1> QED  BY <1>3, <1>4, <1>5 DEF Step

-----------------------------------------------------------------------------
(* The types, the rest of the steps.                                       *)

LEMMA GoesTypes ==
  ASSUME Holdings, NEW p \in Process, NEW s \in Places, at' = [at EXCEPT ![p] = s],
         at[p] \notin {"Off", "Linkless"}, UNCHANGED <<identity, made, mine>>
  PROVE  Holdings'
  BY DEF Holdings

LEMMA OverTypes ==
  ASSUME Types, NEW m \in Machine, NEW how \in {"Pinned", "Failed", "Interrupted"}, Over(m, how),
         UNCHANGED <<identity, made, mine, shown, code, served, knew>>,
         at[IF m = Sink THEN "Pair" ELSE "PairWith"] \notin {"Off", "Linkless"}
  PROVE  Holdings' /\ Messages' /\ Tallies'
<1> DEFINE p == IF m = Sink THEN "Pair" ELSE "PairWith"
<1>1. p \in Process /\ "Off" \in Places /\ at' = [at EXCEPT ![p] = "Off"]
  BY DEF Process, Places, Waits, Over, Goes
<1>2. Holdings'
  BY <1>1, GoesTypes DEF Types
<1>3. NoSecret \in Secret
  BY DEF NoSecret, SecretOf, Secret
<1>4. Messages'
  BY <1>3 DEF Types, Messages, Over
<1>5. Tallies'
  BY DEF Types, Tallies, Over, Ends
<1> QED  BY <1>2, <1>4, <1>5

LEMMA StopsTypes ==
  ASSUME Types, NEW m \in Machine, NEW p, p = (IF m = Sink THEN "Pair" ELSE "PairWith"),
         NEW step, step \notin {"Off", "Linkless"}, NEW how \in {"Failed", "Interrupted"},
         Stops(p, step, m, how)
  PROVE  Types'
<1>1. UNCHANGED files /\ Over(m, how) /\ UNCHANGED <<mine, shown, code, served, knew>> /\ at[p] = step
  BY DEF Stops
<1> QED  BY <1>1, OverTypes DEF Types, Texts, files

LEMMA NothingCameTypes ==
  ASSUME Types, NEW m \in Machine, NEW p, p = (IF m = Sink THEN "Pair" ELSE "PairWith"),
         NEW from, NothingCame(p, m, from)
  PROVE  Types'
<1>1. UNCHANGED files /\ Over(m, "Interrupted") /\ UNCHANGED <<mine, shown, code, served, knew>>
      /\ at[p] \notin {"Off", "Linkless"}
  BY DEF NothingCame
<1> QED  BY <1>1, OverTypes DEF Types, Texts, files

LEMMA Ways ==
  /\ "Pair" \in Process /\ "PairWith" \in Process /\ Sink \in Machine /\ Source \in Machine
  /\ {"Off", "Accept", "Other", "TakeOffer", "TakeKey", "Read", "Replace", "ReplaceAll",
      "Offer", "TakeAnswer", "Pin", "Unserved"} \subseteq Places
  /\ Sink # Source
  BY DEF Process, Machine, Places, Waits, Listens, Reads, Sink, Source

LEMMA ShowTheCodeTypes == ASSUME Types, Codes, ShowTheCode PROVE Types'
<1>1. Holdings'
  BY Ways, GoesTypes DEF ShowTheCode, Goes, files, Types
<1>2. CASE shown' = shown + 1 /\ code' = [code EXCEPT ![Sink] = shown + 1] /\ shown < Attempts
           /\ UNCHANGED ended
  BY <1>1, <1>2, Ways DEF ShowTheCode, files, Types, Texts, Messages, Tallies
<1>3. CASE UNCHANGED <<shown, code>> /\ Ends(Sink, "Failed")
  BY <1>1, <1>3, Ways DEF ShowTheCode, Ends, files, Types, Texts, Messages, Tallies
<1>4. shown < Attempts
  BY DEF Codes, ShowTheCode
<1> QED  BY <1>2, <1>3, <1>4 DEF ShowTheCode

LEMMA AcceptTypes == ASSUME Types, Accept PROVE Types'
<1>1. Holdings'
  BY Ways, GoesTypes DEF Accept, Goes, files, Types
<1>2. Tallies'
  <2>1. served' = [served EXCEPT ![code[Sink]] = @ + 1] /\ UNCHANGED <<ended, knew>>
    BY DEF Accept
  <2>2. served' \in [1..Attempts -> Nat]
    <3>1. served \in [1..Attempts -> Nat]
      BY DEF Types, Tallies
    <3> DEFINE c == code[Sink]
    <3>2. served' = [served EXCEPT ![c] = served[c] + 1]
      BY <2>1
    <3> HIDE DEF c
    <3>3. \A n \in 1..Attempts : served'[n] \in Nat
      BY <3>1, <3>2
    <3> QED  BY <3>1, <3>2, <3>3
  <2> QED  BY <2>1, <2>2 DEF Types, Tallies
<1> QED  BY <1>1, <1>2 DEF Accept, files, Types, Texts, Messages

LEMMA AnotherMachineTypes == ASSUME Types, AnotherMachine PROVE Types'
<1>1. PICK how \in {"Failed", "Interrupted"} : Over(Sink, how)
  BY DEF AnotherMachine, WrongCode
<1> QED  BY <1>1, Ways, OverTypes DEF AnotherMachine, Types, Texts, files

LEMMA TakeOfferTypes == ASSUME Types, Turns, TakeOffer PROVE Types'
<1>1. up \in Offers
  BY DEF TakeOffer, Turns
<1>2. Holdings'
  BY Ways, GoesTypes DEF TakeOffer, Goes, files, Types
<1>3. SecretOf(code[Sink], up.n) \in Secret /\ [kind |-> "Answer", n |-> up.n] \in Replies
  BY <1>1, Ways DEF Types, Messages, SecretOf, Secret, Offers, Replies
<1>4. Messages'
  BY <1>3, Ways DEF TakeOffer, Types, Messages
<1> QED  BY <1>2, <1>4 DEF TakeOffer, files, Types, Texts, Tallies

(* What a sealed key opens as, and under what.                             *)
LEMMA Opens ==
  ASSUME NEW sealed \in Sealed, NEW s, NEW from, Opened(sealed, s, from) # Nothing
  PROVE  Opened(sealed, s, from) = sealed.key /\ sealed.under = s /\ sealed.key \in Key
  BY DEF Opened, Sealed

LEMMA TakeSourceKeyTypes == ASSUME Types, Turns, TakeSourceKey PROVE Types'
<1>1. up \in Sealed
  BY DEF TakeSourceKey, Turns
<1>2. CASE Opened(up, secret[Sink], Source) = Nothing
  BY <1>2, Ways, OverTypes DEF TakeSourceKey, AnswersKey, WrongCode, Types, Texts, files
<1>3. CASE Opened(up, secret[Sink], Source) # Nothing
  <2>1. Opened(up, secret[Sink], Source) \in Key
    BY <1>1, <1>3, Opens
  <2>2. Holdings'
    BY <1>3, Ways, GoesTypes DEF TakeSourceKey, AnswersKey, Goes, files, Types
  <2>3. [kind |-> "Key", under |-> secret[Sink], from |-> Sink, key |-> mine["Pair"]] \in Sealed
    BY Ways DEF TakeSourceKey, Types, Holdings, Messages, Sealed
  <2>4. Messages'
    BY <1>3, <2>1, <2>3, Ways DEF TakeSourceKey, AnswersKey, Types, Messages
  <2> QED  BY <1>3, <2>2, <2>4 DEF TakeSourceKey, AnswersKey, files, Types, Texts, Tallies
<1> QED  BY <1>2, <1>3

LEMMA ReadTheListTypes == ASSUME Types, ReadTheList PROVE Types'
<1>1. Holdings'
  BY Ways, GoesTypes DEF ReadTheList, Goes, files, Types
<1> QED  BY <1>1 DEF ReadTheList, files, exchange, Types, Texts, Messages, Tallies

LEMMA AddedTypes ==
  ASSUME NEW text \in [lines : Seq(Line), ends : BOOLEAN], NEW key \in Key
  PROVE  /\ Added(text, key) \in [lines : Seq(Line), ends : BOOLEAN]
         /\ Keys(Added(text, key)) = Keys(text) \cup {key}
         /\ Keys(NoText) = {} /\ NoText \in [lines : Seq(Line), ends : BOOLEAN]
<1>1. Added(text, key).lines = Append(text.lines, key) /\ text.lines \in Seq(Line) /\ key \in Line
  BY DEF Added, Line
<1> DEFINE s == text.lines  t == Append(s, key)
<1>2. /\ t \in Seq(Line) /\ DOMAIN t = 1..Len(s) + 1 /\ DOMAIN s = 1..Len(s) /\ Len(s) \in Nat
      /\ t[Len(s) + 1] = key /\ \A i \in 1..Len(s) : t[i] = s[i]
  BY <1>1
<1>3. Added(text, key) \in [lines : Seq(Line), ends : BOOLEAN]
  BY <1>1, <1>2 DEF Added
<1> HIDE DEF s, t
<1>4. {t[i] : i \in DOMAIN t} = {s[i] : i \in DOMAIN s} \cup {key}
  <2>1. \A i \in 1..Len(s) + 1 : i \in 1..Len(s) \/ i = Len(s) + 1
    BY <1>2
  <2>2. Len(s) + 1 \in 1..Len(s) + 1 /\ \A i \in 1..Len(s) : i \in 1..Len(s) + 1
    BY <1>2
  <2> QED  BY <1>2, <2>1, <2>2
<1>5. Keys(Added(text, key)) = Keys(text) \cup {key}
  BY <1>1, <1>4 DEF Keys, s, t
<1>6. Keys(NoText) = {}
  BY DEF Keys, NoText
<1>7. NoText \in [lines : Seq(Line), ends : BOOLEAN]
  BY DEF NoText
<1> QED  BY <1>3, <1>5, <1>6, <1>7

LEMMA AuthorizeTypes == ASSUME Types, Vouching, Authorize PROVE Types'
<1>1. peer[Sink] \in Key
  BY DEF Authorize, Vouching, Reads, Types, Tallies
<1>2. list' \in [lines : Seq(Line), ends : BOOLEAN]
  BY <1>1, AddedTypes DEF Authorize, Types, Texts
<1>3. Holdings' /\ Messages' /\ Tallies'
  BY Ways, OverTypes DEF Authorize
<1> QED  BY <1>2, <1>3 DEF Authorize, Types, Texts

LEMMA ListCutShortTypes == ASSUME Types, ListCutShort PROVE Types'
<1>1. NoText \in [lines : Seq(Line), ends : BOOLEAN]
  BY DEF NoText
<1>2. Holdings' /\ Messages' /\ Tallies'
  BY Ways, OverTypes DEF ListCutShort
<1> QED  BY <1>1, <1>2 DEF ListCutShort, Types, Texts

LEMMA FindTheSinkTypes == ASSUME Types, FindTheSink PROVE Types'
<1>1. Holdings'
  BY Ways, GoesTypes DEF FindTheSink, Goes, files, Types
<1>2. PICK typed \in 0..shown : code' = [code EXCEPT ![Source] = typed]
  BY DEF FindTheSink
<1>3. code' \in [Machine -> 0..Attempts]
  <2>1. typed \in 0..Attempts
    BY DEF Types, Messages
  <2> QED  BY <1>2, <2>1 DEF Types, Messages
<1>4. PICK found \in Found :
       \/ conn' = "Waiting" /\ up' = NoMessage /\ down' = NoMessage /\ UNCHANGED ended
       \/ UNCHANGED <<conn, up, down>> /\ (ended' = ended \/ Ends(Source, "Failed"))
  BY DEF FindTheSink
<1>5. Messages'
  BY <1>3, <1>4 DEF FindTheSink, Types, Messages
<1>6. Tallies'
  BY <1>4, Ways DEF FindTheSink, Types, Tallies, Ends
<1> QED  BY <1>1, <1>5, <1>6 DEF FindTheSink, files, Types, Texts

LEMMA SendOfferTypes == ASSUME Types, SendOffer PROVE Types'
<1>1. Holdings'
  BY Ways, GoesTypes DEF SendOffer, Goes, files, Types
<1>2. SecretOf(code[Source], code[Source]) \in Secret /\ [kind |-> "Offer", n |-> code[Source]] \in Offers
  BY Ways DEF Types, Messages, SecretOf, Secret, Offers
<1>3. Messages'
  BY <1>2, Ways DEF SendOffer, Types, Messages
<1> QED  BY <1>1, <1>3 DEF SendOffer, files, Types, Texts, Tallies

LEMMA SendSourceKeyTypes == ASSUME Types, SendSourceKey PROVE Types'
<1>1. Holdings'
  BY Ways, GoesTypes DEF SendSourceKey, Goes, files, Types
<1>2. mine["PairWith"] \in Key
  BY Ways DEF SendSourceKey, Types, Holdings
<1>3. [kind |-> "Key", under |-> secret[Source], from |-> Source, key |-> mine["PairWith"]] \in Sealed
  BY <1>2, Ways DEF Types, Messages, Sealed
<1>4. Messages' /\ Tallies'
  BY <1>2, <1>3 DEF SendSourceKey, Types, Messages, Tallies
<1> QED  BY <1>1, <1>4 DEF SendSourceKey, files, Types, Texts

LEMMA TakeSinkKeyTypes == ASSUME Types, Turns, TakeSinkKey PROVE Types'
<1>1. down \in Sealed
  BY DEF TakeSinkKey, Turns
<1>2. CASE Opened(down, secret[Source], Sink) = Nothing
  BY <1>2, Ways, OverTypes DEF TakeSinkKey, Types, Texts, files
<1>3. CASE Opened(down, secret[Source], Sink) # Nothing
  <2>1. Opened(down, secret[Source], Sink) \in Key
    BY <1>1, <1>3, Opens
  <2>2. Holdings'
    BY <1>3, Ways, GoesTypes DEF TakeSinkKey, Goes, files, Types
  <2>3. Messages'
    BY <1>3, <2>1, Ways DEF TakeSinkKey, Types, Messages
  <2> QED  BY <1>3, <2>2, <2>3 DEF TakeSinkKey, files, Types, Texts, Tallies
<1> QED  BY <1>2, <1>3

LEMMA PinTheSinkTypes == ASSUME Types, PinTheSink PROVE Types'
<1>1. Holdings' /\ Messages' /\ Tallies'
  BY Ways, OverTypes DEF PinTheSink
<1>2. pinned' \in Key \cup {Nothing, Halfway}
  BY Ways DEF PinTheSink, Types, Messages
<1> QED  BY <1>1, <1>2 DEF PinTheSink, Types, Texts

LEMMA PinCutShortTypes == ASSUME Types, PinCutShort PROVE Types'
<1>1. Holdings' /\ Messages' /\ Tallies'
  BY Ways, OverTypes DEF PinCutShort
<1> QED  BY <1>1 DEF PinCutShort, Types, Texts

LEMMA UnservedTypes == ASSUME Types, Unserved PROVE Types'
<1>1. Holdings'
  BY Ways, GoesTypes DEF Unserved, Goes, files, Types
<1>2. Tallies'
  BY Ways DEF Unserved, Ends, Types, Tallies
<1> QED  BY <1>1, <1>2 DEF Unserved, files, exchange, Types, Texts, Messages

LEMMA CallRefusedTypes == ASSUME Types, CallRefused PROVE Types'
  BY Ways, StopsTypes DEF CallRefused

LEMMA TypesStep ==
  ASSUME Types, Codes, Turns, Vouching, [Next]_vars
  PROVE  Types'
<1>1. CASE UNCHANGED vars
  BY <1>1 DEF vars, files, exchange, Types, Holdings, Texts, Messages, Tallies
<1>2. ASSUME NEW p \in Runs, Step(p) PROVE Types'
  BY <1>2, StepTypes DEF Process
<1>3. CASE PairSteps
  BY <1>3, Ways, StepTypes, ShowTheCodeTypes, AnotherMachineTypes, TakeOfferTypes, TakeSourceKeyTypes,
     ReadTheListTypes, AuthorizeTypes, NothingCameTypes DEF PairSteps
<1>4. CASE PairWithSteps
  BY <1>4, Ways, StepTypes, FindTheSinkTypes, SendOfferTypes, SendSourceKeyTypes, TakeSinkKeyTypes,
     PinTheSinkTypes, NothingCameTypes, UnservedTypes DEF PairWithSteps
<1> QED  BY <1>1, <1>2, <1>3, <1>4, AcceptTypes, ListCutShortTypes, PinCutShortTypes, CallRefusedTypes DEF Next

-----------------------------------------------------------------------------
(* One connection to a code.                                               *)

LEMMA StepMoves ==
  ASSUME Types, NEW p \in Process, Step(p)
  PROVE  /\ UNCHANGED <<list, pinned, shown, exchange, served, knew>>
         /\ \A q \in Process : q # p => at'[q] = at[q] /\ mine'[q] = mine[q]
         /\ at[p] \in {"Off", "Open", "Write"} /\ at'[p] \in Waits
         /\ \/ at[p] # "Off" /\ ended' = ended
            \/ at[p] = "Off" /\ ended' = IF p \in {"Pair", "PairWith"}
                                         THEN [ended EXCEPT ![On(p)] = "NotYet"] ELSE ended
         /\ p = "Pair" /\ at[p] = "Off" => shown < Attempts
<1>1. Next1(p) \in Waits /\ {"Off", "Linkless", "Open", "Write"} \subseteq Waits
  BY DEF Waits, Next1
<1>2. CASE ReadIdentity(p)
  <2>1. MayStart(p)
    BY <1>2 DEF ReadIdentity
  <2>2. PICK k \in Key \cup {Nothing}, s \in Places :
          /\ mine' = [mine EXCEPT ![p] = k] /\ at' = [at EXCEPT ![p] = s]
          /\ s \in {"Open", "Off", "Linkless", Next1(p)}
    BY <1>2, ReadsIdentity
  <2>3. /\ UNCHANGED <<list, pinned, shown, exchange, served, knew>>
        /\ ended' = IF p \in {"Pair", "PairWith"} THEN [ended EXCEPT ![On(p)] = "NotYet"] ELSE ended
    BY <1>2, ReadsIdentity
  <2> QED  BY <1>1, <2>1, <2>2, <2>3 DEF MayStart, Types, Holdings
<1>3. CASE OpenIdentity(p)
  BY <1>1, <1>3, OpensIdentity DEF Types, Holdings
<1>4. CASE WriteIdentity(p)
  BY <1>1, <1>4, WritesIdentity DEF Types, Holdings
<1> QED  BY <1>2, <1>3, <1>4 DEF Step

LEMMA OverMoves ==
  ASSUME Types, NEW m \in Machine, NEW how, Over(m, how)
  PROVE  /\ at'["Pair"] = IF m = Sink THEN "Off" ELSE at["Pair"]
         /\ at'["PairWith"] = IF m = Source THEN "Off" ELSE at["PairWith"]
         /\ \A p \in Process : p \notin {"Pair", "PairWith"} => at'[p] = at[p]
         /\ ended'[m] = how /\ \A q \in Machine : q # m => ended'[q] = ended[q]
         /\ secret'[m] = NoSecret /\ \A q \in Machine : q # m => secret'[q] = secret[q]
         /\ peer'[m] = Nothing /\ \A q \in Machine : q # m => peer'[q] = peer[q]
         /\ conn' = IF conn = "None" THEN conn ELSE "Gone"
         /\ up' = IF m = Sink THEN NoMessage ELSE up
         /\ down' = IF m = Source THEN NoMessage ELSE down
  BY DEF Over, Goes, Ends, Types, Holdings, Messages, Tallies, Process, Machine, Sink, Source

(* Every way an end has of leaving the exchange.                           *)
Leaves(m) ==
  /\ Over(m, "Pinned") \/ Over(m, "Failed") \/ Over(m, "Interrupted")
  /\ at[IF m = Sink THEN "Pair" ELSE "PairWith"] \notin Waits
  /\ UNCHANGED <<identity, made, mine, shown, code, served, knew>>
  /\ \/ UNCHANGED <<list, pinned, excused>> /\ ended'[m] # "Pinned"
     \/ m = Sink /\ (Authorize \/ ListCutShort) /\ UNCHANGED pinned
     \/ m = Source /\ (PinTheSink \/ PinCutShort) /\ UNCHANGED <<list, excused>>

LEMMA Leaving ==
  ASSUME Types
  PROVE  /\ AnotherMachine => Leaves(Sink)
         /\ TakeSourceKey /\ Opened(up, secret[Sink], Source) = Nothing => Leaves(Sink)
         /\ Authorize \/ ListCutShort => Leaves(Sink)
         /\ TakeSinkKey /\ Opened(down, secret[Source], Sink) = Nothing => Leaves(Source)
         /\ PinTheSink \/ PinCutShort => Leaves(Source)
         /\ NothingCame("Pair", Sink, up) => Leaves(Sink)
         /\ NothingCame("PairWith", Source, down) => Leaves(Source)
         /\ CallRefused => Leaves(Sink) \/ Leaves(Source)
<1>1. \A m \in Machine, how \in {"Failed", "Interrupted"} : Over(m, how) => ended'[m] # "Pinned"
  BY DEF Over, Ends, Types, Tallies
<1>2. AnotherMachine => Leaves(Sink)
  BY <1>1, Ways DEF AnotherMachine, WrongCode, Leaves, files, Waits
<1>3. TakeSourceKey /\ Opened(up, secret[Sink], Source) = Nothing => Leaves(Sink)
  BY <1>1, Ways DEF TakeSourceKey, AnswersKey, WrongCode, Leaves, files, Waits
<1>4. Authorize \/ ListCutShort => Leaves(Sink)
  BY DEF Authorize, ListCutShort, Leaves, Waits
<1>5. TakeSinkKey /\ Opened(down, secret[Source], Sink) = Nothing => Leaves(Source)
  BY <1>1, Ways DEF TakeSinkKey, Leaves, files, Waits
<1>6. PinTheSink \/ PinCutShort => Leaves(Source)
  BY Ways DEF PinTheSink, PinCutShort, Leaves, Waits
<1>7. NothingCame("Pair", Sink, up) => Leaves(Sink)
  BY <1>1, Ways DEF NothingCame, Leaves, files, Waits
<1>8. NothingCame("PairWith", Source, down) => Leaves(Source)
  BY <1>1, Ways DEF NothingCame, Leaves, files, Waits
<1>9. CallRefused => Leaves(Sink) \/ Leaves(Source)
  <2>1. ASSUME NEW step \in {"TakeOffer", "TakeKey", "Accept"}, NEW how \in {"Failed", "Interrupted"},
               Stops("Pair", step, Sink, how)
        PROVE  Leaves(Sink)
    BY <1>1, <2>1, Ways DEF Stops, Leaves, files, Waits
  <2>2. ASSUME NEW step \in {"Offer", "TakeAnswer", "TakeKey"},
               Stops("PairWith", step, Source, "Interrupted")
        PROVE  Leaves(Source)
    BY <1>1, <2>2, Ways DEF Stops, Leaves, files, Waits
  <2> QED  BY <2>1, <2>2 DEF CallRefused
<1> QED  BY <1>2, <1>3, <1>4, <1>5, <1>6, <1>7, <1>8, <1>9

(* All the steps there are.                                                *)
LEMMA EveryStep ==
  ASSUME Types, [Next]_vars
  PROVE  \/ UNCHANGED vars
         \/ \E p \in Process : Step(p)
         \/ \E m \in Machine : Leaves(m)
         \/ ShowTheCode \/ Accept \/ TakeOffer \/ ReadTheList
         \/ TakeSourceKey /\ Opened(up, secret[Sink], Source) # Nothing
         \/ FindTheSink \/ SendOffer \/ SendSourceKey \/ Unserved
         \/ TakeSinkKey /\ Opened(down, secret[Source], Sink) # Nothing
  BY Leaving, Ways DEF Next, PairSteps, PairWithSteps, Process

LEMMA CodesKept ==
  ASSUME Codes, UNCHANGED <<shown, code, served>>,
         \/ at'["Pair"] = at["Pair"]
         \/ at'["Pair"] \in {"Off", "Linkless"}
         \/ /\ at["Pair"] \in Listens \cup Reads \cup {"TakeOffer", "TakeKey"}
            /\ at'["Pair"] \in {"Other", "TakeOffer", "TakeKey"} \cup Reads
  PROVE  Codes'
  BY DEF Codes, Listens, Reads

LEMMA CodesStep ==
  ASSUME Types, Codes, [Next]_vars
  PROVE  Codes'
<1>1. CASE UNCHANGED vars
  BY <1>1 DEF vars, exchange, Codes
<1>2. ASSUME NEW p \in Process, Step(p) PROVE Codes'
  <2>1. UNCHANGED <<shown, code, served>>
    BY <1>2, StepMoves DEF exchange
  <2>2. CASE p = "Pair"
    <3>1. /\ at["Pair"] \in {"Off", "Open", "Write"} /\ at'["Pair"] \in Waits
          /\ at["Pair"] = "Off" => shown < Attempts
      BY <1>2, <2>2, StepMoves
    <3>2. shown < Attempts
      BY <3>1 DEF Codes
    <3> QED  BY <2>1, <3>1, <3>2 DEF Codes, Waits, Listens, Reads
  <2>3. CASE p # "Pair"
    BY <1>2, <2>1, <2>3, CodesKept, StepMoves, Ways
  <2> QED  BY <2>2, <2>3
<1>3. ASSUME NEW m \in Machine, Leaves(m) PROVE Codes'
  BY <1>3, OverMoves, CodesKept DEF Leaves
<1>4. CASE ShowTheCode
  <2>1. at["Pair"] = "Listen" /\ UNCHANGED served
    BY <1>4 DEF ShowTheCode
  <2>2. CASE shown' = shown + 1 /\ code' = [code EXCEPT ![Sink] = shown + 1] /\ at'["Pair"] = "Accept"
    <3>1. code'[Sink] = shown' /\ code'[Source] = code[Source] /\ shown \in Nat /\ code[Source] \in Nat
      BY <2>2, Ways DEF Types, Messages
    <3> QED  BY <2>1, <2>2, <3>1 DEF Codes
  <2>3. CASE UNCHANGED <<shown, code>> /\ at'["Pair"] = "Off"
    BY <2>1, <2>3, CodesKept
  <2> QED  BY <1>4, <2>2, <2>3, Ways DEF ShowTheCode, Goes, Types, Holdings
<1>5. CASE Accept
  <2>1. at["Pair"] = "Accept" /\ at'["Pair"] \in {"TakeOffer", "Other"} /\ UNCHANGED <<shown, code>>
    BY <1>5, Ways DEF Accept, Goes, Types, Holdings
  <2>2. served' = [served EXCEPT ![shown] = served[shown] + 1]
    BY <1>5 DEF Accept, Codes
  <2>3. \A c \in 1..Attempts : served'[c] = IF c = shown THEN served[c] + 1 ELSE served[c]
    BY <2>2 DEF Types, Tallies
  <2>4. shown \in Nat /\ \A c \in 1..Attempts : served[c] \in Nat /\ (c = shown => served[c] = 0)
    BY <2>1 DEF Codes, Types, Tallies, Messages
  <2> QED  BY <2>1, <2>3, <2>4 DEF Codes, Listens, Reads
<1>6. CASE FindTheSink
  <2>1. UNCHANGED <<shown, served>> /\ at'["Pair"] = at["Pair"]
    BY <1>6, Ways DEF FindTheSink, Goes, Types, Holdings
  <2>2. PICK typed \in 0..shown : code' = [code EXCEPT ![Source] = typed]
    BY <1>6 DEF FindTheSink
  <2>3. code'[Sink] = code[Sink] /\ code'[Source] <= shown
    BY <2>2, Ways DEF Types, Messages
  <2> QED  BY <2>1, <2>3 DEF Codes
<1>7. CASE TakeOffer
  BY <1>7, CodesKept, Ways DEF TakeOffer, Goes, Types, Holdings
<1>8. CASE ReadTheList
  <2>1. /\ at["Pair"] \in Reads /\ at'["Pair"] \in Reads /\ UNCHANGED <<shown, code, served>>
    BY <1>8, Ways DEF ReadTheList, exchange, Goes, Types, Holdings, Reads
  <2> QED  BY <2>1, CodesKept
<1>9. CASE TakeSourceKey /\ Opened(up, secret[Sink], Source) # Nothing
  <2>1. /\ at["Pair"] = "TakeKey" /\ at'["Pair"] \in Reads /\ UNCHANGED <<shown, code, served>>
    BY <1>9, Ways DEF TakeSourceKey, AnswersKey, Goes, Types, Holdings, Reads
  <2> QED  BY <2>1, CodesKept
<1>10. CASE SendOffer \/ SendSourceKey \/ Unserved
  BY <1>10, CodesKept, Ways DEF SendOffer, SendSourceKey, Unserved, exchange, Goes, Types, Holdings
<1>11. CASE TakeSinkKey /\ Opened(down, secret[Source], Sink) # Nothing
  BY <1>11, CodesKept, Ways DEF TakeSinkKey, Goes, Types, Holdings
<1> QED  BY <1>1, <1>2, <1>3, <1>4, <1>5, <1>6, <1>7, <1>8, <1>9, <1>10, <1>11, EveryStep

-----------------------------------------------------------------------------
(* Whose turn it is.                                                       *)

LEMMA TurnsStep ==
  ASSUME Types, Turns, [Next]_vars
  PROVE  Turns'
<1>1. CASE UNCHANGED vars
  BY <1>1 DEF vars, exchange, Turns
<1>2. ASSUME NEW p \in Process, Step(p) PROVE Turns'
  <2>1. /\ UNCHANGED <<conn, up, down>>
        /\ p # "Pair" => at'["Pair"] = at["Pair"]
        /\ p # "PairWith" => at'["PairWith"] = at["PairWith"]
        /\ at[p] \in {"Off", "Open", "Write"} /\ at'[p] \in Waits
    BY <1>2, StepMoves, Ways DEF exchange
  <2>2. CASE p = "Pair"
    BY <2>1, <2>2 DEF Turns, Listens, Waits
  <2>3. CASE p = "PairWith"
    BY <2>1, <2>3 DEF Turns, Listens, Waits
  <2>4. CASE p \notin {"Pair", "PairWith"}
    BY <2>1, <2>4 DEF Turns
  <2> QED  BY <2>2, <2>3, <2>4
<1>3. ASSUME NEW m \in Machine, Leaves(m) PROVE Turns'
  <2>1. PICK how : Over(m, how)
    BY <1>3 DEF Leaves
  <2>2. CASE m = Sink
    BY <2>1, <2>2, OverMoves, Ways DEF Turns, Types, Messages
  <2>3. CASE m = Source
    BY <2>1, <2>3, OverMoves, Ways DEF Turns, Types, Messages
  <2> QED  BY <2>2, <2>3 DEF Machine
<1>4. CASE ShowTheCode
  <2>1. /\ at["Pair"] = "Listen" /\ at'["Pair"] \in {"Accept", "Off"} /\ at'["PairWith"] = at["PairWith"]
        /\ UNCHANGED <<conn, up, down>>
    BY <1>4, Ways DEF ShowTheCode, Goes, Types, Holdings
  <2> QED  BY <2>1 DEF Turns, Listens
<1>5. CASE Accept
  <2>1. /\ at["Pair"] = "Accept" /\ at'["PairWith"] = at["PairWith"] /\ UNCHANGED <<up, down>>
        /\ \/ conn = "Waiting" /\ conn' = "Taken" /\ at'["Pair"] = "TakeOffer"
           \/ at'["Pair"] = "Other" /\ conn' = conn
    BY <1>5, Ways DEF Accept, Goes, Types, Holdings
  <2> QED  BY <2>1, Kinds DEF Turns, Listens
<1>6. CASE TakeOffer
  <2>1. /\ at["Pair"] = "TakeOffer" /\ at'["Pair"] = "TakeKey" /\ at'["PairWith"] = at["PairWith"]
        /\ up # NoMessage /\ up' = NoMessage /\ conn' = conn
    BY <1>6, Ways DEF TakeOffer, Goes, Types, Holdings
  <2> QED  BY <2>1 DEF Turns, Listens
<1>7. CASE ReadTheList
  <2>1. /\ at["Pair"] \in Reads /\ at'["Pair"] \in Reads /\ at'["PairWith"] = at["PairWith"]
        /\ UNCHANGED <<conn, up, down>>
    BY <1>7, Ways DEF ReadTheList, exchange, Goes, Types, Holdings, Reads
  <2> QED  BY <2>1 DEF Turns, Listens, Reads
<1>8. CASE TakeSourceKey /\ Opened(up, secret[Sink], Source) # Nothing
  <2>1. /\ at["Pair"] = "TakeKey" /\ at'["Pair"] = "Read" /\ at'["PairWith"] = at["PairWith"]
        /\ conn' = conn /\ up' = NoMessage
        /\ down' = [kind |-> "Key", under |-> secret[Sink], from |-> Sink, key |-> mine["Pair"]]
    BY <1>8, Ways DEF TakeSourceKey, AnswersKey, Goes, Types, Holdings
  <2>2. down' \in Sealed
    BY <2>1, Ways DEF Types, Holdings, Messages, Sealed
  <2> QED  BY <2>1, <2>2 DEF Turns, Listens
<1>9. CASE FindTheSink
  <2>1. /\ at["PairWith"] = "Find" /\ at'["Pair"] = at["Pair"]
        /\ \/ /\ at["Pair"] \in Listens /\ at'["PairWith"] = "Offer"
              /\ conn' = "Waiting" /\ up' = NoMessage /\ down' = NoMessage
           \/ at'["PairWith"] \in {"Unserved", "Off"} /\ UNCHANGED <<conn, up, down>>
    BY <1>9, Ways DEF FindTheSink, Found, Goes, Types, Holdings, Listens
  <2> QED  BY <2>1 DEF Turns, Listens
<1>10. CASE SendOffer
  <2>1. /\ at["PairWith"] = "Offer" /\ at'["PairWith"] = "TakeAnswer" /\ at'["Pair"] = at["Pair"]
        /\ up' = [kind |-> "Offer", n |-> code[Source]] /\ UNCHANGED <<conn, down>>
    BY <1>10, Ways DEF SendOffer, Goes, Types, Holdings
  <2>2. up' \in Offers
    BY <2>1, Ways DEF Types, Messages, Offers
  <2> QED  BY <2>1, <2>2 DEF Turns, Listens
<1>11. CASE SendSourceKey
  <2>1. /\ at["PairWith"] = "TakeAnswer" /\ at'["PairWith"] = "TakeKey" /\ at'["Pair"] = at["Pair"]
        /\ up' = [kind |-> "Key", under |-> secret[Source], from |-> Source, key |-> mine["PairWith"]]
        /\ down # NoMessage /\ down' = NoMessage /\ conn' = conn
    BY <1>11, Ways DEF SendSourceKey, Goes, Types, Holdings
  <2>2. up' \in Sealed
    BY <2>1, Ways DEF Types, Holdings, Messages, Sealed
  <2> QED  BY <2>1, <2>2 DEF Turns, Listens
<1>12. CASE Unserved
  <2>1. /\ at["PairWith"] = "Unserved" /\ at'["PairWith"] = "Off" /\ at'["Pair"] = at["Pair"]
        /\ UNCHANGED <<conn, up, down>>
    BY <1>12, Ways DEF Unserved, exchange, Goes, Types, Holdings
  <2> QED  BY <2>1 DEF Turns, Listens
<1>13. CASE TakeSinkKey /\ Opened(down, secret[Source], Sink) # Nothing
  <2>1. /\ at["PairWith"] = "TakeKey" /\ at'["PairWith"] = "Pin" /\ at'["Pair"] = at["Pair"]
        /\ UNCHANGED <<conn, up>> /\ down' = NoMessage
    BY <1>13, Ways DEF TakeSinkKey, Goes, Types, Holdings
  <2> QED  BY <2>1 DEF Turns, Listens
<1> QED  BY <1>1, <1>2, <1>3, <1>4, <1>5, <1>6, <1>7, <1>8, <1>9, <1>10, <1>11, <1>12, <1>13, EveryStep

-----------------------------------------------------------------------------
(* What the code vouches for.                                              *)

LEMMA VouchingStep ==
  ASSUME Types, Codes, Turns, Vouching, [Next]_vars
  PROVE  Vouching'
<1>1. CASE UNCHANGED vars
  BY <1>1 DEF vars, files, exchange, Vouching, Keys
<1>2. ASSUME NEW p \in Process, Step(p) PROVE Vouching'
  <2>1. /\ UNCHANGED <<list, shown, code, secret, peer, up, down, knew>>
        /\ p # "Pair" => at'["Pair"] = at["Pair"]
        /\ p # "PairWith" => at'["PairWith"] = at["PairWith"] /\ mine'["PairWith"] = mine["PairWith"]
        /\ at[p] \in {"Off", "Open", "Write"} /\ at'[p] \in Waits
    BY <1>2, StepMoves, Ways DEF exchange
  <2>2. /\ p # "PairWith" => ended'[Source] = ended[Source]
        /\ p = "PairWith" /\ at[p] = "Off" => ended'[Source] = "NotYet"
        /\ p = "PairWith" /\ at[p] # "Off" => ended' = ended
    <3>1. /\ at[p] # "Off" => ended' = ended
          /\ at[p] = "Off" => ended' = IF p \in {"Pair", "PairWith"}
                                       THEN [ended EXCEPT ![On(p)] = "NotYet"] ELSE ended
      BY <1>2, StepMoves
    <3>2. (p = "Pair" => On(p) = Sink) /\ (p = "PairWith" => On(p) = Source)
      BY DEF On
    <3> QED  BY <3>1, <3>2, Ways DEF Types, Tallies
  <2>3. CASE p = "Pair"
    BY <2>1, <2>2, <2>3 DEF Vouching, Waits, Reads, Keys
  <2>4. CASE p = "PairWith"
    BY <2>1, <2>2, <2>4 DEF Vouching, Waits, Keys
  <2>5. CASE p \notin {"Pair", "PairWith"}
    BY <2>1, <2>2, <2>5 DEF Vouching, Keys
  <2> QED  BY <2>3, <2>4, <2>5
<1>3. ASSUME NEW m \in Machine, Leaves(m) PROVE Vouching'
  <2>1. PICK how : Over(m, how)
    BY <1>3 DEF Leaves
  <2>2. UNCHANGED <<mine, shown, code, knew>>
    BY <1>3 DEF Leaves
  <2>3. Keys(list') \subseteq {Earlier} \cup knew
    <3>1. CASE UNCHANGED list
      BY <3>1 DEF Vouching
    <3>2. CASE Authorize
      <4>1. peer[Sink] \in knew /\ peer[Sink] \in Key
        BY <3>2 DEF Authorize, Vouching, Reads, Types, Tallies
      <4>2. list \in [lines : Seq(Line), ends : BOOLEAN] /\ NoText \in [lines : Seq(Line), ends : BOOLEAN]
        BY <4>1, AddedTypes DEF Types, Texts
      <4>3. Keys(list') = Keys(list) \cup {peer[Sink]} \/ Keys(list') = {peer[Sink]}
        BY <3>2, <4>1, <4>2, AddedTypes DEF Authorize
      <4> QED  BY <4>1, <4>3 DEF Vouching
    <3>3. CASE ListCutShort
      <4>1. list' = list \/ list' = NoText
        BY <3>3 DEF ListCutShort
      <4>2. Keys(NoText) = {}
        BY DEF Keys, NoText
      <4> QED  BY <4>1, <4>2 DEF Vouching
    <3> QED  BY <1>3, <3>1, <3>2, <3>3 DEF Leaves
  <2>4. Keys(list)' = Keys(list')
    BY DEF Keys
  <2>5. CASE m = Sink
    <3>1. /\ at'["Pair"] = "Off" /\ at'["PairWith"] = at["PairWith"] /\ up' = NoMessage /\ down' = down
          /\ secret'[Source] = secret[Source] /\ ended'[Source] = ended[Source]
      BY <2>1, <2>5, OverMoves, Ways
    <3>2. up' \notin Sealed
      BY <3>1, Kinds
    <3> QED  BY <2>2, <2>3, <2>4, <3>1, <3>2 DEF Vouching, Reads
  <2>6. CASE m = Source
    <3>1. /\ at'["PairWith"] = "Off" /\ at'["Pair"] = at["Pair"] /\ up' = up /\ down' = NoMessage
          /\ secret'[Sink] = secret[Sink] /\ peer'[Sink] = peer[Sink] /\ m # Sink
      BY <2>1, <2>6, OverMoves, Ways
    <3>2. ended'[Source] = "Pinned" => mine["PairWith"] \in knew
      <4>1. ended'[Source] = "Pinned" => at["PairWith"] = "Pin"
        BY <1>3, <2>6, Ways DEF Leaves, PinTheSink, PinCutShort
      <4> QED  BY <4>1 DEF Vouching
    <3> QED  BY <2>2, <2>3, <2>4, <3>1, <3>2 DEF Vouching, Reads
  <2> QED  BY <2>5, <2>6 DEF Machine
<1>4. CASE ShowTheCode
  <2>1. /\ at["Pair"] = "Listen" /\ at'["Pair"] \in {"Accept", "Off"} /\ at'["PairWith"] = at["PairWith"]
        /\ UNCHANGED <<list, secret, peer, up, down, mine, knew>>
        /\ ended'[Source] = ended[Source]
        /\ code'[Source] = code[Source] /\ (shown' = shown \/ shown' = shown + 1)
    BY <1>4, Ways DEF ShowTheCode, files, Ends, Goes, Types, Holdings, Messages, Tallies
  <2>2. shown \in Nat /\ (up \in Sealed => up.under.code \in Nat)
    BY DEF Types, Messages, Sealed, Secret
  <2>3. up \in Sealed => up.under.code <= shown' /\ (up.under.code = shown' => shown' = shown)
    BY <2>1, <2>2 DEF Vouching
  <2> QED  BY <2>1, <2>3 DEF Vouching, Reads, Keys
<1>5. CASE Accept
  <2>1. /\ at["Pair"] = "Accept" /\ at'["PairWith"] = at["PairWith"]
        /\ UNCHANGED <<list, shown, code, secret, peer, up, down, mine, knew, ended>>
        /\ at'["Pair"] \in {"TakeOffer", "Other"}
    BY <1>5, Ways DEF Accept, files, Goes, Types, Holdings
  <2> QED  BY <2>1 DEF Vouching, Reads, Keys
<1>6. CASE TakeOffer
  <2>1. /\ at["Pair"] = "TakeOffer" /\ at'["Pair"] = "TakeKey" /\ at'["PairWith"] = at["PairWith"]
        /\ up' = NoMessage /\ UNCHANGED <<list, shown, code, peer, mine, knew, ended>>
        /\ secret'[Source] = secret[Source] /\ secret'[Sink] = SecretOf(code[Sink], up.n)
    BY <1>6, Ways DEF TakeOffer, files, Goes, Types, Holdings, Messages
  <2>2. secret'[Sink].code = shown'
    BY <2>1 DEF SecretOf, Codes
  <2>3. up' \notin Sealed /\ at'["PairWith"] \notin {"TakeKey", "Pin"}
    BY <2>1, Kinds DEF Turns
  <2> QED  BY <2>1, <2>2, <2>3 DEF Vouching, Reads, Keys
<1>7. CASE ReadTheList
  <2>1. /\ at["Pair"] = "Read" /\ at'["Pair"] \in Reads /\ at'["PairWith"] = at["PairWith"]
        /\ UNCHANGED <<list, shown, code, secret, peer, up, down, mine, knew, ended>>
    BY <1>7, Ways DEF ReadTheList, files, exchange, Goes, Types, Holdings, Reads
  <2> QED  BY <2>1 DEF Vouching, Reads, Keys
<1>8. CASE TakeSourceKey /\ Opened(up, secret[Sink], Source) # Nothing
  <2>1. /\ at["Pair"] = "TakeKey" /\ at'["Pair"] = "Read" /\ at'["PairWith"] = at["PairWith"]
        /\ up # NoMessage /\ up' = NoMessage
        /\ peer'[Sink] = Opened(up, secret[Sink], Source)
        /\ UNCHANGED <<list, shown, code, secret, mine, knew, ended>>
    BY <1>8, Ways DEF TakeSourceKey, AnswersKey, files, Goes, Types, Holdings, Messages
  <2>2. up \in Sealed /\ up' \notin Sealed
    BY <2>1, Kinds DEF Turns
  <2>3. Opened(up, secret[Sink], Source) = up.key /\ up.under = secret[Sink]
    BY <1>8, <2>2, Opens
  <2>4. up.key \in knew /\ (at["PairWith"] = "TakeKey" => up.key = mine["PairWith"])
    BY <2>1, <2>2, <2>3 DEF Vouching
  <2> QED  BY <2>1, <2>2, <2>3, <2>4 DEF Vouching, Keys
<1>9. CASE FindTheSink
  <2>1. /\ at["PairWith"] = "Find" /\ at'["Pair"] = at["Pair"]
        /\ at'["PairWith"] \in {"Offer", "Unserved", "Off"}
        /\ up' \in {NoMessage, up}
        /\ UNCHANGED <<list, shown, secret, peer, mine, knew>>
        /\ code'[Sink] = code[Sink] /\ ended'[Source] \in {ended[Source], "Failed"}
    BY <1>9, Ways DEF FindTheSink, files, Ends, Goes, Types, Holdings, Messages, Tallies
  <2>2. NoMessage \notin Sealed
    BY Kinds
  <2> QED  BY <2>1, <2>2 DEF Vouching, Keys
<1>10. CASE SendOffer
  <2>1. /\ at["PairWith"] = "Offer" /\ at'["PairWith"] = "TakeAnswer" /\ at'["Pair"] = at["Pair"]
        /\ up' = [kind |-> "Offer", n |-> code[Source]]
        /\ secret'[Source] = SecretOf(code[Source], code[Source]) /\ secret'[Sink] = secret[Sink]
        /\ UNCHANGED <<list, shown, code, peer, mine, knew, ended>>
    BY <1>10, Ways DEF SendOffer, files, Goes, Types, Holdings, Messages
  <2>2. up' \notin Sealed
    <3>1. up'.kind = "Offer"
      BY <2>1
    <3> QED  BY <3>1, Kinds
  <2> QED  BY <2>1, <2>2 DEF Vouching, Keys
<1>11. CASE SendSourceKey
  <2>1. /\ at["PairWith"] = "TakeAnswer" /\ at'["PairWith"] = "TakeKey" /\ at'["Pair"] = at["Pair"]
        /\ up' = [kind |-> "Key", under |-> secret[Source], from |-> Source, key |-> mine["PairWith"]]
        /\ down' = NoMessage
        /\ knew' = IF code[Source] = code[Sink] THEN knew \cup {mine["PairWith"]} ELSE knew
        /\ UNCHANGED <<list, shown, code, secret, peer, mine, ended>>
    BY <1>11, Ways DEF SendSourceKey, files, Goes, Types, Holdings
  <2>2. down' \notin Sealed
    BY <2>1, Kinds
  <2>3. /\ up'.key = mine["PairWith"] /\ up'.under = SecretOf(code[Source], code[Source])
    BY <2>1 DEF Vouching
  <2>4. up'.under.code = code[Source]
    BY <2>3 DEF SecretOf
  <2>5. code[Sink] = shown /\ code[Source] <= shown
    BY DEF Codes
  <2> QED  BY <2>1, <2>2, <2>3, <2>4, <2>5 DEF Vouching, Keys
<1>12. CASE Unserved
  <2>1. /\ at["PairWith"] = "Unserved" /\ at'["PairWith"] = "Off" /\ at'["Pair"] = at["Pair"]
        /\ UNCHANGED <<list, shown, code, secret, peer, up, down, mine, knew>>
        /\ ended'[Source] = "Interrupted"
    BY <1>12, Ways DEF Unserved, files, exchange, Ends, Goes, Types, Holdings, Tallies
  <2> QED  BY <2>1 DEF Vouching, Keys
<1>13. CASE TakeSinkKey /\ Opened(down, secret[Source], Sink) # Nothing
  <2>1. /\ at["PairWith"] = "TakeKey" /\ at'["PairWith"] = "Pin" /\ at'["Pair"] = at["Pair"]
        /\ down # NoMessage
        /\ peer'[Sink] = peer[Sink]
        /\ UNCHANGED <<list, shown, code, secret, up, mine, knew, ended>>
    BY <1>13, Ways DEF TakeSinkKey, files, Goes, Types, Holdings, Messages
  <2>2. down \in Sealed
    BY <2>1 DEF Turns
  <2> QED  BY <2>1, <2>2 DEF Vouching, Keys
<1> QED  BY <1>1, <1>2, <1>3, <1>4, <1>5, <1>6, <1>7, <1>8, <1>9, <1>10, <1>11, <1>12, <1>13, EveryStep

-----------------------------------------------------------------------------
(* One identity of each machine, and what of it each end has.              *)

LEMMA IdentityKept ==
  ASSUME Types, NEW m \in Machine, Unmixed(m), NEW p \in Process, Step(p), m \notin excused'
  PROVE  m \notin excused /\ (identity[m] \in Key => identity'[m] = identity[m])
<1>1. On(p) \in Machine
  BY DEF On, Machine
<1>2. CASE ReadIdentity(p)
  BY <1>2, ReadsIdentity
<1>3. CASE OpenIdentity(p)
  BY <1>1, <1>3, OpensIdentity, Marks DEF Types, Holdings
<1>4. CASE WriteIdentity(p)
  <2>1. m \notin excused /\ at[p] = "Write"
    BY <1>4, WritesIdentity
  <2>2. On(p) = m => identity[m] = Halfway
    BY <2>1 DEF Unmixed
  <2> QED  BY <1>1, <1>4, <2>1, <2>2, WritesIdentity, Marks DEF Types, Holdings
<1> QED  BY <1>2, <1>3, <1>4 DEF Step

LEMMA UnmixedStep ==
  ASSUME Types, NEW m \in Machine, Unmixed(m), NEW p \in Process, Step(p)
  PROVE  Unmixed(m)'
<1> SUFFICES ASSUME m \notin excused'
             PROVE  /\ \A q \in Process : On(q) = m =>
                         /\ at'[q] = "Write" => identity'[m] = Halfway
                         /\ mine'[q] = Nothing \/ at'[q] \in {"Open", "Write"} \/ mine'[q] = identity'[m]
                    /\ \A q, r \in Process :
                         On(q) = m /\ On(r) = m /\ at'[q] = "Write" /\ at'[r] = "Write" => q = r
  BY DEF Unmixed
<1>1. On(p) \in Machine /\ m \notin excused /\ (identity[m] \in Key => identity'[m] = identity[m])
  BY IdentityKept DEF On, Machine
<1>2. /\ \A q \in Process : On(q) = m =>
           /\ at[q] = "Write" => identity[m] = Halfway
           /\ mine[q] = Nothing \/ at[q] \in {"Open", "Write"} \/ mine[q] = identity[m]
      /\ \A q, r \in Process :
           On(q) = m /\ On(r) = m /\ at[q] = "Write" /\ at[r] = "Write" => q = r
  BY <1>1 DEF Unmixed
<1>3. Next1(p) \notin {"Open", "Write"}
  BY DEF Next1
<1>4. at \in [Process -> Places] /\ mine \in [Process -> Key \cup {Nothing}]
      /\ identity \in [Machine -> Key \cup {Nothing, Halfway}]
  BY DEF Types, Holdings
<1>5. CASE ReadIdentity(p)
  <2>1. PICK k \in Key \cup {Nothing}, s \in Places :
          /\ mine' = [mine EXCEPT ![p] = k] /\ at' = [at EXCEPT ![p] = s]
          /\ \/ identity[On(p)] = Nothing /\ k # Nothing /\ k.of = On(p) /\ s = "Open"
             \/ k = Nothing /\ s \in {"Off", "Linkless"}
             \/ identity[On(p)] \in Key /\ k = identity[On(p)] /\ s = Next1(p)
    BY <1>5, ReadsIdentity
  <2>2. identity' = identity
    BY <1>5, ReadsIdentity
  <2>3. s # "Write" /\ (k = Nothing \/ s = "Open" \/ k = identity[On(p)])
    BY <1>3, <2>1
  <2> QED  BY <1>1, <1>2, <1>4, <2>1, <2>2, <2>3
<1>6. CASE OpenIdentity(p)
  <2>1. CASE /\ identity' = [identity EXCEPT ![On(p)] = Halfway]
             /\ excused' = (IF identity[On(p)] = Nothing THEN excused ELSE excused \cup {On(p)})
             /\ at' = [at EXCEPT ![p] = "Write"] /\ mine' = mine
    <3>1. CASE On(p) = m
      <4>1. identity[m] = Nothing /\ identity'[m] = Halfway
        BY <1>4, <2>1, <3>1
      <4>2. \A q \in Process : On(q) = m => at[q] # "Write" /\ (mine[q] = Nothing \/ at[q] = "Open")
        BY <1>2, <4>1, Marks
      <4> QED  BY <1>4, <2>1, <3>1, <4>1, <4>2
    <3>2. CASE On(p) # m
      <4>1. identity'[m] = identity[m] /\ \A q \in Process : On(q) = m => at'[q] = at[q] /\ mine'[q] = mine[q]
        BY <1>4, <2>1, <3>2
      <4> QED  BY <1>2, <4>1
    <3> QED  BY <3>1, <3>2
  <2>2. ASSUME NEW s \in {"Off", "Linkless"},
               /\ at' = [at EXCEPT ![p] = s] /\ mine' = [mine EXCEPT ![p] = Nothing]
               /\ identity' = identity
        PROVE  /\ \A q \in Process : On(q) = m =>
                         /\ at'[q] = "Write" => identity'[m] = Halfway
                         /\ mine'[q] = Nothing \/ at'[q] \in {"Open", "Write"} \/ mine'[q] = identity'[m]
               /\ \A q, r \in Process :
                         On(q) = m /\ On(r) = m /\ at'[q] = "Write" /\ at'[r] = "Write" => q = r
    BY <1>2, <1>4, <2>2
  <2> QED  BY <1>6, <2>1, <2>2, OpensIdentity
<1>7. CASE WriteIdentity(p)
  <2>1. at[p] = "Write"
    BY <1>7, WritesIdentity
  <2>2. CASE identity' = [identity EXCEPT ![On(p)] = mine[p]] /\ at' = [at EXCEPT ![p] = Next1(p)] /\ mine' = mine
    <3>1. CASE On(p) = m
      <4>1. identity[m] = Halfway /\ identity'[m] = mine[p] /\ \A q \in Process : On(q) = m /\ q # p => at[q] # "Write"
        BY <1>2, <1>4, <2>1, <2>2, <3>1
      <4>2. \A q \in Process : On(q) = m /\ q # p => mine[q] = Nothing \/ at[q] = "Open"
        BY <1>2, <1>4, <4>1, Marks
      <4> QED  BY <1>3, <1>4, <2>2, <3>1, <4>1, <4>2
    <3>2. CASE On(p) # m
      <4>1. identity'[m] = identity[m] /\ \A q \in Process : On(q) = m => at'[q] = at[q] /\ mine'[q] = mine[q]
        BY <1>4, <2>2, <3>2
      <4> QED  BY <1>2, <4>1
    <3> QED  BY <3>1, <3>2
  <2>3. ASSUME NEW s \in {"Off", "Linkless"},
               /\ at' = [at EXCEPT ![p] = s] /\ mine' = [mine EXCEPT ![p] = Nothing]
               /\ identity' = identity
        PROVE  /\ \A q \in Process : On(q) = m =>
                         /\ at'[q] = "Write" => identity'[m] = Halfway
                         /\ mine'[q] = Nothing \/ at'[q] \in {"Open", "Write"} \/ mine'[q] = identity'[m]
               /\ \A q, r \in Process :
                         On(q) = m /\ On(r) = m /\ at'[q] = "Write" /\ at'[r] = "Write" => q = r
    BY <1>2, <1>4, <2>3
  <2> QED  BY <1>7, <2>2, <2>3, WritesIdentity
<1> QED  BY <1>5, <1>6, <1>7 DEF Step

(* Past its identity, a process presents what the file holds.              *)
LEMMA Presented ==
  ASSUME Types, NEW p \in Process, Unmixed(On(p)), On(p) \notin excused,
         at[p] \notin {"Off", "Linkless", "Open", "Write"}
  PROVE  mine[p] = identity[On(p)] /\ mine[p] \in Key
  BY DEF Types, Holdings, Unmixed

(* A step past the identities leaves each of them as it was.               *)
LEMMA UnmixedKept ==
  ASSUME NEW m \in Machine, Unmixed(m), UNCHANGED <<identity, mine>>, excused \subseteq excused',
         \A p \in Process : \/ at'[p] = at[p]
                            \/ /\ at[p] \notin {"Off", "Linkless", "Open", "Write"}
                               /\ at'[p] \notin {"Open", "Write"}
  PROVE  Unmixed(m)'
  BY DEF Unmixed

LEMMA LinkedByStep ==
  ASSUME Types, Vouching, Linked, NEW p \in Process, Step(p)
  PROVE  Linked'
<1>1. \A m \in Machine : Unmixed(m)'
  BY UnmixedStep DEF Linked
<1>2. /\ \A m \in Machine : m \notin excused' =>
           m \notin excused /\ (identity[m] \in Key => identity'[m] = identity[m])
  BY IdentityKept DEF Linked
<1>3. /\ UNCHANGED <<list, pinned, knew, down, peer>>
      /\ p # "Pair" => at'["Pair"] = at["Pair"]
      /\ p # "PairWith" => at'["PairWith"] = at["PairWith"]
      /\ at[p] \in {"Off", "Open", "Write"} /\ at'[p] \in Waits
  BY StepMoves, Ways DEF exchange
<1>4. /\ ended'[Source] = "Pinned" => ended[Source] = "Pinned"
      /\ ended'[Sink] = "Pinned" => ended[Sink] = "Pinned" /\ (p = "Pair" => at[p] # "Off")
  <2>1. \/ at[p] # "Off" /\ ended' = ended
        \/ at[p] = "Off" /\ ended' = IF p \in {"Pair", "PairWith"}
                                     THEN [ended EXCEPT ![On(p)] = "NotYet"] ELSE ended
    BY StepMoves
  <2>2. (p = "Pair" => On(p) = Sink) /\ (p = "PairWith" => On(p) = Source)
    BY DEF On
  <2> QED  BY <2>1, <2>2, Ways DEF Types, Tallies
<1>5. "List" \notin excused' <=> "List" \notin excused
  <2>1. excused' = excused \/ excused' = excused \cup {On(p)}
    <3>1. CASE ReadIdentity(p)
      BY <3>1, ReadsIdentity
    <3>2. CASE OpenIdentity(p)
      BY <3>2, OpensIdentity DEF OpenIdentity
    <3>3. CASE WriteIdentity(p)
      BY <3>3, WritesIdentity
    <3> QED  BY <3>1, <3>2, <3>3 DEF Step
  <2> QED  BY <2>1 DEF On, Sink, Source
<1>6. Source \notin excused' => knew \subseteq {identity'[Source]}
  BY <1>2, Ways DEF Linked, Types, Tallies
<1>7. Sink \notin excused' =>
        /\ down \in Sealed => down.key = identity'[Sink]
        /\ at["PairWith"] = "Pin" => peer[Source] = identity'[Sink]
        /\ ended[Source] = "Pinned" => pinned = identity'[Sink] /\ pinned \in Key
  <2> SUFFICES ASSUME Sink \notin excused' PROVE
        /\ down \in Sealed => down.key = identity'[Sink]
        /\ at["PairWith"] = "Pin" => peer[Source] = identity'[Sink]
        /\ ended[Source] = "Pinned" => pinned = identity'[Sink] /\ pinned \in Key
    OBVIOUS
  <2>1. /\ Sink \notin excused /\ (identity[Sink] \in Key => identity'[Sink] = identity[Sink])
    BY <1>2, Ways
  <2>2. (down \in Sealed => down.key \in Key) /\ peer[Source] \in Key \cup {Nothing}
    BY Ways DEF Sealed, Types, Messages
  <2> QED  BY <2>1, <2>2 DEF Linked
<1>8. (at'["PairWith"] = "Pin" => at["PairWith"] = "Pin") /\ (at'["Pair"] = "ReplaceAll" => at["Pair"] = "ReplaceAll")
  BY <1>3 DEF Waits
<1>9. ended'[Sink] = "Pinned" => at'["Pair"] = "Off"
  BY <1>3, <1>4 DEF Linked
<1> QED  BY <1>1, <1>3, <1>4, <1>5, <1>6, <1>7, <1>8, <1>9 DEF Linked, Keys

LEMMA LinkedByLeaving ==
  ASSUME Types, Vouching, Linked, NEW m \in Machine, Leaves(m)
  PROVE  Linked'
<1>1. PICK how : Over(m, how)
  BY DEF Leaves
<1>2. /\ UNCHANGED <<identity, mine, knew>>
      /\ at[IF m = Sink THEN "Pair" ELSE "PairWith"] \notin Waits
  BY DEF Leaves
<1>3. excused' = excused \/ (ListCutShort /\ excused' = excused \cup {"List"})
  BY DEF Leaves, Authorize, ListCutShort, PinTheSink, PinCutShort
<1>4. \A p \in Process : \/ at'[p] = at[p]
                         \/ at[p] \notin Waits /\ at'[p] = "Off"
  BY <1>1, <1>2, OverMoves, Ways
<1>5. \A q \in Machine : Unmixed(q)'
  BY <1>2, <1>3, <1>4, UnmixedKept DEF Linked, Waits
<1>6. \A q \in Machine : q \notin excused' <=> q \notin excused
  BY <1>3 DEF Machine, Sink, Source
<1>7. CASE m = Sink
  <2>1. /\ at'["Pair"] = "Off" /\ at'["PairWith"] = at["PairWith"] /\ down' = down
        /\ peer'[Source] = peer[Source] /\ ended'[Source] = ended[Source] /\ ended'[Sink] = how
    BY <1>1, <1>7, OverMoves, Ways
  <2>2. pinned' = pinned
    BY <1>7, Ways DEF Leaves
  <2>3. /\ ended'[Sink] = "Pinned" => Keys(list') \cap knew # {}
        /\ "List" \notin excused' => Earlier \in Keys(list')
    <3>1. CASE UNCHANGED list /\ ended'[Sink] # "Pinned"
      BY <1>3, <3>1 DEF Linked
    <3>2. CASE Authorize
      <4>1. peer[Sink] \in knew /\ peer[Sink] \in Key
        BY <3>2 DEF Authorize, Vouching, Reads, Types, Tallies
      <4>2. list \in [lines : Seq(Line), ends : BOOLEAN] /\ NoText \in [lines : Seq(Line), ends : BOOLEAN]
        BY <4>1, AddedTypes DEF Types, Texts
      <4>3. excused' = excused
        BY <3>2 DEF Authorize
      <4>4. CASE at["Pair"] = "Replace"
        <5>1. Keys(list') = Keys(list) \cup {peer[Sink]}
          BY <3>2, <4>1, <4>2, <4>4, AddedTypes DEF Authorize
        <5> QED  BY <4>1, <4>3, <5>1 DEF Linked
      <4>5. CASE at["Pair"] = "ReplaceAll"
        <5>1. Keys(list') = Keys(NoText) \cup {peer[Sink]}
          BY <3>2, <4>1, <4>2, <4>5, AddedTypes DEF Authorize
        <5> QED  BY <4>1, <4>3, <4>5, <5>1 DEF Linked
      <4> QED  BY <3>2, <4>4, <4>5 DEF Authorize
    <3>3. CASE ListCutShort
      <4>1. ended'[Sink] = "Failed"
        BY <3>3, Ways DEF ListCutShort, Over, Ends, Types, Tallies
      <4>2. list' = list \/ "List" \in excused'
        BY <3>3 DEF ListCutShort
      <4> QED  BY <1>3, <4>1, <4>2 DEF Linked
    <3> QED  BY <1>7, <3>1, <3>2, <3>3, Ways DEF Leaves
  <2> QED  BY <1>2, <1>5, <1>6, <2>1, <2>2, <2>3, Ways DEF Linked, Keys
<1>8. CASE m = Source
  <2>1. /\ at'["PairWith"] = "Off" /\ at'["Pair"] = at["Pair"] /\ down' = NoMessage
        /\ ended'[Sink] = ended[Sink] /\ m # Sink
    BY <1>1, <1>8, OverMoves, Ways
  <2>2. UNCHANGED <<list, excused>>
    BY <1>8, Ways DEF Leaves
  <2>3. Sink \notin excused /\ ended'[Source] = "Pinned" => pinned' = identity[Sink] /\ pinned' \in Key
    <3>1. ended'[Source] = "Pinned" => PinTheSink
      <4>1. PinCutShort => ended'[Source] = "Failed"
        BY Ways DEF PinCutShort, Over, Ends, Types, Tallies
      <4> QED  BY <1>8, <4>1, Ways DEF Leaves
    <3>2. PinTheSink => pinned' = peer[Source] /\ at["PairWith"] = "Pin"
      BY DEF PinTheSink
    <3> QED  BY <3>1, <3>2, Ways DEF Linked, Types, Messages
  <2>4. NoMessage \notin Sealed
    BY Kinds
  <2> QED  BY <1>2, <1>5, <2>1, <2>2, <2>3, <2>4 DEF Linked, Keys
<1> QED  BY <1>7, <1>8 DEF Machine

(* What the other steps of the two pairing processes have in common.       *)
Passes(p, s) ==
  /\ at' = [at EXCEPT ![p] = s]
  /\ at[p] \notin {"Off", "Linkless", "Open", "Write"} /\ s \notin {"Open", "Write"}
  /\ UNCHANGED <<identity, mine, list, pinned>>
  /\ excused' = excused \/ excused' = excused \cup {"List"}
  /\ s = "ReplaceAll" => "List" \in excused'
  /\ Source \notin excused => knew' \subseteq knew \cup {identity[Source]}
  /\ knew \subseteq knew'
  /\ down' \in Sealed => down' = down \/ (Sink \notin excused => down'.key = identity[Sink])
  /\ s = "Pin" => peer'[Source] # Nothing /\ (Sink \notin excused => peer'[Source] = identity[Sink])
  /\ at["PairWith"] = "Pin" => peer'[Source] = peer[Source]
  /\ ended'[Source] = "Pinned" => ended[Source] = "Pinned"
  /\ ended'[Sink] = "Pinned" => ended[Sink] = "Pinned" /\ p # "Pair"

LEMMA LinkedKept ==
  ASSUME Types, Linked, NEW p \in {"Pair", "PairWith"}, NEW s, Passes(p, s)
  PROVE  Linked'
<1> USE DEF Passes
<1>1. \A q \in Process : at'[q] = IF q = p THEN s ELSE at[q]
  BY DEF Types, Holdings
<1>2. \A q \in Machine : Unmixed(q)'
  BY <1>1, UnmixedKept DEF Linked
<1>3. \A q \in Machine : q \notin excused' <=> q \notin excused
  BY DEF Machine, Sink, Source
<1>4. Source \notin excused' => knew' \subseteq {identity'[Source]}
  BY <1>3, Ways DEF Linked
<1>5. Sink \notin excused' =>
       /\ down' \in Sealed => down'.key = identity'[Sink]
       /\ at'["PairWith"] = "Pin" => peer'[Source] = identity'[Sink]
       /\ ended'[Source] = "Pinned" => pinned' = identity'[Sink] /\ pinned' \in Key
  BY <1>1, <1>3, Ways DEF Linked
<1>6. at'["PairWith"] = "Pin" => peer'[Source] # Nothing
  BY <1>1, Ways DEF Linked
<1>7. ended'[Sink] = "Pinned" => at'["Pair"] = "Off" /\ Keys(list') \cap knew' # {}
  BY <1>1, Ways DEF Linked
<1>8. at'["Pair"] = "ReplaceAll" => "List" \in excused'
  BY <1>1, Ways DEF Linked
<1>9. "List" \notin excused' => Earlier \in Keys(list')
  BY DEF Linked
<1> QED  BY <1>2, <1>4, <1>5, <1>6, <1>7, <1>8, <1>9 DEF Linked, Keys

LEMMA LinkedStep ==
  ASSUME Types, Turns, Vouching, Linked, [Next]_vars
  PROVE  Linked'
<1>0. \A m \in Machine : Unmixed(m)
  BY DEF Linked
<1>1. CASE UNCHANGED vars
  BY <1>1 DEF vars, files, exchange, Linked, Unmixed, Keys
<1>2. CASE ShowTheCode
  <2>1. PICK s \in {"Accept", "Off"} : at' = [at EXCEPT !["Pair"] = s]
    BY <1>2 DEF ShowTheCode, Goes
  <2>2. /\ at["Pair"] = "Listen" /\ UNCHANGED <<identity, mine, list, pinned, excused, knew, down, peer>>
        /\ ended'[Source] = ended[Source] /\ (ended'[Sink] = "Pinned" => ended' = ended)
    BY <1>2, Ways DEF ShowTheCode, files, Ends, Types, Tallies
  <2>3. ended[Sink] # "Pinned"
    BY <2>2 DEF Linked
  <2>7. Passes("Pair", s)
    BY <2>1, <2>2, <2>3 DEF Passes
  <2> QED  BY <2>7, LinkedKept
<1>3. CASE Accept
  <2>1. PICK s \in {"TakeOffer", "Other"} : at' = [at EXCEPT !["Pair"] = s]
    BY <1>3 DEF Accept, Goes
  <2>2. /\ at["Pair"] = "Accept" /\ UNCHANGED <<identity, mine, list, pinned, excused, knew, down, peer, ended>>
    BY <1>3 DEF Accept, files
  <2>3. ended[Sink] # "Pinned"
    BY <2>2 DEF Linked
  <2>7. Passes("Pair", s)
    BY <2>1, <2>2, <2>3 DEF Passes
  <2> QED  BY <2>7, LinkedKept
<1>4. CASE TakeOffer
  <2>1. /\ at' = [at EXCEPT !["Pair"] = "TakeKey"] /\ at["Pair"] = "TakeOffer"
        /\ UNCHANGED <<identity, mine, list, pinned, excused, knew, peer, ended>>
        /\ down' = [kind |-> "Answer", n |-> up.n]
    BY <1>4 DEF TakeOffer, files, Goes
  <2>2. down' \notin Sealed
    <3>1. down'.kind = "Answer"
      BY <2>1
    <3> QED  BY <3>1, Kinds
  <2>3. ended[Sink] # "Pinned"
    BY <2>1 DEF Linked
  <2>7. Passes("Pair", "TakeKey")
    BY <2>1, <2>2, <2>3 DEF Passes
  <2> QED  BY <2>7, LinkedKept
<1>5. CASE ReadTheList
  <2>1. PICK s \in {"Replace", "ReplaceAll"} :
          /\ at' = [at EXCEPT !["Pair"] = s]
          /\ excused' = excused \/ excused' = excused \cup {"List"}
          /\ s = "ReplaceAll" => "List" \in excused'
    BY <1>5 DEF ReadTheList, Goes
  <2>2. at["Pair"] = "Read" /\ UNCHANGED <<identity, mine, list, pinned, knew, down, peer, ended>>
    BY <1>5 DEF ReadTheList, files, exchange
  <2>3. ended[Sink] # "Pinned"
    BY <2>2 DEF Linked
  <2>7. Passes("Pair", s)
    BY <2>1, <2>2, <2>3 DEF Passes
  <2> QED  BY <2>7, LinkedKept
<1>6. CASE TakeSourceKey /\ Opened(up, secret[Sink], Source) # Nothing
  <2>1. /\ at' = [at EXCEPT !["Pair"] = "Read"] /\ at["Pair"] = "TakeKey"
        /\ UNCHANGED <<identity, mine, list, pinned, excused, knew, ended>>
        /\ peer'[Source] = peer[Source]
        /\ down' = [kind |-> "Key", under |-> secret[Sink], from |-> Sink, key |-> mine["Pair"]]
    BY <1>6, Ways DEF TakeSourceKey, AnswersKey, files, Goes, Types, Messages
  <2>2. Sink \notin excused => down'.key = identity[Sink]
    <3>1. On("Pair") = Sink
      BY DEF On
    <3>2. Sink \notin excused => mine["Pair"] = identity[Sink]
      BY <1>0, <2>1, <3>1, Ways, Presented
    <3> QED  BY <2>1, <3>2
  <2>3. ended[Sink] # "Pinned"
    BY <2>1 DEF Linked
  <2>7. Passes("Pair", "Read")
    BY <2>1, <2>2, <2>3 DEF Passes
  <2> QED  BY <2>7, LinkedKept
<1>7. CASE FindTheSink
  <2>1. PICK s \in {"Offer", "Unserved", "Off"} : at' = [at EXCEPT !["PairWith"] = s]
    BY <1>7 DEF FindTheSink, Goes
  <2>2. /\ at["PairWith"] = "Find" /\ UNCHANGED <<identity, mine, list, pinned, excused, knew, peer>>
        /\ ended'[Sink] = ended[Sink] /\ (ended'[Source] = "Pinned" => ended' = ended)
        /\ down' \in {NoMessage, down}
    BY <1>7, Ways DEF FindTheSink, files, Ends, Types, Tallies
  <2>3. NoMessage \notin Sealed
    BY Kinds
  <2>7. Passes("PairWith", s)
    BY <2>1, <2>2, <2>3 DEF Passes
  <2> QED  BY <2>7, LinkedKept
<1>8. CASE SendOffer
  <2>1. /\ at' = [at EXCEPT !["PairWith"] = "TakeAnswer"] /\ at["PairWith"] = "Offer"
        /\ UNCHANGED <<identity, mine, list, pinned, excused, knew, ended, peer, down>>
    BY <1>8 DEF SendOffer, files, Goes
  <2>7. Passes("PairWith", "TakeAnswer")
    BY <2>1 DEF Passes
  <2> QED  BY <2>7, LinkedKept
<1>9. CASE SendSourceKey
  <2>1. /\ at' = [at EXCEPT !["PairWith"] = "TakeKey"] /\ at["PairWith"] = "TakeAnswer"
        /\ UNCHANGED <<identity, mine, list, pinned, excused, ended, peer>> /\ down' = NoMessage
        /\ knew' = IF code[Source] = code[Sink] THEN knew \cup {mine["PairWith"]} ELSE knew
    BY <1>9 DEF SendSourceKey, files, Goes
  <2>2. NoMessage \notin Sealed
    BY Kinds
  <2>3. Source \notin excused => mine["PairWith"] = identity[Source]
    <3>1. On("PairWith") = Source
      BY DEF On
    <3> QED  BY <1>0, <2>1, <3>1, Ways, Presented
  <2>7. Passes("PairWith", "TakeKey")
    BY <2>1, <2>2, <2>3 DEF Passes
  <2> QED  BY <2>7, LinkedKept
<1>10. CASE Unserved
  <2>1. /\ at' = [at EXCEPT !["PairWith"] = "Off"] /\ at["PairWith"] = "Unserved"
        /\ UNCHANGED <<identity, mine, list, pinned, excused, knew, peer, down>>
        /\ ended'[Sink] = ended[Sink] /\ ended'[Source] = "Interrupted"
    BY <1>10, Ways DEF Unserved, files, exchange, Ends, Goes, Types, Tallies
  <2>7. Passes("PairWith", "Off")
    BY <2>1 DEF Passes
  <2> QED  BY <2>7, LinkedKept
<1>11. CASE TakeSinkKey /\ Opened(down, secret[Source], Sink) # Nothing
  <2>1. /\ at' = [at EXCEPT !["PairWith"] = "Pin"] /\ at["PairWith"] = "TakeKey"
        /\ UNCHANGED <<identity, mine, list, pinned, excused, knew, ended>>
        /\ down # NoMessage /\ down' = NoMessage
        /\ peer'[Source] = Opened(down, secret[Source], Sink)
    BY <1>11, Ways DEF TakeSinkKey, files, Goes, Types, Messages
  <2>2. down \in Sealed /\ down' \notin Sealed
    BY <2>1, Kinds DEF Turns
  <2>3. peer'[Source] = down.key /\ peer'[Source] # Nothing
    BY <1>11, <2>1, <2>2, Opens
  <2>4. Sink \notin excused => peer'[Source] = identity[Sink]
    BY <2>2, <2>3 DEF Linked
  <2>7. Passes("PairWith", "Pin")
    BY <2>1, <2>2, <2>3, <2>4 DEF Passes
  <2> QED  BY <2>7, LinkedKept
<1> QED  BY <1>1, <1>2, <1>3, <1>4, <1>5, <1>6, <1>7, <1>8, <1>9, <1>10, <1>11, EveryStep,
            LinkedByStep, LinkedByLeaving

-----------------------------------------------------------------------------
PairingInv == Types /\ Codes /\ Turns /\ Vouching /\ Linked

(* The invariant.                                                          *)
LEMMA FirstKeys == Init => Keys(list) = {Earlier}
  BY Marks DEF Init, Keys

LEMMA PairingInit == Init => PairingInv
<1> SUFFICES ASSUME Init PROVE PairingInv
  OBVIOUS
<1>1. Codes
  BY DEF Init, Codes, Listens, Reads, Machine, Process, Sink, Source
<1>2. Turns
  BY DEF Init, Turns, Process
<1>3. Vouching
  BY FirstKeys, Kinds, Ways DEF Init, Vouching, Reads
<1>4. Linked
  BY FirstKeys, Kinds, Ways DEF Init, Linked, Unmixed
<1> QED  BY <1>1, <1>2, <1>3, <1>4, TypesInit DEF PairingInv

LEMMA PairingStep == PairingInv /\ [Next]_vars => PairingInv'
  BY TypesStep, CodesStep, TurnsStep, VouchingStep, LinkedStep DEF PairingInv

LEMMA TypesGood == Types => TypeOK
<1> SUFFICES ASSUME Types PROVE TypeOK
  OBVIOUS
<1>1. ASSUME NEW p \in Process PROVE mine[p] \in [of : {On(p)}, nth : 1..Made] \cup {Nothing}
  BY DEF Types, Holdings, Key
<1> QED  BY <1>1 DEF TypeOK, Types, Holdings, Texts, Messages

(* Every file, message and place is of its kind at every step.             *)
THEOREM PairingTypes == Spec => []TypeOK
<1>1. PairingInv => TypeOK
  BY TypesGood DEF PairingInv
<1> QED  BY <1>1, PairingInit, PairingStep, PTL DEF Spec

(* A key is written down only where the code vouched for it, and a code is *)
(* served on one connection.                                               *)
THEOREM KeysAreVouchedFor == Spec => []VouchedFor
<1>1. PairingInv => VouchedFor
  BY TypesGood DEF PairingInv, VouchedFor, Vouching, Codes
<1> QED  BY <1>1, PairingInit, PairingStep, PTL DEF Spec

(* Two machines that say they have paired can carry input, and a source    *)
(* paired with before stays paired.                                        *)
THEOREM PairedMachinesLink == Spec => []PairedCanLink
<1>1. ASSUME PairingInv PROVE PairedCanLink
  <2>1. ASSUME BothPinned, excused = {}
        PROVE  /\ at["Convert"] = "Carrying" => pinned = mine["Convert"]
               /\ at["Relay"] = "Carrying" => mine["Relay"] \in Keys(list)
               /\ identity[Source] \in Keys(list) /\ pinned = identity[Sink]
    <3>1. pinned = identity[Sink] /\ identity[Source] \in Keys(list)
      BY <1>1, <2>1 DEF PairingInv, Linked, BothPinned
    <3>2. /\ On("Convert") = Sink /\ "Convert" \in Process /\ On("Relay") = Source /\ "Relay" \in Process
      BY DEF On, Process
    <3>3. Unmixed(Sink) /\ Unmixed(Source) /\ Types
      BY <1>1, Ways DEF PairingInv, Linked
    <3>4. at["Convert"] = "Carrying" => mine["Convert"] = identity[Sink]
      BY <2>1, <3>2, <3>3, Presented
    <3>5. at["Relay"] = "Carrying" => mine["Relay"] = identity[Source]
      BY <2>1, <3>2, <3>3, Presented
    <3> QED  BY <3>1, <3>4, <3>5
  <2>2. "List" \notin excused => Earlier \in Keys(list)
    BY <1>1 DEF PairingInv, Linked
  <2> QED  BY <2>1, <2>2 DEF PairedCanLink
<1> QED  BY <1>1, PairingInit, PairingStep, PTL DEF Spec

=============================================================================
