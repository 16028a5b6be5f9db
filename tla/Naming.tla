------------------------------- MODULE Naming -------------------------------
(***************************************************************************)
(* How the forwarding machine finds the one it relays to: one question on  *)
(* the local network, and the answers read until one says where the sink   *)
(* is or the time is up (discovery/src/lib.rs, engine/src/discovery.rs).   *)
(*                                                                         *)
(* A message is a sequence of cells: a label, the end of a name, a pointer *)
(* back to a name written earlier, or a field.  Where a label's bytes are  *)
(* several, its cell is one; what a name comes to is counted in bytes.     *)
(***************************************************************************)
EXTENDS Integers, Sequences, SequencesExt, FiniteSetsExt, Functions

CONSTANT Nothing   \* what is not there: no name, no word, no answer

Lower(text) == CASE text = "The-Mac" -> "the-mac" [] text = "LOCAL" -> "local" [] OTHER -> text
Size(text) == CASE text = "long" -> 63 [] OTHER -> 7

Label(text) == [kind |-> "label", text |-> text]
End == [kind |-> "end"]
Pointer(to) == [kind |-> "pointer", to |-> to]
Field(n) == [kind |-> "field", n |-> n]

(* The two names a sink offers its two services under.                     *)
SERVICE == <<"_favjit", "_tcp">>
PAIRING == <<"_favjit-pair", "_tcp">>
Service(name) == Append(name, "local")
WriteName(name) == [i \in DOMAIN name |-> Label(name[i])] \o <<End>>

TYPE_A == 1
TYPE_PTR == 12
TYPE_SRV == 33
TYPE_TXT == 16   \* any other
CLASS_IN_UNICAST == 32769
Question(name) ==
  [questions |-> 1, answers |-> 0,
   cells |-> WriteName(Service(name)) \o <<Field(TYPE_PTR), Field(CLASS_IN_UNICAST)>>]

-----------------------------------------------------------------------------
(* Reading a name, and stepping over it, which is over the pointer and not *)
(* over what it points at.                                                 *)
NAME_LIMIT == 255
JUMP_LIMIT == 32

SkipName(cells, at) ==
  LET stops == {i \in DOMAIN cells : i >= at /\ cells[i].kind \in {"end", "pointer"}}
  IN IF stops = {} THEN Nothing ELSE Min(stops) + 1

RECURSIVE NameFrom(_, _, _, _, _)
NameFrom(cells, at, jumps, name, length) ==
  IF at \notin DOMAIN cells THEN Nothing
  ELSE LET cell == cells[at]
       IN CASE cell.kind = "end" -> name
            [] cell.kind = "pointer" ->
                 IF jumps = JUMP_LIMIT THEN Nothing ELSE NameFrom(cells, cell.to, jumps + 1, name, length)
            [] cell.kind = "label" ->
                 IF length + Size(cell.text) + 1 > NAME_LIMIT THEN Nothing
                 ELSE NameFrom(cells, at + 1, jumps, Append(name, Lower(cell.text)),
                               length + Size(cell.text) + (IF name = <<>> THEN 0 ELSE 1))
            [] OTHER -> Nothing
NameAt(cells, at) == IF SkipName(cells, at) = Nothing THEN Nothing ELSE NameFrom(cells, at, 0, <<>>, 0)

Word(cells, at) == IF at \in DOMAIN cells THEN cells[at].n ELSE Nothing

(* A record: a name, what kind it is, how long its data is, and the data.  *)
Other == [kind |-> "other"]
PointerTo(target) == [kind |-> "pointer", target |-> target]
ServiceAt(port, target) == [kind |-> "service", port |-> port, target |-> target]
Address(address) == [kind |-> "address", address |-> address]
Data(cells, kind, at) ==
  CASE kind = TYPE_PTR -> PointerTo(NameAt(cells, at))
    [] kind = TYPE_SRV -> ServiceAt(Word(cells, at), NameAt(cells, at + 1))
    [] kind = TYPE_A -> Address(Word(cells, at))
    [] OTHER -> Other
Whole(name, data) ==
  name # Nothing /\ (data.kind \in {"pointer", "service"} => data.target # Nothing)

ShortOfItsData(cells, at, length) == TRUE   \* mutant: a length is not held to the message
Holds(cells, at, length) == at + length - 1 <= Len(cells)

(* Every record, or nothing of a message that stops making sense.          *)
Bad == [at |-> Nothing, records |-> <<>>]
OverAQuestion(cells, so_far) ==
  LET after == IF so_far = Bad THEN Nothing ELSE SkipName(cells, so_far.at)
  IN IF after = Nothing THEN Bad ELSE [so_far EXCEPT !.at = after + 2]
WhatItHas(cells, so_far) == so_far   \* mutant: what was read before stands
NoneOfIt(cells, so_far) == Bad
OneRecord(cells, so_far) ==
  IF so_far = Bad \/ NameAt(cells, so_far.at) = Nothing THEN NoneOfIt(cells, so_far)
  ELSE LET at == SkipName(cells, so_far.at)
           kind == Word(cells, at)
           length == Word(cells, at + 1)
       IN IF length = Nothing \/ ~Holds(cells, at + 2, length) THEN NoneOfIt(cells, so_far)
          ELSE LET data == Data(cells, kind, at + 2)
                   name == NameAt(cells, so_far.at)
               IN IF ~Whole(name, data) THEN NoneOfIt(cells, so_far)
                  ELSE [at |-> at + 2 + length,
                        records |-> Append(so_far.records, [name |-> name, data |-> data])]
ReadRecords(message) ==
  LET over(so_far, n) == OverAQuestion(message.cells, so_far)
      one(so_far, n) == OneRecord(message.cells, so_far)
      questions == [i \in 1..message.questions |-> i]
      answers == [i \in 1..message.answers |-> i]
  IN FoldLeft(one, FoldLeft(over, [at |-> 1, records |-> <<>>], questions), answers)

(* What an answer says about a service: where its instance is, and with an *)
(* address where the answer carries one.                                   *)
AnyService(records, name) ==   \* mutant: any service there is will do
  LET services == SelectSeq(records, LAMBDA record : record.data.kind = "service")
  IN [i \in DOMAIN services |-> services[i].name]
Instances(records, name) ==
  LET named == SelectSeq(records, LAMBDA record : record.data.kind = "pointer" /\ record.name = name)
      inside == SelectSeq(records, LAMBDA record : record.data.kind = "service" /\ IsSuffix(name, record.name))
  IN [i \in DOMAIN named |-> named[i].data.target] \o [i \in DOMAIN inside |-> inside[i].name]
First(records, kind, name) ==
  SelectSeq(records, LAMBDA record : record.data.kind = kind /\ record.name = name)
Services(records, instances) ==
  IF instances = <<>> THEN <<>> ELSE First(records, "service", instances[1])
Where(records, services) ==
  LET addresses == First(records, "address", services[1].data.target)
  IN IF services = <<>> THEN Nothing
     ELSE [host |-> services[1].data.target, port |-> services[1].data.port,
           address |-> IF addresses = <<>> THEN Nothing ELSE addresses[1].data.address]
AnswerIn(records, name) == Where(records, Services(records, Instances(records, Service(name))))
Answer(message, name) == AnswerIn(ReadRecords(message).records, name)

-----------------------------------------------------------------------------
(* One search: the datagrams that come, each some time after the one       *)
(* before it or a failure, until one answers or the time is up.  What is   *)
(* refused are the calls that open the search and ask.                     *)
Arrival(after, received, datagram) ==
  [after |-> after, received |-> received, datagram |-> datagram]

WholePatience(deadline, now) == deadline   \* mutant: each wait as long as the search
Remaining(deadline, now) == IF now < deadline THEN deadline - now ELSE 0

Gone(search, now) == [search EXCEPT !.now = now, !.over = TRUE]
Heard(now, found) == [now |-> now, over |-> found # Nothing, found |-> found]
Receive(name, patience, search, arrival) ==
  LET left == Remaining(patience, search.now)
      then == search.now + arrival.after
  IN CASE search.over -> search
       [] ~search.over /\ left = 0 -> Gone(search, search.now)
       [] ~search.over /\ left > 0 /\ arrival.after >= left -> Gone(search, search.now + left)
       [] OTHER ->
            IF ~arrival.received THEN Gone(search, then)
            ELSE Heard(then, Answer(arrival.datagram, name))
Searched(name, patience, refused, arrivals) ==
  LET start == [now |-> 0, over |-> FALSE, found |-> Nothing]
      coming == Append(arrivals, Arrival(patience, FALSE, Nothing))
      search[n \in 0..Len(coming)] ==
        IF n = 0 THEN start ELSE Receive(name, patience, search[n - 1], coming[n])
  IN search[IF refused # {} THEN 0 ELSE Len(coming)]

(* The address that came is used, and a resolver is asked only where none  *)
(* did.                                                                    *)
ASinkAt(address, port) == [address |-> address, port |-> port]
Find(name, patience, refused, arrivals, resolve) ==
  LET found == Searched(name, patience, refused, arrivals).found
  IN IF found = Nothing THEN Nothing
     ELSE ASinkAt(IF found.address = Nothing THEN resolve[found.host] ELSE found.address, found.port)

-----------------------------------------------------------------------------
(* A responder: the records it has, in the order it says them, the names   *)
(* in them written out or pointing back.  "after" is how many labels of a  *)
(* name are written before the rest of it is pointed at where it was       *)
(* written before, and "latest" which of the places it was written at.     *)
Record(name, kind, data) == [name |-> name, kind |-> kind, data |-> data]
WrittenAt(name, at) ==
  {<<SubSeq(name, i, Len(name)), at + i - 1>> : i \in DOMAIN name}
PutName(so_far, name, after, latest) ==
  LET at == Len(so_far.cells) + 1
      known(i) == {k \in so_far.known : k[1] = SubSeq(name, i, Len(name))}
      points == {i \in DOMAIN name : i > after /\ known(i) # {}}
      from == IF points = {} THEN Len(name) + 1 ELSE Min(points)
      places == {k[2] : k \in known(from)}
      written == [i \in 1..(from - 1) |-> Label(name[i])]
      tail == IF points = {} THEN End ELSE Pointer(IF latest THEN Max(places) ELSE Min(places))
  IN [cells |-> so_far.cells \o written \o <<tail>>,
      known |-> so_far.known \cup {k \in WrittenAt(name, at) : k[2] - at < from}]
PutFields(so_far, fields) ==
  [so_far EXCEPT !.cells = @ \o [i \in DOMAIN fields |-> Field(fields[i])]]
PutRecord(so_far, record, after, latest) ==
  LET named == PutFields(PutName(so_far, record.name, after, latest), <<record.kind, 0>>)
      put == CASE record.kind = TYPE_PTR -> PutName(named, record.data, after, latest)
               [] record.kind = TYPE_SRV ->
                    PutName(PutFields(named, <<record.data.port>>), record.data.target, after, latest)
               [] OTHER -> PutFields(named, record.data)
  IN [put EXCEPT !.cells[Len(named.cells)].n = Len(put.cells) - Len(named.cells)]
Said(records, echoed, after, latest) ==
  LET question == IF echoed THEN Question(SERVICE).cells ELSE <<>>
      known == IF echoed THEN WrittenAt(Service(SERVICE), 1) ELSE {}
      put(so_far, record) == PutRecord(so_far, record, after, latest)
  IN [questions |-> IF echoed THEN 1 ELSE 0, answers |-> Len(records),
      cells |-> FoldLeft(put, [cells |-> question, known |-> known], records).cells]
CutAt(message, n) == [message EXCEPT !.cells = SubSeq(@, 1, n)]

Mac == <<"The-Mac", "local">>
Instance(name) == <<"the mac">> \o Service(name)
Advertised ==
  <<Record(Service(SERVICE), TYPE_PTR, Instance(SERVICE)),
   Record(Instance(SERVICE), TYPE_SRV, [port |-> 1, target |-> Mac]),
   Record(Service(PAIRING), TYPE_PTR, Instance(PAIRING)),
   Record(Instance(PAIRING), TYPE_SRV, [port |-> 2, target |-> <<"the-mac", "LOCAL">>]),
   Record(Mac, TYPE_A, <<7>>),
   Record(Mac, TYPE_TXT, <<0, 9>>)>>
Sayings == {records \in BoundedSeq(Range(Advertised), 4) : IsInjective(records)}
Lowered(name) == [i \in DOMAIN name |-> Lower(name[i])]

(* Where a service is, from what was said of it and not from how: its port *)
(* once both are said or the port alone, its host's address once that is.  *)
Port(name) == IF name = SERVICE THEN 1 ELSE 2
KindsSaid(records, name) == {record.kind : record \in {r \in Range(records) : IsSuffix(name, r.name)}}
WhereItIs(records, name) ==
  IF TYPE_SRV \notin KindsSaid(records, Service(name)) THEN Nothing
  ELSE [host |-> Lowered(Mac), port |-> Port(name),
        address |-> IF \E record \in Range(records) : record.kind = TYPE_A THEN 7 ELSE Nothing]

(* A name pointing back through as many names as n.                        *)
Chain(n) == [questions |-> 0, answers |-> 0,
             cells |-> <<Label("_tcp"), End>> \o [i \in 1..n |-> Pointer(IF i = 1 THEN 1 ELSE i + 1)]]
Looping == [questions |-> 0, answers |-> 1,
            cells |-> <<Pointer(1), Field(TYPE_PTR), Field(1), Pointer(1)>>]
Tall(n) == [i \in 1..n |-> Label("long")] \o <<End>>

ReadsWhatIsSaid(records, echoed, after, latest) ==
  LET message == Said(records, echoed, after, latest)
  IN /\ \A name \in {SERVICE, PAIRING} : Answer(message, name) = WhereItIs(records, name)
     /\ \A n \in 0..(Len(message.cells) - 1) : records # <<>> =>
          Answer(CutAt(message, n), SERVICE) = Nothing
BoundsAName ==
  /\ NameAt(Chain(JUMP_LIMIT).cells, JUMP_LIMIT + 2) = <<"_tcp">>
  /\ NameAt(Chain(JUMP_LIMIT + 1).cells, JUMP_LIMIT + 3) = Nothing
  /\ Answer(Looping, SERVICE) = Nothing
  /\ Len(NameAt(Tall(4), 1)) = 4 /\ NameAt(Tall(5), 1) = Nothing

(* Whatever comes and however long after, a search is over by its time;    *)
(* and it has found the sink just where an answer came in time and nothing *)
(* before it had failed, at the address that came or the one its host's    *)
(* name resolves to.                                                       *)
Offers(name) == SelectSeq(Advertised, LAMBDA r : IsSuffix(Service(name), r.name))
Nameless == Said(Offers(SERVICE), FALSE, 0, TRUE)
Datagrams ==
  {Said(<<>>, TRUE, 0, FALSE), Looping, Nameless,
   Said(Advertised, TRUE, 0, TRUE), Said(Offers(PAIRING), FALSE, 0, TRUE)}
Arrivals ==
  {Arrival(after, TRUE, datagram) : after \in {0, 1, 3}, datagram \in Datagrams}
  \cup {Arrival(0, FALSE, Nothing)}
Answers(arrival) == arrival.received /\ Answer(arrival.datagram, SERVICE) # Nothing
TimeOf(arrivals, i) == FoldLeft(LAMBDA sum, arrival : sum + arrival.after, 0, SubSeq(arrivals, 1, i))
LooksInTime(arrivals, refused, patience) ==
  LET search == Searched(SERVICE, patience, refused, arrivals)
      sink == Find(SERVICE, patience, refused, arrivals, [host \in {Lowered(Mac)} |-> 8])
      reached == {i \in DOMAIN arrivals : /\ Answers(arrivals[i]) /\ TimeOf(arrivals, i) < patience
                                          /\ \A j \in 1..(i - 1) : arrivals[j].received}
      address == IF arrivals[Min(reached)].datagram = Nameless THEN 8 ELSE 7
  IN /\ search.now <= patience
     /\ sink = IF reached = {} \/ refused # {} THEN Nothing ELSE ASinkAt(address, 1)

(* The sink is found by what its machine says, in whatever order and       *)
(* spelling; what is cut short or points at itself says nothing; and the   *)
(* looking is over in its time.                                            *)
FoundByName ==
  LET messages == Sayings
      searches == BoundedSeq(Arrivals, 2)
  IN /\ \A records \in messages, echoed \in BOOLEAN, after \in 0..1, latest \in BOOLEAN :
          ReadsWhatIsSaid(records, echoed, after, latest)
     /\ BoundsAName
     /\ \A arrivals \in searches, refused \in {{}, {"ttl"}}, patience \in {0, 4} :
          LooksInTime(arrivals, refused, patience)
=============================================================================
