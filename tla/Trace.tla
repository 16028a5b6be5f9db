------------------------------- MODULE Trace -------------------------------
(***************************************************************************)
(* The recording of a run (engine/src/trace.rs), as the converting machine *)
(* writes it (Recording and handle_traced of engine/src/sink.rs) and as    *)
(* the forwarding machine keeps it until a link takes it.  What a key does *)
(* is reduced to being held: Converter says what becomes of it.            *)
(*                                                                         *)
(* Counts that only grow stop at MaxWritten records, and Burst is how many *)
(* records the link and the output device may write between two events of  *)
(* this machine: a supervised run is asked for a sign of life every second.*)
(***************************************************************************)
EXTENDS Naturals, FiniteSets, Sequences, SequencesExt

CONSTANTS
  Keyboards,
  Keys,
  ForReadingAlone,    \* kinds the sink's run records and a replay does not need:
                      \* Received, LinkEnded, Served, OutputEnded
  Capacity,           \* records that fit in the region
  RecordsPerSegment,  \* RECORDS_PER_SEGMENT
  Burst,              \* a bound of the model
  MaxWritten          \* a bound of the model

ASSUME TraceAssumption ==
  /\ Capacity \in Nat \ {0}
  /\ RecordsPerSegment \in Nat
  /\ Burst \in Nat
  /\ MaxWritten \in Nat
  /\ ForReadingAlone \subseteq {"Received", "LinkEnded", "Served", "OutputEnded"}

VARIABLES
  side,               \* whose recording it is: the sink's or the source's
  slots,              \* the region, in records
  next, first, used, evicted,  \* the writer's own account of it
  sent,               \* how many records the link has been handed
  header,             \* what the region says of itself
  written,            \* how much of the record in hand is in the region
  pending,            \* records the run is about to push
  since,              \* records since the last checkpoint
  timed,              \* whether that checkpoint has a time
  quiet,              \* records since the last event of this machine
  devices, held,      \* the sink's state
  handed              \* the last record handed to the link

ring == <<slots, next, first, used, evicted>>
sink == <<devices, held>>
vars == <<side, ring, sent, header, written, pending, since, timed, quiet, sink, handed>>

(* Records: a checkpoint's three kinds, events, what became of them, and   *)
(* what is recorded for reading alone.                                     *)
CheckpointBegin == [kind |-> "CheckpointBegin"]
CheckpointDevice(d) == [kind |-> "CheckpointDevice", device |-> d]
CheckpointHeld(h) == [kind |-> "CheckpointHeld", held |-> h]
Event(e) == [kind |-> "Event", event |-> e]
Injected(e) == [kind |-> "Injected", event |-> e]
ForReading(k) == [kind |-> k]
FromTheSource(r) == [kind |-> "FromTheSource", record |-> r]

Held == Keyboards \X Keys
Events ==
  [what : {"Attached", "Detached"}, device : Keyboards]
    \cup [what : {"KeyDown", "KeyUp"}, held : Held]
    \cup {[what |-> "Probe"]}
SourceRecord == {Event([what |-> "KeyDown", held |-> h]) : h \in Held} \cup {ForReading("Sent")}
Record ==
  {CheckpointBegin} \cup {CheckpointDevice(d) : d \in Keyboards}
    \cup {CheckpointHeld(h) : h \in Held}
    \cup {Event(e) : e \in Events} \cup {Injected(e) : e \in Events}
    \cup {ForReading(k) : k \in ForReadingAlone \cup {"Sent"}}
    \cup {FromTheSource(r) : r \in SourceRecord}

Slot == 0..Capacity - 1
NeverWritten == [kind |-> "Nothing"]
Header(f, u, e) == [first |-> f, used |-> u, evicted |-> e]

Init ==
  /\ side \in {"Sink", "Source"}
  /\ slots = [s \in Slot |-> NeverWritten]
  /\ next = 0 /\ first = 0 /\ used = 0 /\ evicted = 0 /\ sent = 0
  /\ header = Header(0, 0, 0)
  /\ written = "All"
  /\ pending = IF side = "Sink" THEN <<CheckpointBegin>> ELSE <<>>
  /\ since = 0 /\ timed = FALSE /\ quiet = 0
  /\ devices = {} /\ held = {}
  /\ handed = <<>>

-----------------------------------------------------------------------------
(* The ring.                                                               *)

(* From the oldest record up to the next checkpoint of this machine, or    *)
(* everything.                                                             *)
EvictOne == 1                                  \* mutant: one record
Dropped ==
  LET At(n) == slots[(first + n) % Capacity]
      stops == {n \in 1..used - 1 : At(n) = CheckpointBegin}
  IN IF stops = {} THEN used ELSE CHOOSE n \in stops : \A m \in stops : n <= m

(* A record goes into its slot, what is in its way having gone; what the   *)
(* region says of itself comes after.                                      *)
NextSlot == (next + 1) % Capacity
Push(record) ==
  LET dropped == IF used = Capacity THEN Dropped ELSE 0
  IN /\ slots' = [slots EXCEPT ![next] = record]
     /\ next' = NextSlot
     /\ first' = (first + dropped) % Capacity
     /\ used' = used - dropped + 1
     /\ evicted' = evicted + dropped
     /\ written' = "Slot"

OldestStays == Header(header.first, used, evicted)  \* mutant
Says == Header(first, used, evicted)
WriteHeader ==
  /\ written = "Slot"
  /\ header' = Says
  /\ written' = "All"
  /\ UNCHANGED <<side, ring, sent, pending, since, timed, quiet, sink, handed>>

(* unsent, and hand_over_a_record: whatever the link answers, the record   *)
(* has been handed over.                                                   *)
SkipsNothing == sent                           \* mutant
OldestUnsent == IF sent < evicted THEN evicted ELSE sent
HandOverARecord ==
  /\ side = "Source" /\ written = "All"
  /\ sent < evicted + used
  /\ handed' = <<OldestUnsent, slots[(first + (OldestUnsent - evicted)) % Capacity]>>
  /\ sent' = OldestUnsent + 1
  /\ UNCHANGED <<side, ring, header, written, pending, since, timed, quiet, sink>>

-----------------------------------------------------------------------------
(* The converting machine's run.                                           *)

Idle == pending = <<>> /\ written = "All" /\ evicted + used < MaxWritten

CheckpointRecords ==
  <<CheckpointBegin>>
    \o SetToSeq({CheckpointDevice(d) : d \in devices})
    \o SetToSeq({CheckpointHeld(h) : h \in held})

(* Due by the count, by the share of the region, or by the clock where the *)
(* last one has a time.                                                    *)
CheckpointIsDue(late) ==
  \/ since >= RecordsPerSegment
  \/ since >= Capacity \div 4
  \/ timed /\ late

CanHappen(e) ==
  CASE e.what = "Attached" -> e.device \notin devices
    [] e.what = "Detached" -> e.device \in devices
    [] e.what = "KeyDown" -> e.held[1] \in devices /\ e.held \notin held
    [] e.what = "KeyUp" -> e.held \in held
    [] OTHER -> TRUE

(* handle_traced: the checkpoint, the event, and what became of it.        *)
EventFirst(e, checkpoint) == <<Event(e)>> \o checkpoint    \* mutant
CheckpointFirst(e, checkpoint) == checkpoint \o <<Event(e)>>
HandleTraced(e, late) ==
  /\ side = "Sink" /\ Idle /\ CanHappen(e)
  /\ LET due == CheckpointIsDue(late)
     IN /\ pending' = CheckpointFirst(e, IF due THEN CheckpointRecords ELSE <<>>)
                        \o (IF e.what \in {"KeyDown", "KeyUp"} THEN <<Injected(e)>> ELSE <<>>)
        /\ since' = IF due THEN 0 ELSE since
        /\ timed' = (timed \/ due)
  /\ quiet' = 0
  /\ UNCHANGED <<side, ring, sent, header, written, sink, handed>>

(* Sink::handle, of what a checkpoint is the state of.                     *)
Handle(record) ==
  IF record.kind # "Event" THEN UNCHANGED sink
  ELSE LET e == record.event
       IN /\ devices' = CASE e.what = "Attached" -> devices \cup {e.device}
                          [] e.what = "Detached" -> devices \ {e.device}
                          [] OTHER -> devices
          /\ held' = CASE e.what = "Detached" -> {h \in held : h[1] # e.device}
                       [] e.what = "KeyDown" -> held \cup {e.held}
                       [] e.what = "KeyUp" -> held \ {e.held}
                       [] OTHER -> held

InACheckpoint(record) ==
  record.kind \in {"CheckpointBegin", "CheckpointDevice", "CheckpointHeld"}

(* A checkpoint's own records are not counted against the next one.        *)
Counted(record) == IF InACheckpoint(record) THEN since ELSE since + 1
PushNext ==
  /\ pending # <<>> /\ written = "All"
  /\ Push(Head(pending))
  /\ pending' = Tail(pending)
  /\ since' = Counted(Head(pending))
  /\ Handle(Head(pending))
  /\ UNCHANGED <<side, sent, header, timed, quiet, handed>>

(* Records for reading alone: what came over the link, what the link and   *)
(* the output device ended of, and the other machine's records with the    *)
(* bit that says whose they are.                                           *)
Marked(r) == FromTheSource(r)
Recorded ==
  {ForReading(k) : k \in ForReadingAlone} \cup {Marked(r) : r \in SourceRecord}
RecordForReading(record) ==
  /\ side = "Sink" /\ Idle /\ quiet < Burst
  /\ Push(record)
  /\ since' = since + 1
  /\ quiet' = quiet + 1
  /\ UNCHANGED <<side, sent, header, pending, timed, sink, handed>>

(* The forwarding machine records what it sent and what happened, with no  *)
(* checkpoints.                                                            *)
SourceRecords(record) ==
  /\ side = "Source" /\ Idle
  /\ Push(record)
  /\ UNCHANGED <<side, sent, header, pending, since, timed, quiet, sink, handed>>

Next ==
  \/ WriteHeader
  \/ PushNext
  \/ HandOverARecord
  \/ \E e \in Events, late \in BOOLEAN : HandleTraced(e, late)
  \/ \E record \in Recorded : RecordForReading(record)
  \/ \E record \in SourceRecord : SourceRecords(record)

Spec == Init /\ [][Next]_vars

-----------------------------------------------------------------------------
(* Reading a recording.                                                    *)

(* Reader::records of a copy of the region, by what the copy says.         *)
ReadBy(h) == [i \in 1..h.used |-> slots[(h.first + i - 1) % Capacity]]
Records == ReadBy(Header(first, used, evicted))

(* Reader::own_records: where this machine's own records are.              *)
Own(records) == {n \in 1..Len(records) : records[n].kind # "FromTheSource"}
Begins(records) == {n \in Own(records) : records[n] = CheckpointBegin}
BeginsAtACheckpoint(records) ==
  \A n \in Own(records) : (\A m \in Own(records) : n <= m) => n \in Begins(records)

(* Sink::from_checkpoint: the sink is picked up with what the checkpoint's *)
(* records say, one by one.                                                *)
FromCheckpoint(state, record) ==
  IF record.kind = "CheckpointDevice"
  THEN [state EXCEPT !.devices = @ \cup {record.device}]
  ELSE [state EXCEPT !.held = @ \cup {record.held}]

(* convert_from, of the state a checkpoint is of.                          *)
Replayed(state, record) ==
  LET e == record.event
  IN CASE e.what = "Attached" -> [state EXCEPT !.devices = @ \cup {e.device}]
       [] e.what = "Detached" ->
            [devices |-> state.devices \ {e.device},
             held |-> {h \in state.held : h[1] # e.device}]
       [] e.what = "KeyDown" -> [state EXCEPT !.held = @ \cup {e.held}]
       [] e.what = "KeyUp" -> [state EXCEPT !.held = @ \ {e.held}]
       [] OTHER -> state

(* Reader::checkpoint: the records that follow a checkpoint are its state  *)
(* up to the first event or the next checkpoint, and every event after it  *)
(* is replayed.                                                            *)
AtBegin == [theirs |-> TRUE, state |-> [devices |-> {}, held |-> {}]]
ReadOn(reading, record) ==
  CASE record.kind \in {"CheckpointDevice", "CheckpointHeld"} /\ reading.theirs ->
         [reading EXCEPT !.state = FromCheckpoint(@, record)]
    [] record.kind = "CheckpointBegin" -> [reading EXCEPT !.theirs = FALSE]
    [] record.kind = "Event" ->
         [theirs |-> FALSE, state |-> Replayed(reading.state, record)]
    [] OTHER -> reading
ReplayFrom(records, i) ==
  LET read[n \in i..Len(records)] ==
        IF n = i THEN AtBegin ELSE ReadOn(read[n - 1], records[n])
  IN read[Len(records)].state

-----------------------------------------------------------------------------
(* Every variable has its type.                                            *)
TypeOK ==
  /\ side \in {"Sink", "Source"}
  /\ slots \in [Slot -> Record \cup {NeverWritten}]
  /\ next \in Slot /\ first \in Slot /\ used \in 0..Capacity /\ evicted \in Nat
  /\ sent \in 0..evicted + used
  /\ header \in [first : Slot, used : 0..Capacity, evicted : Nat]
  /\ written \in {"All", "Slot"}
  /\ pending \in Seq(Record)
  /\ since \in Nat /\ timed \in BOOLEAN /\ quiet \in 0..Burst
  /\ devices \subseteq Keyboards /\ held \subseteq Held

(* A checkpoint is in the region whole.                                    *)
CheckpointWhole == pending = <<>> \/ ~InACheckpoint(Head(pending))

(* "What remains always begins at a checkpoint" (ADR-0009): whatever was   *)
(* recorded for reading in between, the oldest record of this machine      *)
(* still there is a checkpoint.  So all of it can be replayed, and from    *)
(* any checkpoint still there the events after it arrive at the state the  *)
(* run is in.                                                              *)
ReplayReproduces ==
  TypeOK /\ (side = "Sink" =>
    /\ BeginsAtACheckpoint(Records)
    /\ CheckpointWhole =>
         \A i \in Begins(Records) :
           ReplayFrom(Records, i) = [devices |-> devices, held |-> held])

(* The ring is the recording promised: the newest records in the order     *)
(* they were written, and each handed over once.                           *)
Promised == INSTANCE Recording WITH kept <- Records, lost <- evicted, taken <- sent
IsARecording == Promised!Spec

(* A copy of the region taken between a record and the header after it     *)
(* loses the newest record and nothing else: what the recording has of the *)
(* records before it is what the copy ends with.  Its first record alone   *)
(* may be out of place, the newest one where the oldest was.               *)
Known == IF written = "All" THEN Records ELSE Front(Records)
CopyMissesTheNewest ==
  LET copy == ReadBy(header)
  IN /\ Len(Known) <= Len(copy)
     /\ SubSeq(copy, Len(copy) - Len(Known) + 1, Len(copy)) = Known
=============================================================================
