---------------------------- MODULE TraceProofs ----------------------------
(***************************************************************************)
(* Proofs about the ring, for any number of devices, any size of region    *)
(* and of segment: every variable keeps its type, the ring is the          *)
(* recording that Recording promises, and a copy taken while the writer is *)
(* between a record and its header misses that record at most.  In a       *)
(* region with room for one segment, what is left begins at a checkpoint   *)
(* and every replay of it arrives where the run is.                        *)
(*                                                                         *)
(* The first is where a record is: RingInv says that the next one goes     *)
(* behind the newest, and HeaderInv how far behind the ring its header is. *)
(* The last is SinkInv: that the checkpoint begun last and all that comes  *)
(* after it fit the region, so that what makes room for them is older, and *)
(* that a replay has arrived where the run is, but for what the checkpoint *)
(* being pushed has still to say.                                          *)
(***************************************************************************)
EXTENDS Trace, TLAPS, FiniteSetTheorems, WellFoundedInduction

-----------------------------------------------------------------------------
(* The ring goes round once at most.                                       *)

LEMMA Wraps ==
  ASSUME NEW a \in Slot, NEW b \in 0..Capacity
  PROVE  /\ (a + b) % Capacity = IF a + b < Capacity THEN a + b ELSE a + b - Capacity
         /\ (a + b) % Capacity \in Slot
<1> USE TraceAssumption DEF Slot
<1>1. CASE a + b < Capacity
  BY <1>1, SMT
<1>2. CASE a + b >= Capacity
  BY <1>2, SMT
<1> QED  BY <1>1, <1>2

LEMMA Further ==
  ASSUME NEW a \in Slot, NEW b \in 0..Capacity, NEW c \in 0..Capacity - b
  PROVE  (((a + b) % Capacity) + c) % Capacity = (a + (b + c)) % Capacity
<1> USE TraceAssumption
<1>1. /\ (a + b) % Capacity = IF a + b < Capacity THEN a + b ELSE a + b - Capacity
      /\ (a + b) % Capacity \in Slot
  BY Wraps
<1>2. /\ b + c \in 0..Capacity /\ c \in 0..Capacity
      /\ (a + b) + c = a + (b + c)
  BY DEF Slot
<1>3. (a + (b + c)) % Capacity
        = IF a + (b + c) < Capacity THEN a + (b + c) ELSE a + (b + c) - Capacity
  BY <1>2, Wraps
<1>4. (((a + b) % Capacity) + c) % Capacity
        = IF ((a + b) % Capacity) + c < Capacity THEN ((a + b) % Capacity) + c
          ELSE ((a + b) % Capacity) + c - Capacity
  BY <1>1, <1>2, Wraps
<1>5. a + b >= Capacity => a + (b + c) >= Capacity
  BY DEF Slot
<1> QED  BY <1>1, <1>3, <1>4, <1>5 DEF Slot

LEMMA Apart ==
  ASSUME NEW a \in Slot, NEW b \in 0..Capacity - 1, NEW c \in 0..Capacity - 1, b # c
  PROVE  (a + b) % Capacity # (a + c) % Capacity
<1>1. b \in 0..Capacity /\ c \in 0..Capacity
  BY TraceAssumption
<1>2. /\ (a + b) % Capacity = IF a + b < Capacity THEN a + b ELSE a + b - Capacity
      /\ (a + c) % Capacity = IF a + c < Capacity THEN a + c ELSE a + c - Capacity
  BY <1>1, Wraps
<1> QED  BY <1>2, TraceAssumption DEF Slot

LEMMA Least ==
  ASSUME NEW T \in SUBSET Nat, T # {}
  PROVE  \E n \in T : \A m \in T : n <= m
<1>1. PICK n \in T : \A m \in T : ~(<<m, n>> \in OpToRel(<, Nat))
  <2>1. IsWellFoundedOn(OpToRel(<, Nat), Nat)
    BY NatLessThanWellFounded
  <2> QED  BY <2>1, WFMin
<1>2. \A m \in T : ~(m < n)
  BY <1>1 DEF OpToRel
<1> QED  BY <1>2

-----------------------------------------------------------------------------
RingInv ==
  /\ next = (first + used) % Capacity
  /\ used = 0 => evicted = 0

(* The header is of the ring as it is, or as it was before one record.     *)
Behind(d) ==
  /\ d = 0 <=> header.used < Capacity
  /\ d \in 0..header.used
  /\ first = (header.first + d) % Capacity
  /\ used = header.used - d + 1
HeaderInv ==
  IF written = "All" THEN header = Says ELSE \E d \in 0..Capacity : Behind(d)

(* What the run pushes one by one: nothing it records for reading alone.   *)
OfTheRun ==
  {CheckpointBegin} \cup {CheckpointDevice(d) : d \in Keyboards}
    \cup {CheckpointHeld(h) : h \in Held}
    \cup {Event(e) : e \in Events} \cup {Injected(e) : e \in Events}
RunInv == pending \in Seq(OfTheRun) /\ IsFiniteSet(devices) /\ IsFiniteSet(held)

IndInv == TypeOK /\ RingInv /\ HeaderInv /\ RunInv

LEMMA DroppedSome ==
  ASSUME TypeOK, used = Capacity
  PROVE  Dropped \in 1..used
<1> DEFINE At(n) == slots[(first + n) % Capacity]
           stops == {n \in 1..used - 1 : At(n) = CheckpointBegin}
<1>1. used \in Nat \ {0} /\ stops \in SUBSET Nat /\ stops \subseteq 1..used
  BY TraceAssumption DEF TypeOK
<1>2. CASE stops = {}
  <2>1. Dropped = used
    BY <1>2 DEF Dropped
  <2> QED  BY <1>1, <2>1
<1>3. CASE stops # {}
  <2>1. \E n \in stops : \A m \in stops : n <= m
    BY <1>1, <1>3, Least
  <2>2. Dropped = CHOOSE n \in stops : \A m \in stops : n <= m
    BY <1>3 DEF Dropped
  <2>3. Dropped \in stops
    BY <2>1, <2>2
  <2> QED  BY <1>1, <2>3
<1> QED  BY <1>2, <1>3

(* What a push comes to, whatever it pushes.                               *)
Pushed(record, d) ==
  /\ d = 0 <=> used < Capacity
  /\ slots' = [slots EXCEPT ![next] = record]
  /\ next' = (next + 1) % Capacity
  /\ first' = (first + d) % Capacity
  /\ used' = used - d + 1
  /\ evicted' = evicted + d
  /\ written' = "Slot"

LEMMA Pushes ==
  ASSUME TypeOK, NEW record, Push(record)
  PROVE  \E d \in 0..used : Pushed(record, d)
<1>1. CASE used = Capacity
  <2>1. Dropped \in 1..used
    BY <1>1, DroppedSome
  <2>2. Dropped # 0 /\ ~(used < Capacity) /\ Dropped \in 0..used
    BY <1>1, <2>1, TraceAssumption
  <2>3. Pushed(record, Dropped)
    BY <1>1, <2>2 DEF Push, Pushed, NextSlot
  <2> QED  BY <2>2, <2>3
<1>2. CASE used # Capacity
  <2>1. used < Capacity /\ 0 \in 0..used
    BY <1>2, TraceAssumption DEF TypeOK
  <2>2. Pushed(record, 0)
    BY <1>2, <2>1 DEF Push, Pushed, NextSlot
  <2> QED  BY <2>1, <2>2
<1> QED  BY <1>1, <1>2

LEMMA PushKeeps ==
  ASSUME IndInv, NEW record \in Record, Push(record), written = "All",
         UNCHANGED <<sent, header>>
  PROVE  /\ slots' \in [Slot -> Record \cup {NeverWritten}]
         /\ next' \in Slot /\ first' \in Slot /\ used' \in 0..Capacity /\ evicted' \in Nat
         /\ sent' \in 0..evicted' + used'
         /\ written' \in {"All", "Slot"}
         /\ RingInv' /\ HeaderInv'
<1> USE TraceAssumption
<1>1. PICK d \in 0..used : Pushed(record, d)
  BY Pushes DEF IndInv
<1>2. /\ used \in 0..Capacity /\ first \in Slot /\ next \in Slot /\ evicted \in Nat
      /\ sent \in 0..evicted + used
      /\ d \in 0..Capacity /\ used - d + 1 \in 0..Capacity
      /\ used - d \in 0..Capacity
      /\ 1 \in 0..Capacity
  BY <1>1 DEF IndInv, TypeOK, Pushed
<1>3. slots' \in [Slot -> Record \cup {NeverWritten}]
  BY <1>1 DEF IndInv, TypeOK, Pushed
<1>4. next' \in Slot /\ first' \in Slot
  BY <1>1, <1>2, Wraps DEF Pushed
<1>5. used' \in 0..Capacity /\ evicted' \in Nat /\ sent' \in 0..evicted' + used'
  BY <1>1, <1>2 DEF Pushed
<1>6. RingInv'
  <2> SUFFICES next' = (first' + used') % Capacity
    BY <1>1, <1>2 DEF RingInv, Pushed
  <2>1. /\ next = (first + used) % Capacity
        /\ next' = (next + 1) % Capacity
        /\ first' = (first + d) % Capacity
        /\ used' = used - d + 1
    BY <1>1 DEF IndInv, RingInv, Pushed
  <2>2. CASE used < Capacity
    <3>1. d = 0 /\ 1 \in 0..Capacity - used /\ used + 1 = used - d + 1
      BY <1>1, <1>2, <2>2 DEF Pushed
    <3>2. next' = (first + (used + 1)) % Capacity
      BY <1>2, <2>1, <3>1, Further
    <3>3. (first + 0) % Capacity
            = IF first + 0 < Capacity THEN first + 0 ELSE first + 0 - Capacity
      BY <1>2, <3>1, Wraps
    <3>4. first' = first
      BY <1>2, <2>1, <3>1, <3>3 DEF Slot
    <3> QED  BY <2>1, <3>1, <3>2, <3>4 DEF RingInv
  <2>3. CASE used = Capacity
    <3>1. (first + used) % Capacity
            = IF first + used < Capacity THEN first + used ELSE first + used - Capacity
      BY <1>2, Wraps
    <3>2. next = first
      BY <1>2, <2>1, <2>3, <3>1 DEF Slot
    <3>3. d >= 1 /\ used' = Capacity - d + 1
      BY <1>1, <1>2, <2>1, <2>3 DEF Pushed
    <3>4. next' = IF first + 1 < Capacity THEN first + 1 ELSE first + 1 - Capacity
      BY <1>2, <2>1, <3>2, Wraps
    <3>5. first' = IF first + d < Capacity THEN first + d ELSE first + d - Capacity
      BY <1>2, <2>1, Wraps
    <3>6. (first' + used') % Capacity
            = IF first' + used' < Capacity THEN first' + used' ELSE first' + used' - Capacity
      BY <1>4, <1>5, Wraps
    <3>7. next' = IF first' + used' < Capacity THEN first' + used'
                  ELSE first' + used' - Capacity
      BY <1>2, <3>3, <3>4, <3>5 DEF Slot
    <3> QED  BY <3>6, <3>7 DEF RingInv
  <2> QED  BY <1>2, <2>2, <2>3
<1>7. HeaderInv'
  <2>1. header = Says /\ header' = header /\ written' = "Slot"
    BY <1>1 DEF IndInv, HeaderInv, Pushed
  <2>2. Behind(d)'
    BY <1>1, <1>2, <2>1 DEF Behind, Says, Header, Pushed
  <2> QED  BY <1>2, <2>1, <2>2 DEF HeaderInv
<1> QED  BY <1>1, <1>3, <1>4, <1>5, <1>6, <1>7 DEF Pushed

-----------------------------------------------------------------------------
(* What is pushed is a record.                                             *)

LEMMA SequenceOf ==
  ASSUME NEW S, IsFiniteSet(S)
  PROVE  SetToSeq(S) \in Seq(S)
<1>1. Cardinality(S) \in Nat /\ ExistsBijection(1..Cardinality(S), S)
  BY FS_CardinalityType
<1>2. PICK f \in Bijection(1..Cardinality(S), S) : TRUE
  BY <1>1 DEF ExistsBijection
<1>3. f \in [1..Cardinality(S) -> S] /\ IsInjective(f)
  BY <1>2 DEF Bijection, Injection
<1>4. SetToSeq(S) \in [1..Cardinality(S) -> S]
  BY <1>3 DEF SetToSeq
<1> QED  BY <1>1, <1>4

LEMMA WiderSequence ==
  ASSUME NEW S, NEW T, S \subseteq T, NEW s \in Seq(S)
  PROVE  s \in Seq(T)
  OBVIOUS

LEMMA DeviceRecords ==
  ASSUME devices \subseteq Keyboards, IsFiniteSet(devices)
  PROVE  SetToSeq({CheckpointDevice(d) : d \in devices}) \in Seq(OfTheRun)
<1> DEFINE T == {CheckpointDevice(d) : d \in devices}
           f == [d \in devices |-> CheckpointDevice(d)]
<1>1. f \in Surjection(devices, T)
  BY DEF Surjection
<1>2. IsFiniteSet(T)
  BY <1>1, FS_Surjection
<1>3. T \subseteq OfTheRun
  BY DEF OfTheRun
<1> QED  BY <1>2, <1>3, SequenceOf, WiderSequence

LEMMA HeldRecords ==
  ASSUME held \subseteq Held, IsFiniteSet(held)
  PROVE  SetToSeq({CheckpointHeld(h) : h \in held}) \in Seq(OfTheRun)
<1> DEFINE T == {CheckpointHeld(h) : h \in held}
           f == [h \in held |-> CheckpointHeld(h)]
<1>1. f \in Surjection(held, T)
  BY DEF Surjection
<1>2. IsFiniteSet(T)
  BY <1>1, FS_Surjection
<1>3. T \subseteq OfTheRun
  BY DEF OfTheRun
<1> QED  BY <1>2, <1>3, SequenceOf, WiderSequence

LEMMA Joined ==
  ASSUME NEW S, NEW s \in Seq(S), NEW t \in Seq(S)
  PROVE  s \o t \in Seq(S)
  OBVIOUS

LEMMA CheckpointIsOfTheRun ==
  ASSUME devices \subseteq Keyboards, held \subseteq Held,
         IsFiniteSet(devices), IsFiniteSet(held)
  PROVE  CheckpointRecords \in Seq(OfTheRun)
<1>1. <<CheckpointBegin>> \in Seq(OfTheRun)
  BY DEF OfTheRun
<1>2. <<CheckpointBegin>> \o SetToSeq({CheckpointDevice(d) : d \in devices}) \in Seq(OfTheRun)
  BY <1>1, DeviceRecords, Joined
<1> QED  BY <1>2, HeldRecords, Joined DEF CheckpointRecords

LEMMA OfTheRunIsRecorded == OfTheRun \subseteq Record
  BY DEF OfTheRun, Record

LEMMA SourceRecordIsRecorded == SourceRecord \subseteq Record
<1>1. \A h \in Held : [what |-> "KeyDown", held |-> h] \in Events
  BY DEF Events
<1> QED  BY <1>1 DEF SourceRecord, Record

LEMMA RecordedIsRecorded == Recorded \subseteq Record
  BY DEF Recorded, Record, Marked

(* One event handled keeps the sink's state of the devices there are.      *)
LEMMA Handled ==
  ASSUME NEW record \in OfTheRun, Handle(record),
         devices \subseteq Keyboards, held \subseteq Held,
         IsFiniteSet(devices), IsFiniteSet(held)
  PROVE  /\ devices' \subseteq Keyboards /\ held' \subseteq Held
         /\ IsFiniteSet(devices') /\ IsFiniteSet(held')
<1>1. CASE record.kind # "Event"
  BY <1>1 DEF Handle, sink
<1>2. CASE record.kind = "Event"
  <2> DEFINE e == record.event
  <2>1. e \in Events
    BY <1>2 DEF OfTheRun, CheckpointBegin, CheckpointDevice, CheckpointHeld, Event, Injected
  <2>2. /\ devices' = CASE e.what = "Attached" -> devices \cup {e.device}
                        [] e.what = "Detached" -> devices \ {e.device}
                        [] OTHER -> devices
        /\ held' = CASE e.what = "Detached" -> {h \in held : h[1] # e.device}
                     [] e.what = "KeyDown" -> held \cup {e.held}
                     [] e.what = "KeyUp" -> held \ {e.held}
                     [] OTHER -> held
    BY <1>2 DEF Handle
  <2>3. CASE e.what = "Attached"
    <3>1. e.device \in Keyboards
      BY <2>1, <2>3 DEF Events
    <3>2. devices' = devices \cup {e.device} /\ held' = held
      BY <2>2, <2>3
    <3> QED  BY <3>1, <3>2, FS_AddElement
  <2>4. CASE e.what = "Detached"
    <3>1. /\ devices' = devices \ {e.device} /\ held' = {h \in held : h[1] # e.device}
          /\ devices' \in SUBSET devices /\ held' \in SUBSET held
      BY <2>2, <2>4
    <3> QED  BY <3>1, FS_Subset
  <2>5. CASE e.what = "KeyDown"
    <3>1. e.held \in Held
      BY <2>1, <2>5 DEF Events
    <3>2. devices' = devices /\ held' = held \cup {e.held}
      BY <2>2, <2>5
    <3> QED  BY <3>1, <3>2, FS_AddElement
  <2>6. CASE e.what = "KeyUp"
    <3>1. devices' = devices /\ held' = held \ {e.held} /\ held' \in SUBSET held
      BY <2>2, <2>6
    <3> QED  BY <3>1, FS_Subset
  <2>7. CASE e.what = "Probe"
    <3>1. devices' = devices /\ held' = held
      BY <2>2, <2>7
    <3> QED  BY <3>1
  <2>8. e.what \in {"Attached", "Detached", "KeyDown", "KeyUp", "Probe"}
    BY <2>1 DEF Events
  <2> QED  BY <2>3, <2>4, <2>5, <2>6, <2>7, <2>8
<1> QED  BY <1>1, <1>2

-----------------------------------------------------------------------------
(* Every step keeps the invariant.                                         *)

LEMMA Start == Init => IndInv
<1> SUFFICES ASSUME Init PROVE IndInv
  OBVIOUS
<1> USE TraceAssumption
<1>1. 0 \in Slot /\ (0 + 0) % Capacity = 0 /\ 0 \in 0..Capacity
  BY Wraps DEF Slot
<1>2. pending \in Seq(OfTheRun)
  <2>1. CheckpointBegin \in OfTheRun
    BY DEF OfTheRun
  <2>2. <<CheckpointBegin>> \in Seq(OfTheRun) /\ <<>> \in Seq(OfTheRun)
    BY <2>1
  <2> QED  BY <2>2 DEF Init
<1>3. pending \in Seq(Record)
  BY <1>2, OfTheRunIsRecorded, WiderSequence
<1>4. TypeOK
  BY <1>1, <1>3 DEF Init, TypeOK, Header
<1>5. RingInv /\ HeaderInv
  BY <1>1 DEF Init, RingInv, HeaderInv, Says
<1>6. RunInv
  BY <1>2, FS_EmptySet DEF Init, RunInv
<1> QED  BY <1>4, <1>5, <1>6 DEF IndInv

LEMMA WriteHeaderKeeps ==
  ASSUME IndInv, WriteHeader
  PROVE  IndInv'
<1>1. TypeOK'
  BY DEF IndInv, TypeOK, WriteHeader, ring, sink, Says, Header
<1>2. RingInv' /\ HeaderInv'
  BY DEF IndInv, RingInv, HeaderInv, WriteHeader, ring, Says, Header
<1>3. RunInv'
  BY DEF IndInv, RunInv, WriteHeader, sink
<1> QED  BY <1>1, <1>2, <1>3 DEF IndInv

LEMMA HandOverKeeps ==
  ASSUME IndInv, HandOverARecord
  PROVE  IndInv'
<1>1. sent' \in 0..evicted + used
  <2>1. used \in Nat /\ evicted \in Nat /\ sent \in Nat /\ (used = 0 => evicted = 0)
    BY TraceAssumption DEF IndInv, TypeOK, RingInv
  <2>2. sent < evicted + used /\ sent' = OldestUnsent + 1
    BY DEF HandOverARecord
  <2> QED  BY <2>1, <2>2 DEF OldestUnsent
<1>2. TypeOK'
  BY <1>1 DEF IndInv, TypeOK, HandOverARecord, ring, sink
<1>3. RingInv' /\ HeaderInv'
  BY DEF IndInv, RingInv, HeaderInv, HandOverARecord, ring, Says, Header, Behind
<1>4. RunInv'
  BY DEF IndInv, RunInv, HandOverARecord, sink
<1> QED  BY <1>2, <1>3, <1>4 DEF IndInv

LEMMA HandleTracedKeeps ==
  ASSUME IndInv, NEW e \in Events, NEW late \in BOOLEAN, HandleTraced(e, late)
  PROVE  IndInv'
<1> DEFINE checkpoint == IF CheckpointIsDue(late) THEN CheckpointRecords ELSE <<>>
           injected == IF e.what \in {"KeyDown", "KeyUp"} THEN <<Injected(e)>> ELSE <<>>
<1>1. /\ pending' = (checkpoint \o <<Event(e)>>) \o injected
      /\ since' \in {0, since} /\ timed' = (timed \/ CheckpointIsDue(late)) /\ quiet' = 0
      /\ UNCHANGED <<side, ring, sent, header, written, sink, handed>>
  BY DEF HandleTraced, CheckpointFirst
<1>2. checkpoint \in Seq(OfTheRun)
  BY CheckpointIsOfTheRun DEF IndInv, TypeOK, RunInv
<1>3. <<Event(e)>> \in Seq(OfTheRun) /\ injected \in Seq(OfTheRun)
  <2>1. Event(e) \in OfTheRun /\ Injected(e) \in OfTheRun
    BY DEF OfTheRun
  <2>2. /\ <<Event(e)>> \in Seq(OfTheRun) /\ <<Injected(e)>> \in Seq(OfTheRun)
        /\ <<>> \in Seq(OfTheRun)
    BY <2>1
  <2> QED  BY <2>2
<1>4. pending' \in Seq(OfTheRun)
  <2> HIDE DEF checkpoint, injected
  <2> QED  BY <1>1, <1>2, <1>3, Joined
<1>5. pending' \in Seq(Record)
  BY <1>4, OfTheRunIsRecorded, WiderSequence
<1>6. timed' \in BOOLEAN
  BY <1>1
<1>7. TypeOK'
  BY <1>1, <1>5, <1>6, TraceAssumption DEF IndInv, TypeOK, ring, sink
<1>8. RingInv' /\ HeaderInv'
  BY <1>1 DEF IndInv, RingInv, HeaderInv, ring, Says, Header, Behind
<1>9. RunInv'
  BY <1>1, <1>4 DEF IndInv, RunInv, sink
<1> QED  BY <1>7, <1>8, <1>9 DEF IndInv

LEMMA PushNextKeeps ==
  ASSUME IndInv, PushNext
  PROVE  IndInv'
<1>1. Head(pending) \in OfTheRun /\ Tail(pending) \in Seq(OfTheRun)
  BY DEF IndInv, RunInv, PushNext
<1>2. Head(pending) \in Record /\ Tail(pending) \in Seq(Record)
  BY <1>1, OfTheRunIsRecorded, WiderSequence
<1>3. /\ Push(Head(pending)) /\ Handle(Head(pending)) /\ written = "All"
      /\ pending' = Tail(pending) /\ since' = Counted(Head(pending))
      /\ UNCHANGED <<side, sent, header, timed, quiet, handed>>
  BY DEF PushNext
<1>4. /\ slots' \in [Slot -> Record \cup {NeverWritten}]
      /\ next' \in Slot /\ first' \in Slot /\ used' \in 0..Capacity /\ evicted' \in Nat
      /\ sent' \in 0..evicted' + used'
      /\ written' \in {"All", "Slot"}
      /\ RingInv' /\ HeaderInv'
  BY <1>2, <1>3, PushKeeps
<1>5. /\ devices' \subseteq Keyboards /\ held' \subseteq Held
      /\ IsFiniteSet(devices') /\ IsFiniteSet(held')
  BY <1>1, <1>3, Handled DEF IndInv, TypeOK, RunInv
<1>6. since' \in Nat
  BY <1>3 DEF IndInv, TypeOK, Counted
<1>7. TypeOK'
  BY <1>2, <1>3, <1>4, <1>5, <1>6 DEF IndInv, TypeOK
<1>8. RunInv'
  BY <1>1, <1>3, <1>5 DEF RunInv
<1> QED  BY <1>4, <1>7, <1>8 DEF IndInv

LEMMA RecordForReadingKeeps ==
  ASSUME IndInv, NEW record \in Recorded, RecordForReading(record)
  PROVE  IndInv'
<1>1. record \in Record
  BY RecordedIsRecorded
<1>2. /\ Push(record) /\ written = "All" /\ since' = since + 1
      /\ quiet < Burst /\ quiet' = quiet + 1
      /\ UNCHANGED <<side, sent, header, pending, timed, sink, handed>>
  BY DEF RecordForReading, Idle
<1>3. /\ slots' \in [Slot -> Record \cup {NeverWritten}]
      /\ next' \in Slot /\ first' \in Slot /\ used' \in 0..Capacity /\ evicted' \in Nat
      /\ sent' \in 0..evicted' + used'
      /\ written' \in {"All", "Slot"}
      /\ RingInv' /\ HeaderInv'
  BY <1>1, <1>2, PushKeeps
<1>4. since' \in Nat /\ quiet' \in 0..Burst
  BY <1>2, TraceAssumption DEF IndInv, TypeOK
<1>5. TypeOK'
  BY <1>2, <1>3, <1>4 DEF IndInv, TypeOK, sink
<1>6. RunInv'
  BY <1>2 DEF IndInv, RunInv, sink
<1> QED  BY <1>3, <1>5, <1>6 DEF IndInv

LEMMA SourceRecordsKeeps ==
  ASSUME IndInv, NEW record \in SourceRecord, SourceRecords(record)
  PROVE  IndInv'
<1>1. record \in Record
  BY SourceRecordIsRecorded
<1>2. /\ Push(record) /\ written = "All"
      /\ UNCHANGED <<side, sent, header, pending, since, timed, quiet, sink, handed>>
  BY DEF SourceRecords, Idle
<1>3. /\ slots' \in [Slot -> Record \cup {NeverWritten}]
      /\ next' \in Slot /\ first' \in Slot /\ used' \in 0..Capacity /\ evicted' \in Nat
      /\ sent' \in 0..evicted' + used'
      /\ written' \in {"All", "Slot"}
      /\ RingInv' /\ HeaderInv'
  BY <1>1, <1>2, PushKeeps
<1>4. TypeOK'
  BY <1>2, <1>3 DEF IndInv, TypeOK, sink
<1>5. RunInv'
  BY <1>2 DEF IndInv, RunInv, sink
<1> QED  BY <1>3, <1>4, <1>5 DEF IndInv

LEMMA Step == IndInv /\ [Next]_vars => IndInv'
<1> SUFFICES ASSUME IndInv, [Next]_vars PROVE IndInv'
  OBVIOUS
<1>1. CASE WriteHeader
  BY <1>1, WriteHeaderKeeps
<1>2. CASE PushNext
  BY <1>2, PushNextKeeps
<1>3. CASE HandOverARecord
  BY <1>3, HandOverKeeps
<1>4. CASE \E e \in Events, late \in BOOLEAN : HandleTraced(e, late)
  BY <1>4, HandleTracedKeeps
<1>5. CASE \E record \in Recorded : RecordForReading(record)
  BY <1>5, RecordForReadingKeeps
<1>6. CASE \E record \in SourceRecord : SourceRecords(record)
  BY <1>6, SourceRecordsKeeps
<1>7. CASE UNCHANGED vars
  <2>1. TypeOK'
    BY <1>7 DEF IndInv, TypeOK, vars, ring, sink
  <2>2. RingInv' /\ HeaderInv'
    BY <1>7 DEF IndInv, RingInv, HeaderInv, vars, ring, Says, Header, Behind
  <2>3. RunInv'
    BY <1>7 DEF IndInv, RunInv, vars, sink
  <2> QED  BY <2>1, <2>2, <2>3 DEF IndInv
<1> QED  BY <1>1, <1>2, <1>3, <1>4, <1>5, <1>6, <1>7 DEF Next

(* Whatever is recorded by either machine, and whenever the region turns   *)
(* over, every variable keeps its type: the cursor never passes the newest *)
(* record, and the region is never said to hold more than it does.         *)
THEOREM TypeCorrect == Spec => []TypeOK
<1>1. IndInv => TypeOK
  BY DEF IndInv
<1> QED  BY <1>1, Start, Step, PTL DEF Spec

-----------------------------------------------------------------------------
(* The ring as the recording promised.                                     *)

RecordAt(i) == slots[(first + i - 1) % Capacity]

LEMMA ReadOff ==
  ASSUME TypeOK
  PROVE  /\ Records = [i \in 1..used |-> RecordAt(i)]
         /\ Records \in Seq(Record \cup {NeverWritten})
         /\ Len(Records) = used
         /\ \A i \in 1..used : Records[i] = RecordAt(i)
<1>1. Records = [i \in 1..used |-> RecordAt(i)]
  BY DEF Records, ReadBy, Header, RecordAt
<1>2. \A i \in 1..used : RecordAt(i) \in Record \cup {NeverWritten}
  <2> SUFFICES ASSUME NEW i \in 1..used
               PROVE  RecordAt(i) \in Record \cup {NeverWritten}
    OBVIOUS
  <2>1. i - 1 \in 0..Capacity /\ first + i - 1 = first + (i - 1)
    BY TraceAssumption DEF TypeOK, Slot
  <2>2. (first + i - 1) % Capacity \in Slot
    BY <2>1, Wraps DEF TypeOK
  <2> QED  BY <2>2 DEF TypeOK, RecordAt
<1>3. used \in Nat
  BY TraceAssumption DEF TypeOK
<1> QED  BY <1>1, <1>2, <1>3

LEMMA AsAFunction ==
  ASSUME NEW S, NEW s \in Seq(S)
  PROVE  s = [i \in 1..Len(s) |-> s[i]]
  OBVIOUS

LEMMA Added ==
  ASSUME NEW S, NEW s \in Seq(S), NEW r \in S, NEW d \in 0..Len(s)
  PROVE  LET t == Append(SubSeq(s, d + 1, Len(s)), r)
         IN  /\ t = [i \in 1..Len(s) - d + 1 |-> t[i]]
             /\ \A i \in 1..Len(s) - d : t[i] = s[d + i]
             /\ t[Len(s) - d + 1] = r
<1> DEFINE u == SubSeq(s, d + 1, Len(s))
           t == Append(u, r)
<1>1. u \in Seq(S) /\ Len(u) = Len(s) - d /\ \A i \in 1..Len(s) - d : u[i] = s[d + i]
  OBVIOUS
<1> HIDE DEF u
<1>2. /\ t \in Seq(S) /\ Len(t) = Len(s) - d + 1
      /\ \A i \in 1..Len(s) - d : t[i] = u[i]
      /\ t[Len(s) - d + 1] = r
  BY <1>1
<1> HIDE DEF t
<1>3. t = [i \in 1..Len(s) - d + 1 |-> t[i]]
  BY <1>2, AsAFunction
<1>4. \A i \in 1..Len(s) - d : t[i] = s[d + i]
  BY <1>1, <1>2
<1> QED  BY <1>2, <1>3, <1>4 DEF t, u

(* A push adds the record behind the newest, with d gone from the front.   *)
LEMMA PushAdds ==
  ASSUME IndInv, TypeOK', NEW record \in Record, NEW d \in 0..used, Pushed(record, d)
  PROVE  Records' = Append(SubSeq(Records, d + 1, Len(Records)), record)
<1> USE TraceAssumption
<1>1. /\ used \in 0..Capacity /\ first \in Slot /\ next \in Slot /\ used' \in 0..Capacity
      /\ first' = (first + d) % Capacity /\ used' = used - d + 1
      /\ next = (first + used) % Capacity
      /\ slots' = [slots EXCEPT ![next] = record]
      /\ slots \in [Slot -> Record \cup {NeverWritten}]
      /\ d \in 0..Capacity
  BY DEF IndInv, TypeOK, RingInv, Pushed
<1>2. /\ Records \in Seq(Record \cup {NeverWritten}) /\ Len(Records) = used
      /\ \A i \in 1..used : Records[i] = RecordAt(i)
  BY ReadOff DEF IndInv
<1>3. /\ Records' = [i \in 1..used' |-> RecordAt(i)']
  BY DEF Records, ReadBy, Header, RecordAt
<1> DEFINE after == Append(SubSeq(Records, d + 1, Len(Records)), record)
<1>4. /\ after = [i \in 1..used' |-> after[i]]
      /\ \A i \in 1..used - d : after[i] = Records[d + i]
      /\ after[used - d + 1] = record
  <2>1. /\ after = [i \in 1..Len(Records) - d + 1 |-> after[i]]
        /\ \A i \in 1..Len(Records) - d : after[i] = Records[d + i]
        /\ after[Len(Records) - d + 1] = record
    <3>1. d \in 0..Len(Records) /\ record \in Record \cup {NeverWritten}
      BY <1>2
    <3> QED  BY <1>2, <3>1, Added
  <2> HIDE DEF after
  <2> QED  BY <1>1, <1>2, <2>1
<1>5. \A i \in 1..used' : RecordAt(i)' = after[i]
  <2> SUFFICES ASSUME NEW i \in 1..used' PROVE RecordAt(i)' = after[i]
    OBVIOUS
  <2>1. d + (i - 1) \in 0..Capacity /\ i - 1 \in 0..Capacity - d
    BY <1>1 DEF Pushed
  <2>2. (first' + (i - 1)) % Capacity = (first + (d + (i - 1))) % Capacity
    BY <1>1, <2>1, Further
  <2>3. RecordAt(i)' = slots'[(first + (d + (i - 1))) % Capacity]
    BY <1>1, <2>1, <2>2 DEF RecordAt, Slot, Pushed
  <2>4. CASE i = used - d + 1
    <3>1. d + (i - 1) = used
      BY <1>1, <2>4
    <3> QED  BY <1>1, <1>4, <2>3, <2>4, <3>1
  <2>5. CASE i # used - d + 1
    <3>1. i \in 1..used - d /\ d + i \in 1..used /\ d + (i - 1) \in 0..used - 1
      BY <1>1, <2>5
    <3>2. (first + (d + (i - 1))) % Capacity # next
      <4>1. CASE used < Capacity
        <5>1. PICK p \in 0..Capacity - 1, q \in 0..Capacity - 1 : p = d + (i - 1) /\ q = used
          BY <1>1, <3>1, <4>1
        <5>2. p # q
          BY <1>1, <3>1, <5>1
        <5>3. (first + p) % Capacity # (first + q) % Capacity
          BY <1>1, <5>2, Apart
        <5> QED  BY <1>1, <5>1, <5>3
      <4>2. CASE used = Capacity
        <5>1. d >= 1 /\ d + (i - 1) \in 1..Capacity - 1 /\ 0 \in 0..Capacity - 1
          BY <1>1, <3>1, <4>2 DEF Pushed
        <5>2. (first + Capacity) % Capacity
                = IF first + Capacity < Capacity THEN first + Capacity
                  ELSE first + Capacity - Capacity
          BY <1>1, <4>2, Wraps
        <5>3. 0 \in 0..Capacity
          OBVIOUS
        <5>4. (first + 0) % Capacity
                = IF first + 0 < Capacity THEN first + 0 ELSE first + 0 - Capacity
          BY <1>1, <5>3, Wraps
        <5>5. next = (first + 0) % Capacity
          BY <1>1, <4>2, <5>2, <5>4 DEF Slot
        <5>6. /\ d + (i - 1) \in 0..Capacity - 1 /\ d + (i - 1) # 0
          BY <5>1
        <5> QED  BY <5>1, <5>5, <5>6, <1>1, Apart
      <4> QED  BY <1>1, <4>1, <4>2
    <3>3. (first + (d + (i - 1))) % Capacity \in Slot
      BY <1>1, <2>1, Wraps
    <3>4. RecordAt(i)' = slots[(first + (d + (i - 1))) % Capacity]
      BY <1>1, <2>3, <3>2, <3>3
    <3>5. Records[d + i] = RecordAt(d + i) /\ first + (d + i) - 1 = first + (d + (i - 1))
      BY <1>1, <1>2, <3>1 DEF Slot
    <3> QED  BY <1>4, <3>1, <3>4, <3>5 DEF RecordAt
  <2> QED  BY <2>4, <2>5
<1>6. Records' = [i \in 1..used' |-> after[i]]
  BY <1>3, <1>5
<1> QED  BY <1>4, <1>6

LEMMA PushIsAdd ==
  ASSUME IndInv, TypeOK', NEW record \in Record, Push(record), UNCHANGED <<sent, handed>>
  PROVE  Promised!Add
<1>1. PICK d \in 0..used : Pushed(record, d)
  BY Pushes DEF IndInv
<1>2. /\ Records' = Append(SubSeq(Records, d + 1, Len(Records)), record)
      /\ Len(Records) = used
  BY <1>1, PushAdds, ReadOff DEF IndInv
<1>3. d = 0 <=> used < Capacity
  BY <1>1 DEF Pushed
<1>4. evicted' = evicted + d
  BY <1>1 DEF Pushed
<1> QED  BY <1>2, <1>3, <1>4 DEF Promised!Add

LEMMA HandOverIsHandOver ==
  ASSUME IndInv, HandOverARecord
  PROVE  Promised!HandOver
<1> USE TraceAssumption
<1>1. /\ Len(Records) = used
      /\ \A i \in 1..used : Records[i] = RecordAt(i)
      /\ Records' = Records
  BY ReadOff DEF IndInv, HandOverARecord, ring, Records, ReadBy, Header
<1>2. /\ used \in Nat /\ evicted \in Nat /\ sent \in Nat /\ first \in Nat
      /\ used = 0 => evicted = 0
      /\ sent < evicted + used
  BY DEF IndInv, TypeOK, RingInv, HandOverARecord, Slot
<1>3. /\ OldestUnsent - evicted + 1 \in 1..used
      /\ first + (OldestUnsent - evicted + 1) - 1 = first + (OldestUnsent - evicted)
  BY <1>2 DEF OldestUnsent
<1>4. Records[OldestUnsent - evicted + 1] = slots[(first + (OldestUnsent - evicted)) % Capacity]
  BY <1>1, <1>3 DEF RecordAt
<1>5. /\ handed' = <<OldestUnsent, Records[OldestUnsent - evicted + 1]>>
      /\ sent' = OldestUnsent + 1
      /\ evicted' = evicted
  BY <1>4 DEF HandOverARecord, ring
<1>6. OldestUnsent = IF sent < evicted THEN evicted ELSE sent
  BY DEF OldestUnsent
<1> QED  BY <1>1, <1>2, <1>5, <1>6 DEF Promised!HandOver

LEMMA SameRing ==
  ASSUME UNCHANGED <<ring, sent, handed>>
  PROVE  UNCHANGED <<Records, evicted, sent, handed>>
  BY DEF ring, Records, ReadBy, Header

LEMMA StepIsPromised ==
  ASSUME IndInv, IndInv', [Next]_vars
  PROVE  [Promised!Next]_<<Records, evicted, sent, handed>>
<1>0. TypeOK'
  BY DEF IndInv
<1>1. CASE WriteHeader
  BY <1>1, SameRing DEF WriteHeader
<1>2. CASE PushNext
  <2>1. Head(pending) \in OfTheRun
    BY <1>2 DEF IndInv, RunInv, PushNext
  <2>2. Head(pending) \in Record
    BY <2>1, OfTheRunIsRecorded
  <2>3. Push(Head(pending)) /\ UNCHANGED <<sent, handed>>
    BY <1>2 DEF PushNext
  <2> QED  BY <1>0, <2>2, <2>3, PushIsAdd DEF Promised!Next
<1>3. CASE HandOverARecord
  BY <1>3, HandOverIsHandOver DEF Promised!Next
<1>4. CASE \E e \in Events, late \in BOOLEAN : HandleTraced(e, late)
  BY <1>4, SameRing DEF HandleTraced
<1>5. CASE \E record \in Recorded : RecordForReading(record)
  <2>1. PICK record \in Recorded : Push(record) /\ UNCHANGED <<sent, handed>>
    BY <1>5 DEF RecordForReading
  <2> QED  BY <1>0, <2>1, RecordedIsRecorded, PushIsAdd DEF Promised!Next
<1>6. CASE \E record \in SourceRecord : SourceRecords(record)
  <2>1. PICK record \in SourceRecord : Push(record) /\ UNCHANGED <<sent, handed>>
    BY <1>6 DEF SourceRecords
  <2> QED  BY <1>0, <2>1, SourceRecordIsRecorded, PushIsAdd DEF Promised!Next
<1>7. CASE UNCHANGED vars
  BY <1>7, SameRing DEF vars
<1> QED  BY <1>1, <1>2, <1>3, <1>4, <1>5, <1>6, <1>7 DEF Next

(* However small the region and whatever is recorded in it, by either      *)
(* machine, and whenever the link asks: the ring is the recording of       *)
(* ADR-0009.  It holds the newest records in their order, loses some from  *)
(* the front only for want of room and at least one then, and hands each   *)
(* over once, none that has gone.                                          *)
THEOREM RingIsARecording == Spec => IsARecording
<1>1. Init => Promised!Init
  <2> SUFFICES ASSUME Init PROVE Promised!Init
    OBVIOUS
  <2>1. TypeOK
    BY Start DEF IndInv
  <2>2. Records = [i \in 1..0 |-> RecordAt(i)]
    BY <2>1, ReadOff DEF Init
  <2>3. Records = <<>>
    BY <2>2
  <2> QED  BY <2>3 DEF Init, Promised!Init
<1>2. IndInv /\ IndInv' /\ [Next]_vars => [Promised!Next]_<<Records, evicted, sent, handed>>
  BY StepIsPromised
<1> QED  BY <1>1, <1>2, Start, Step, PTL DEF Spec, IsARecording, Promised!Spec

-----------------------------------------------------------------------------
(* What a copy is missing.                                                 *)

LEMMA CopyIs ==
  ASSUME TypeOK
  PROVE  /\ Len(ReadBy(header)) = header.used
         /\ \A i \in 1..header.used :
              ReadBy(header)[i] = slots[(header.first + i - 1) % Capacity]
         /\ ReadBy(header) \in Seq(Record \cup {NeverWritten})
<1>1. header.used \in Nat /\ header.used \in 0..Capacity /\ header.first \in Slot
  BY TraceAssumption DEF TypeOK
<1>2. \A i \in 1..header.used :
        slots[(header.first + i - 1) % Capacity] \in Record \cup {NeverWritten}
  <2> SUFFICES ASSUME NEW i \in 1..header.used
               PROVE  slots[(header.first + i - 1) % Capacity] \in Record \cup {NeverWritten}
    OBVIOUS
  <2>1. i - 1 \in 0..Capacity /\ header.first + i - 1 = header.first + (i - 1)
    BY <1>1, TraceAssumption DEF Slot
  <2>2. (header.first + i - 1) % Capacity \in Slot
    BY <1>1, <2>1, Wraps
  <2> QED  BY <2>2 DEF TypeOK
<1>3. ReadBy(header) = [i \in 1..header.used |-> slots[(header.first + i - 1) % Capacity]]
  BY DEF ReadBy
<1> QED  BY <1>1, <1>2, <1>3

LEMMA EndsWith ==
  ASSUME NEW S, NEW s \in Seq(S), NEW t \in Seq(S), Len(s) <= Len(t),
         \A i \in 1..Len(s) : s[i] = t[Len(t) - Len(s) + i]
  PROVE  SubSeq(t, Len(t) - Len(s) + 1, Len(t)) = s
<1> DEFINE u == SubSeq(t, Len(t) - Len(s) + 1, Len(t))
<1>1. /\ u \in Seq(S) /\ Len(u) = Len(s)
      /\ \A i \in 1..Len(s) : u[i] = t[Len(t) - Len(s) + i]
  OBVIOUS
<1> HIDE DEF u
<1>2. u = [i \in 1..Len(s) |-> u[i]] /\ s = [i \in 1..Len(s) |-> s[i]]
  BY <1>1, AsAFunction
<1>3. u = s
  BY <1>1, <1>2
<1> QED  BY <1>3 DEF u

LEMMA AllButTheLast ==
  ASSUME NEW S, NEW s \in Seq(S), s # <<>>
  PROVE  /\ Front(s) \in Seq(S) /\ Len(Front(s)) = Len(s) - 1
         /\ \A i \in 1..Len(s) - 1 : Front(s)[i] = s[i]
<1>0. Len(s) \in Nat /\ Len(s) # 0
  OBVIOUS
<1> DEFINE n == Len(s) - 1
<1>1. n \in Nat /\ n \in 0..Len(s)
  BY <1>0
<1>2. SubSeq(s, 1, n) = [i \in 1..n |-> s[i]]
  BY <1>1
<1>3. Front(s) = [i \in 1..n |-> s[i]]
  BY <1>1, <1>2 DEF Front
<1>4. \A i \in 1..n : s[i] \in S
  BY <1>1
<1> QED  BY <1>0, <1>1, <1>3, <1>4

LEMMA CopyOfTheRest ==
  ASSUME IndInv
  PROVE  CopyMissesTheNewest
<1> DEFINE copy == ReadBy(header)
           either == Record \cup {NeverWritten}
<1>1. /\ copy \in Seq(either) /\ Len(copy) = header.used
      /\ \A i \in 1..header.used : copy[i] = slots[(header.first + i - 1) % Capacity]
  BY CopyIs DEF IndInv
<1>2. /\ Records \in Seq(either) /\ Len(Records) = used
      /\ \A i \in 1..used : Records[i] = slots[(first + i - 1) % Capacity]
  BY ReadOff DEF IndInv, RecordAt
<1>3. CASE written = "All"
  <2>1. header = Says /\ Known = Records
    BY <1>3 DEF IndInv, HeaderInv, Known
  <2>2. copy = Records
    BY <2>1 DEF Records, Says
  <2>3. SubSeq(copy, Len(copy) - Len(Known) + 1, Len(copy)) = Known
    BY <1>2, <2>1, <2>2, EndsWith
  <2> QED  BY <1>2, <2>1, <2>2, <2>3 DEF CopyMissesTheNewest
<1>4. CASE written # "All"
  <2>1. PICK d \in 0..Capacity : Behind(d)
    BY <1>4 DEF IndInv, HeaderInv
  <2>2. /\ header.used \in 0..Capacity /\ header.first \in Slot
        /\ d \in 0..header.used /\ used = header.used - d + 1
        /\ first = (header.first + d) % Capacity
    BY <2>1 DEF IndInv, TypeOK, Behind
  <2>3. Known = Front(Records)
    BY <1>4 DEF Known
  <2>4. /\ Known \in Seq(either) /\ Len(Known) = header.used - d
        /\ \A i \in 1..header.used - d : Known[i] = Records[i]
    <3>1. Records # <<>> /\ used - 1 = header.used - d
      BY <1>2, <2>2, TraceAssumption
    <3> HIDE DEF either
    <3> QED  BY <1>2, <2>3, <3>1, AllButTheLast
  <2>5. \A i \in 1..header.used - d : Known[i] = copy[d + i]
    <3> SUFFICES ASSUME NEW i \in 1..header.used - d PROVE Known[i] = copy[d + i]
      OBVIOUS
    <3>1. /\ i \in 1..used /\ d + i \in 1..header.used
          /\ d \in 0..Capacity /\ i - 1 \in 0..Capacity - d
      BY <2>2, TraceAssumption
    <3>2. (first + (i - 1)) % Capacity = (header.first + (d + (i - 1))) % Capacity
      BY <2>2, <3>1, Further
    <3>3. /\ first + i - 1 = first + (i - 1)
          /\ header.first + (d + i) - 1 = header.first + (d + (i - 1))
      BY <2>2, <3>1 DEF IndInv, TypeOK, Slot
    <3>4. Known[i] = Records[i]
      BY <2>4
    <3>5. Records[i] = slots[(first + (i - 1)) % Capacity]
      BY <1>2, <3>1, <3>3
    <3>6. copy[d + i] = slots[(header.first + (d + (i - 1))) % Capacity]
      BY <1>1, <3>1, <3>3
    <3> QED  BY <3>2, <3>4, <3>5, <3>6
  <2>6. Len(Known) <= Len(copy) /\ Len(copy) - Len(Known) = d
    BY <1>1, <2>2, <2>4, TraceAssumption
  <2>7. \A i \in 1..Len(Known) : Known[i] = copy[Len(copy) - Len(Known) + i]
    BY <2>4, <2>5, <2>6
  <2>8. SubSeq(copy, Len(copy) - Len(Known) + 1, Len(copy)) = Known
    <3> HIDE DEF copy, either
    <3> QED  BY <1>1, <2>4, <2>6, <2>7, EndsWith
  <2> QED  BY <2>6, <2>8 DEF CopyMissesTheNewest
<1> QED  BY <1>3, <1>4

(* Whenever the supervisor copies the region, between any two writes to    *)
(* it, the copy ends with every record the recording holds but the newest. *)
THEOREM CopiesMissTheNewest == Spec => []CopyMissesTheNewest
<1>1. IndInv => CopyMissesTheNewest
  BY CopyOfTheRest
<1> QED  BY <1>1, Start, Step, PTL DEF Spec

-----------------------------------------------------------------------------
(* Reading on, a record at a time.                                         *)

(* Counting up, over a set of the numbers got to.                          *)
LEMMA UpTo ==
  ASSUME NEW m \in Nat, NEW n \in Nat, NEW P \in SUBSET (m..n), m \in P,
         \A i \in m + 1..n : i - 1 \in P => i \in P
  PROVE  \A i \in m..n : i \in P
<1> SUFFICES ASSUME NEW i \in m..n, i \notin P PROVE FALSE
  OBVIOUS
<1> DEFINE missing == {j \in Nat : j \in m..n /\ j \notin P}
<1>1. missing \in SUBSET Nat /\ missing # {}
  OBVIOUS
<1>2. PICK j \in missing : \A k \in missing : j <= k
  BY <1>1, Least
<1>3. j # m /\ j \in m..n /\ j \notin P
  BY <1>2
<1>4. j \in m + 1..n /\ j - 1 \in m..n /\ j - 1 \in Nat /\ ~(j <= j - 1)
  BY <1>3
<1>5. j - 1 \in P
  BY <1>2, <1>4
<1> QED  BY <1>3, <1>4, <1>5

Walks(s, b, f) ==
  /\ f = [n \in b..Len(s) |-> f[n]]
  /\ f[b] = AtBegin
  /\ \A n \in b + 1..Len(s) : f[n] = ReadOn(f[n - 1], s[n])
Reaches(s, b, v) == \E f : Walks(s, b, f) /\ f[Len(s)] = v

LEMMA ReplayIs ==
  ASSUME NEW S, NEW s \in Seq(S), NEW b \in 1..Len(s), NEW v, Reaches(s, b, v)
  PROVE  ReplayFrom(s, b) = v.state
<1> DEFINE Rec(g) ==
             g = [n \in b..Len(s) |-> IF n = b THEN AtBegin ELSE ReadOn(g[n - 1], s[n])]
<1>1. PICK f : Walks(s, b, f) /\ f[Len(s)] = v
  BY DEF Reaches
<1>2. Rec(f)
  <2>1. \A n \in b..Len(s) : n = b \/ n \in b + 1..Len(s)
    OBVIOUS
  <2>2. \A n \in b..Len(s) : f[n] = IF n = b THEN AtBegin ELSE ReadOn(f[n - 1], s[n])
    BY <1>1, <2>1 DEF Walks
  <2> QED  BY <1>1, <2>2 DEF Walks
<1>3. PICK g : g = CHOOSE h : Rec(h)
  OBVIOUS
<1>4. Rec(g)
  <2> HIDE DEF Rec
  <2> QED  BY <1>2, <1>3
<1>5. ReplayFrom(s, b) = g[Len(s)].state
  BY <1>3 DEF ReplayFrom
<1>6. \A n \in b..Len(s) : n \in {m \in b..Len(s) : g[m] = f[m]}
  <2> DEFINE P == {m \in b..Len(s) : g[m] = f[m]}
  <2>1. b \in P
    BY <1>1, <1>4 DEF Walks
  <2>2. \A n \in b + 1..Len(s) : n - 1 \in P => n \in P
    <3> SUFFICES ASSUME NEW n \in b + 1..Len(s), n - 1 \in P PROVE n \in P
      OBVIOUS
    <3>1. n \in b..Len(s) /\ n # b /\ g[n - 1] = f[n - 1]
      OBVIOUS
    <3>2. g[n] = ReadOn(g[n - 1], s[n])
      BY <1>4, <3>1
    <3>3. f[n] = ReadOn(f[n - 1], s[n])
      BY <1>1 DEF Walks
    <3> QED  BY <3>1, <3>2, <3>3
  <2>3. P \in SUBSET (b..Len(s)) /\ b \in Nat /\ Len(s) \in Nat
    OBVIOUS
  <2> HIDE DEF P
  <2>4. \A n \in b..Len(s) : n \in P
    BY <2>1, <2>2, <2>3, UpTo
  <2> QED  BY <2>4 DEF P
<1> QED  BY <1>1, <1>5, <1>6

LEMMA ReachesOn ==
  ASSUME NEW S, NEW s \in Seq(S), NEW r \in S, NEW d \in 0..Len(s), NEW b \in d + 1..Len(s),
         NEW v, Reaches(s, b, v)
  PROVE  Reaches(Append(SubSeq(s, d + 1, Len(s)), r), b - d, ReadOn(v, r))
<1> DEFINE t == Append(SubSeq(s, d + 1, Len(s)), r)
           top == Len(s) - d
<1>1. PICK f : Walks(s, b, f) /\ f[Len(s)] = v
  BY DEF Reaches
<1>2. /\ Len(t) = top + 1
      /\ \A i \in 1..top : t[i] = s[d + i]
      /\ t[top + 1] = r
  <2>1. Len(t) = top + 1
    OBVIOUS
  <2>2. \A i \in 1..Len(s) - d : t[i] = s[d + i]
    BY Added
  <2>3. t[Len(s) - d + 1] = r
    BY Added
  <2> HIDE DEF t
  <2> QED  BY <2>1, <2>2, <2>3
<1> HIDE DEF t
<1> DEFINE g == [n \in b - d..top + 1 |-> IF n = top + 1 THEN ReadOn(v, r) ELSE f[n + d]]
<1>3. g[b - d] = AtBegin
  <2>1. b - d \in b - d..top + 1 /\ b - d # top + 1 /\ (b - d) + d = b
    OBVIOUS
  <2> QED  BY <1>1, <2>1 DEF Walks
<1>4. \A n \in (b - d) + 1..top + 1 : g[n] = ReadOn(g[n - 1], t[n])
  <2> SUFFICES ASSUME NEW n \in (b - d) + 1..top + 1 PROVE g[n] = ReadOn(g[n - 1], t[n])
    OBVIOUS
  <2>1. /\ n \in b - d..top + 1 /\ n - 1 \in b - d..top + 1 /\ n - 1 # top + 1
        /\ g[n - 1] = f[(n - 1) + d]
    OBVIOUS
  <2>2. CASE n = top + 1
    <3>1. (n - 1) + d = Len(s)
      BY <2>2
    <3> QED  BY <1>1, <1>2, <2>1, <2>2, <3>1
  <2>3. CASE n # top + 1
    <3>1. n + d \in b + 1..Len(s) /\ n \in 1..top /\ d + n = n + d /\ (n - 1) + d = (n + d) - 1
      BY <2>3
    <3>2. f[n + d] = ReadOn(f[(n + d) - 1], s[n + d])
      BY <1>1, <3>1 DEF Walks
    <3>3. g[n] = f[n + d] /\ t[n] = s[n + d]
      BY <1>2, <2>1, <2>3, <3>1
    <3> QED  BY <2>1, <3>1, <3>2, <3>3
  <2> QED  BY <2>2, <2>3
<1>5. g[top + 1] = ReadOn(v, r)
  OBVIOUS
<1>6. g = [n \in b - d..top + 1 |-> g[n]]
  OBVIOUS
<1> HIDE DEF g
<1>7. Walks(t, b - d, g) /\ g[Len(t)] = ReadOn(v, r)
  BY <1>2, <1>3, <1>4, <1>5, <1>6 DEF Walks
<1> QED  BY <1>7 DEF Reaches, t

LEMMA ReachesNew ==
  ASSUME NEW S, NEW s \in Seq(S), Len(s) # 0
  PROVE  Reaches(s, Len(s), AtBegin)
<1> DEFINE f == [n \in Len(s)..Len(s) |-> AtBegin]
<1>1. Walks(s, Len(s), f) /\ f[Len(s)] = AtBegin
  <2>1. f = [n \in Len(s)..Len(s) |-> f[n]] /\ f[Len(s)] = AtBegin
    OBVIOUS
  <2>2. \A n \in Len(s) + 1..Len(s) : FALSE
    OBVIOUS
  <2> HIDE DEF f
  <2> QED  BY <2>1, <2>2 DEF Walks
<1> HIDE DEF f
<1> QED  BY <1>1 DEF Reaches

-----------------------------------------------------------------------------
(* What a sequence of records holds.                                       *)

Holds(s, r) == \E i \in 1..Len(s) : s[i] = r

LEMMA HoldsTail ==
  ASSUME NEW S, NEW s \in Seq(S), s # <<>>, NEW r
  PROVE  Holds(s, r) <=> r = Head(s) \/ Holds(Tail(s), r)
<1>1. /\ Len(Tail(s)) = Len(s) - 1 /\ Head(s) = s[1] /\ Len(s) \in Nat \ {0}
      /\ \A i \in 1..Len(s) - 1 : Tail(s)[i] = s[i + 1]
  OBVIOUS
<1>2. ASSUME NEW i \in 1..Len(s), s[i] = r PROVE r = Head(s) \/ Holds(Tail(s), r)
  <2>1. i = 1 \/ i - 1 \in 1..Len(Tail(s))
    BY <1>1
  <2>2. i # 1 => Tail(s)[i - 1] = s[i]
    BY <1>1
  <2> QED  BY <1>1, <1>2, <2>1, <2>2 DEF Holds
<1>3. r = Head(s) => Holds(s, r)
  <2>1. 1 \in 1..Len(s)
    BY <1>1
  <2> QED  BY <1>1, <2>1 DEF Holds
<1>4. ASSUME NEW i \in 1..Len(Tail(s)), Tail(s)[i] = r PROVE Holds(s, r)
  <2>1. i + 1 \in 1..Len(s) /\ s[i + 1] = r
    BY <1>1, <1>4
  <2> QED  BY <2>1 DEF Holds
<1> QED  BY <1>2, <1>3, <1>4 DEF Holds

LEMMA HoldsBoth ==
  ASSUME NEW S, NEW s \in Seq(S), NEW t \in Seq(S), NEW r
  PROVE  Holds(s \o t, r) <=> Holds(s, r) \/ Holds(t, r)
<1>1. /\ Len(s \o t) = Len(s) + Len(t) /\ Len(s) \in Nat /\ Len(t) \in Nat
      /\ \A i \in 1..Len(s) : (s \o t)[i] = s[i]
      /\ \A i \in 1..Len(t) : (s \o t)[Len(s) + i] = t[i]
  OBVIOUS
<1>2. ASSUME NEW i \in 1..Len(s \o t), (s \o t)[i] = r PROVE Holds(s, r) \/ Holds(t, r)
  <2>1. CASE i <= Len(s)
    <3>1. i \in 1..Len(s)
      BY <2>1
    <3> QED  BY <1>1, <1>2, <3>1 DEF Holds
  <2>2. CASE i > Len(s)
    <3>1. i - Len(s) \in 1..Len(t) /\ Len(s) + (i - Len(s)) = i
      BY <1>1, <2>2
    <3>2. t[i - Len(s)] = r
      BY <1>1, <1>2, <3>1
    <3> QED  BY <3>1, <3>2 DEF Holds
  <2> QED  BY <1>1, <2>1, <2>2
<1>3. ASSUME NEW i \in 1..Len(s), s[i] = r PROVE Holds(s \o t, r)
  <2>1. i \in 1..Len(s \o t)
    BY <1>1
  <2> QED  BY <1>1, <1>3, <2>1 DEF Holds
<1>4. ASSUME NEW i \in 1..Len(t), t[i] = r PROVE Holds(s \o t, r)
  <2>1. Len(s) + i \in 1..Len(s \o t)
    BY <1>1
  <2> QED  BY <1>1, <1>4, <2>1 DEF Holds
<1> QED  BY <1>2, <1>3, <1>4 DEF Holds

(* A sequence made of a set holds each member once.                        *)
LEMMA HoldsTheSet ==
  ASSUME NEW S, IsFiniteSet(S)
  PROVE  /\ SetToSeq(S) \in Seq(S) /\ Len(SetToSeq(S)) = Cardinality(S)
         /\ \A r : Holds(SetToSeq(S), r) <=> r \in S
<1> DEFINE n == Cardinality(S)
           s == SetToSeq(S)
<1>1. n \in Nat /\ ExistsBijection(1..n, S)
  BY FS_CardinalityType
<1>2. PICK f \in Bijection(1..n, S) : TRUE
  BY <1>1 DEF ExistsBijection
<1>3. f \in [1..n -> S] /\ IsInjective(f)
  BY <1>2 DEF Bijection, Injection
<1>4. s \in [1..n -> S] /\ IsInjective(s)
  BY <1>3 DEF SetToSeq
<1>5. s \in Seq(S) /\ Len(s) = n
  BY <1>1, <1>4
<1>6. IsFiniteSet(1..n) /\ Cardinality(1..n) = n
  <2>1. n >= 1 \/ n = 0
    BY <1>1
  <2> HIDE DEF n
  <2> QED  BY <1>1, <2>1, FS_Interval
<1>7. s \in Surjection(1..n, S)
  <2>1. s \in Injection(1..n, S)
    BY <1>4 DEF Injection
  <2> HIDE DEF s
  <2> QED  BY <1>6, <2>1, FS_Injection
<1>8. \A r \in S : \E i \in 1..n : s[i] = r
  <2> HIDE DEF s, n
  <2> QED  BY <1>7 DEF Surjection
<1>9. \A i \in 1..n : s[i] \in S
  BY <1>4
<1> HIDE DEF s, n
<1>10. \A r : Holds(s, r) <=> r \in S
  BY <1>5, <1>8, <1>9 DEF Holds
<1> QED  BY <1>5, <1>10 DEF s, n

LEMMA Kinds ==
  /\ CheckpointBegin.kind = "CheckpointBegin"
  /\ \A d : CheckpointDevice(d).kind = "CheckpointDevice" /\ CheckpointDevice(d).device = d
  /\ \A h : CheckpointHeld(h).kind = "CheckpointHeld" /\ CheckpointHeld(h).held = h
  /\ \A e : Event(e).kind = "Event" /\ Event(e).event = e
  /\ \A e : Injected(e).kind = "Injected"
  /\ \A k : ForReading(k).kind = k
  /\ \A r : FromTheSource(r).kind = "FromTheSource"
  BY DEF CheckpointBegin, CheckpointDevice, CheckpointHeld, Event, Injected, ForReading,
         FromTheSource

LEMMA OneEach ==
  /\ IsFiniteSet(devices) =>
       /\ IsFiniteSet({CheckpointDevice(d) : d \in devices})
       /\ Cardinality({CheckpointDevice(d) : d \in devices}) = Cardinality(devices)
  /\ IsFiniteSet(held) =>
       /\ IsFiniteSet({CheckpointHeld(h) : h \in held})
       /\ Cardinality({CheckpointHeld(h) : h \in held}) = Cardinality(held)
<1>1. ASSUME IsFiniteSet(devices)
      PROVE  /\ IsFiniteSet({CheckpointDevice(d) : d \in devices})
             /\ Cardinality({CheckpointDevice(d) : d \in devices}) = Cardinality(devices)
  <2> DEFINE T == {CheckpointDevice(d) : d \in devices}
             f == [d \in devices |-> CheckpointDevice(d)]
  <2>1. f \in Surjection(devices, T)
    BY DEF Surjection
  <2>2. \A x \in devices, y \in devices : f[x] = f[y] => x = y
    BY Kinds
  <2>3. f \in Injection(devices, T)
    BY <2>2 DEF Injection, IsInjective
  <2> HIDE DEF f, T
  <2>4. IsFiniteSet(T) /\ Cardinality(T) = Cardinality(devices)
    BY <1>1, <2>1, <2>3, FS_Surjection
  <2> QED  BY <2>4 DEF T
<1>2. ASSUME IsFiniteSet(held)
      PROVE  /\ IsFiniteSet({CheckpointHeld(h) : h \in held})
             /\ Cardinality({CheckpointHeld(h) : h \in held}) = Cardinality(held)
  <2> DEFINE T == {CheckpointHeld(h) : h \in held}
             f == [h \in held |-> CheckpointHeld(h)]
  <2>1. f \in Surjection(held, T)
    BY DEF Surjection
  <2>2. \A x \in held, y \in held : f[x] = f[y] => x = y
    BY Kinds
  <2>3. f \in Injection(held, T)
    BY <2>2 DEF Injection, IsInjective
  <2> HIDE DEF f, T
  <2>4. IsFiniteSet(T) /\ Cardinality(T) = Cardinality(held)
    BY <1>2, <2>1, <2>3, FS_Surjection
  <2> QED  BY <2>4 DEF T
<1> QED  BY <1>1, <1>2

LEMMA InBoth ==
  ASSUME NEW S, NEW s \in Seq(S), NEW t \in Seq(S)
  PROVE  /\ Len(s \o t) = Len(s) + Len(t) /\ Len(s) \in Nat /\ Len(t) \in Nat
         /\ \A i \in 1..Len(s) : (s \o t)[i] = s[i]
         /\ \A i \in Len(s) + 1..Len(s) + Len(t) :
              i - Len(s) \in 1..Len(t) /\ (s \o t)[i] = t[i - Len(s)]
<1>1. /\ Len(s \o t) = Len(s) + Len(t) /\ Len(s) \in Nat /\ Len(t) \in Nat
      /\ \A i \in 1..Len(s) : (s \o t)[i] = s[i]
  OBVIOUS
<1>2. ASSUME NEW i \in Len(s) + 1..Len(s) + Len(t)
      PROVE  i - Len(s) \in 1..Len(t) /\ (s \o t)[i] = t[i - Len(s)]
  OBVIOUS
<1> QED  BY <1>1, <1>2

(* A checkpoint: where it begins, and each device and held key once.       *)
LEMMA OfACheckpoint ==
  ASSUME devices \subseteq Keyboards, held \subseteq Held,
         IsFiniteSet(devices), IsFiniteSet(held)
  PROVE  /\ CheckpointRecords \in Seq(OfTheRun)
         /\ Len(CheckpointRecords) = 1 + Cardinality(devices) + Cardinality(held)
         /\ CheckpointRecords[1] = CheckpointBegin
         /\ \A i \in 1..Len(CheckpointRecords) : InACheckpoint(CheckpointRecords[i])
         /\ \A i \in 2..Len(CheckpointRecords) : CheckpointRecords[i] # CheckpointBegin
         /\ \A d : Holds(CheckpointRecords, CheckpointDevice(d)) <=> d \in devices
         /\ \A h : Holds(CheckpointRecords, CheckpointHeld(h)) <=> h \in held
<1> DEFINE D == {CheckpointDevice(d) : d \in devices}
           H == {CheckpointHeld(h) : h \in held}
<1>1. PICK s, t, u : s = SetToSeq(D) /\ t = SetToSeq(H) /\ u = <<CheckpointBegin>>
  OBVIOUS
<1>2. /\ s \in Seq(D) /\ Len(s) = Cardinality(devices)
      /\ \A r : Holds(s, r) <=> r \in D
  <2>1. IsFiniteSet(D) /\ Cardinality(D) = Cardinality(devices)
    BY OneEach
  <2> HIDE DEF D
  <2> QED  BY <1>1, <2>1, HoldsTheSet
<1>3. /\ t \in Seq(H) /\ Len(t) = Cardinality(held)
      /\ \A r : Holds(t, r) <=> r \in H
  <2>1. IsFiniteSet(H) /\ Cardinality(H) = Cardinality(held)
    BY OneEach
  <2> HIDE DEF H
  <2> QED  BY <1>1, <2>1, HoldsTheSet
<1>4. u \in Seq(OfTheRun) /\ Len(u) = 1 /\ u[1] = CheckpointBegin
  BY <1>1 DEF OfTheRun
<1>5. D \subseteq OfTheRun /\ H \subseteq OfTheRun
  BY DEF OfTheRun
<1>6. s \in Seq(OfTheRun) /\ t \in Seq(OfTheRun)
  <2> HIDE DEF D, H
  <2> QED  BY <1>2, <1>3, <1>5, WiderSequence
<1>7. CheckpointRecords = (u \o s) \o t
  BY <1>1 DEF CheckpointRecords
<1>8. /\ \A i \in 1..Len(s) : s[i] \in D
      /\ \A i \in 1..Len(t) : t[i] \in H
  <2> HIDE DEF D, H
  <2> QED  BY <1>2, <1>3
<1>9. \A r \in D \cup H : InACheckpoint(r) /\ r # CheckpointBegin
  BY Kinds DEF InACheckpoint
<1>10. /\ \A d : CheckpointDevice(d) \in D <=> d \in devices
       /\ \A d : CheckpointDevice(d) \notin H /\ CheckpointDevice(d) # CheckpointBegin
       /\ \A h : CheckpointHeld(h) \in H <=> h \in held
       /\ \A h : CheckpointHeld(h) \notin D /\ CheckpointHeld(h) # CheckpointBegin
       /\ InACheckpoint(CheckpointBegin)
  BY Kinds DEF InACheckpoint
<1> HIDE DEF D, H
<1>11. (u \o s) \in Seq(OfTheRun) /\ (u \o s) \o t \in Seq(OfTheRun)
  BY <1>4, <1>6, Joined
<1> DEFINE us == u \o s
<1>us. /\ Len(us) = Len(u) + Len(s) /\ Len(u) \in Nat /\ Len(s) \in Nat
       /\ \A i \in 1..Len(u) : us[i] = u[i]
       /\ \A i \in Len(u) + 1..Len(u) + Len(s) :
            i - Len(u) \in 1..Len(s) /\ us[i] = s[i - Len(u)]
  BY <1>4, <1>6, InBoth
<1>ust. /\ Len(us \o t) = Len(us) + Len(t) /\ Len(us) \in Nat /\ Len(t) \in Nat
        /\ \A i \in 1..Len(us) : (us \o t)[i] = us[i]
        /\ \A i \in Len(us) + 1..Len(us) + Len(t) :
             i - Len(us) \in 1..Len(t) /\ (us \o t)[i] = t[i - Len(us)]
  BY <1>6, <1>11, InBoth
<1>12. Len((u \o s) \o t) = 1 + Cardinality(devices) + Cardinality(held)
  <2> HIDE DEF us
  <2>1. Len(us \o t) = 1 + Cardinality(devices) + Cardinality(held)
    BY <1>2, <1>3, <1>4, <1>us, <1>ust
  <2> QED  BY <2>1 DEF us
<1>13. \A r : Holds((u \o s) \o t, r) <=> r = CheckpointBegin \/ r \in D \/ r \in H
  <2>1. \A r : Holds(u, r) <=> r = CheckpointBegin
    BY <1>4 DEF Holds
  <2>2. \A r : Holds(u \o s, r) <=> Holds(u, r) \/ Holds(s, r)
    BY <1>4, <1>6, HoldsBoth
  <2>3. \A r : Holds((u \o s) \o t, r) <=> Holds(u \o s, r) \/ Holds(t, r)
    BY <1>6, <1>11, HoldsBoth
  <2> QED  BY <1>2, <1>3, <2>1, <2>2, <2>3
<1>14. ((u \o s) \o t)[1] = CheckpointBegin
  <2>1. Len(u \o s) = 1 + Len(s) /\ (u \o s)[1] = u[1] /\ Len(s) \in Nat
    BY <1>4, <1>us
  <2>2. \A i \in 1..Len(u \o s) : ((u \o s) \o t)[i] = (u \o s)[i]
    BY <1>ust
  <2>3. 1 \in 1..Len(u \o s)
    BY <2>1
  <2> QED  BY <1>4, <2>1, <2>2, <2>3
<1>15. \A i \in 2..Len((u \o s) \o t) : ((u \o s) \o t)[i] \in D \cup H
  <2> SUFFICES ASSUME NEW i \in 2..Len((u \o s) \o t) PROVE ((u \o s) \o t)[i] \in D \cup H
    OBVIOUS
  <2>1. /\ Len(u \o s) = 1 + Len(s) /\ Len(s) \in Nat
        /\ \A j \in 2..1 + Len(s) : j - 1 \in 1..Len(s) /\ (u \o s)[j] = s[j - 1]
    <3>1. Len(u) = 1 /\ Len(u) + 1 = 2
      BY <1>4
    <3> QED  BY <1>us, <3>1
  <2>2. /\ Len((u \o s) \o t) = Len(u \o s) + Len(t) /\ Len(t) \in Nat
        /\ \A j \in 1..Len(u \o s) : ((u \o s) \o t)[j] = (u \o s)[j]
        /\ \A j \in Len(u \o s) + 1..Len(u \o s) + Len(t) :
             j - Len(u \o s) \in 1..Len(t) /\ ((u \o s) \o t)[j] = t[j - Len(u \o s)]
    BY <1>ust
  <2>3. CASE i <= Len(u \o s)
    <3>1. i \in 1..Len(u \o s) /\ i \in 2..1 + Len(s)
      BY <2>1, <2>3
    <3>2. ((u \o s) \o t)[i] = s[i - 1] /\ i - 1 \in 1..Len(s)
      BY <2>1, <2>2, <3>1
    <3> QED  BY <1>8, <3>2
  <2>4. CASE i > Len(u \o s)
    <3>1. i \in Len(u \o s) + 1..Len(u \o s) + Len(t)
      BY <2>1, <2>2, <2>4
    <3> QED  BY <1>8, <2>2, <3>1
  <2>5. Len(u \o s) \in Nat
    BY <2>1
  <2> QED  BY <2>3, <2>4, <2>5
<1>16. \A i \in 1..Len((u \o s) \o t) : i = 1 \/ i \in 2..Len((u \o s) \o t)
  OBVIOUS
<1> QED  BY <1>7, <1>9, <1>10, <1>11, <1>12, <1>13, <1>14, <1>15, <1>16

-----------------------------------------------------------------------------
(* Room for a segment, and what it is for.                                 *)

(* A checkpoint is due after this many records, one event more having come *)
(* where it is none.                                                       *)
Share == IF RecordsPerSegment < Capacity \div 4 THEN RecordsPerSegment ELSE Capacity \div 4
Longest == IF Share = 0 THEN 1 ELSE Share
LargestCheckpoint == 1 + Cardinality(Keyboards) + Cardinality(Held)

(* The largest checkpoint there can be and the records that may follow it  *)
(* before the next fit the region: the last event before a checkpoint is   *)
(* due is two records, and Burst more may come before the one that takes   *)
(* it.                                                                     *)
RoomForASegment ==
  /\ IsFiniteSet(Keyboards) /\ IsFiniteSet(Keys)
  /\ LargestCheckpoint + Longest + 1 + Burst <= Capacity

LEMMA Sizes ==
  ASSUME IsFiniteSet(Keyboards), IsFiniteSet(Keys)
  PROVE  /\ Share \in Nat /\ Longest \in Nat \ {0} /\ LargestCheckpoint \in Nat
         /\ Share <= Longest
         /\ IsFiniteSet(Held)
<1>1. Capacity \div 4 \in Nat /\ RecordsPerSegment \in Nat
  BY TraceAssumption
<1>2. Share \in Nat
  BY <1>1 DEF Share
<1>3. Longest \in Nat \ {0} /\ Share <= Longest
  BY <1>2 DEF Longest
<1>4. IsFiniteSet(Held)
  BY FS_Product DEF Held
<1>5. Cardinality(Keyboards) \in Nat /\ Cardinality(Held) \in Nat
  BY <1>4, FS_CardinalityType
<1> QED  BY <1>2, <1>3, <1>4, <1>5 DEF LargestCheckpoint

AboutToBegin == pending # <<>> /\ Head(pending) = CheckpointBegin

(* What is about to be pushed: k records of a checkpoint, then others.     *)
Shape(k) ==
  /\ \A i \in 1..Len(pending) : InACheckpoint(pending[i]) <=> i <= k
  /\ \A i \in 2..Len(pending) : pending[i] # CheckpointBegin

(* From the checkpoint that began last to the end of what is about to be   *)
(* pushed there is no more than a segment.                                 *)
Fits(k) ==
  /\ since + (Len(pending) - k) <= Longest + 1 + quiet
  /\ IF AboutToBegin THEN k <= LargestCheckpoint /\ since = 0
     ELSE \E b \in 1..used : /\ Records[b] = CheckpointBegin
                             /\ (used - b + 1) + k <= LargestCheckpoint + since
SegmentInv == \E k \in 0..Len(pending) : Shape(k) /\ Fits(k)

Headed == IF used = 0 THEN AboutToBegin ELSE Records[1] = CheckpointBegin

(* What the checkpoint being pushed has still to say.                      *)
DevicesToCome == {d \in Keyboards : Holds(pending, CheckpointDevice(d))}
HeldToCome == {h \in Held : Holds(pending, CheckpointHeld(h))}

Reading == [theirs : BOOLEAN, state : [devices : SUBSET Keyboards, held : SUBSET Held]]

(* What a replay has arrived at is where the run is, once a checkpoint it  *)
(* is reading has been pushed to its end.                                  *)
Continues(v) ==
  IF v.theirs /\ ~AboutToBegin
  THEN v.state.devices \cup DevicesToCome = devices /\ v.state.held \cup HeldToCome = held
  ELSE v.state.devices = devices /\ v.state.held = held
ReplayInv ==
  /\ AboutToBegin => DevicesToCome = devices /\ HeldToCome = held
  /\ \A b \in 1..used : Records[b] = CheckpointBegin =>
       \E v \in Reading : Reaches(Records, b, v) /\ Continues(v)

SinkInv == side = "Sink" => SegmentInv /\ Headed /\ ReplayInv

(* What an eviction leaves.                                                *)
Leaves(d) ==
  IF used < Capacity THEN d = 0
  ELSE \/ /\ d + 1 \in 2..used /\ Records[d + 1] = CheckpointBegin
          /\ \A b \in 2..used : Records[b] = CheckpointBegin => d < b
       \/ /\ d = used
          /\ \A b \in 2..used : Records[b] # CheckpointBegin

LEMMA Evicts ==
  ASSUME TypeOK, used = Capacity
  PROVE  Dropped \in 1..used /\ Leaves(Dropped)
<1> DEFINE At(n) == slots[(first + n) % Capacity]
           stops == {n \in 1..used - 1 : At(n) = CheckpointBegin}
<1>1. used \in Nat \ {0} /\ stops \in SUBSET Nat /\ stops \subseteq 1..used - 1 /\ first \in Nat
  BY TraceAssumption DEF TypeOK, Slot
<1>2. \A n \in 1..used - 1 : n + 1 \in 2..used /\ At(n) = Records[n + 1]
  <2> SUFFICES ASSUME NEW n \in 1..used - 1 PROVE n + 1 \in 2..used /\ At(n) = Records[n + 1]
    OBVIOUS
  <2>1. n + 1 \in 2..used /\ n + 1 \in 1..used /\ first + (n + 1) - 1 = first + n
    BY <1>1
  <2> QED  BY <2>1, ReadOff DEF RecordAt
<1>3. \A b \in 2..used : b - 1 \in 1..used - 1 /\ At(b - 1) = Records[b]
  <2> SUFFICES ASSUME NEW b \in 2..used PROVE b - 1 \in 1..used - 1 /\ At(b - 1) = Records[b]
    OBVIOUS
  <2>1. b - 1 \in 1..used - 1 /\ (b - 1) + 1 = b
    BY <1>1
  <2> HIDE DEF At
  <2> QED  BY <1>2, <2>1
<1>4. ~(used < Capacity)
  BY <1>1
<1>5. CASE stops = {}
  <2>1. Dropped = used
    BY <1>5 DEF Dropped
  <2>2. \A b \in 2..used : Records[b] # CheckpointBegin
    BY <1>3, <1>5
  <2> QED  BY <1>1, <1>4, <2>1, <2>2 DEF Leaves
<1>6. CASE stops # {}
  <2>1. \E n \in stops : \A m \in stops : n <= m
    BY <1>1, <1>6, Least
  <2>2. Dropped = CHOOSE n \in stops : \A m \in stops : n <= m
    BY <1>6 DEF Dropped
  <2>3. Dropped \in stops /\ \A m \in stops : Dropped <= m
    BY <2>1, <2>2
  <2>4. Dropped \in 1..used - 1 /\ Records[Dropped + 1] = CheckpointBegin
    BY <1>2, <2>3
  <2>5. ASSUME NEW b \in 2..used, Records[b] = CheckpointBegin PROVE Dropped < b
    <3>1. b - 1 \in stops
      BY <1>3, <2>5
    <3>2. Dropped <= b - 1
      BY <2>3, <3>1
    <3> QED  BY <1>1, <2>4, <3>2
  <2>6. Dropped + 1 \in 2..used /\ Dropped \in 1..used
    BY <1>1, <2>4
  <2> QED  BY <1>4, <2>4, <2>5, <2>6 DEF Leaves
<1> QED  BY <1>5, <1>6

LEMMA PushLeaves ==
  ASSUME TypeOK, NEW record, Push(record)
  PROVE  \E d \in 0..used : Pushed(record, d) /\ Leaves(d)
<1>1. CASE used = Capacity
  <2>1. Dropped \in 1..used /\ Leaves(Dropped)
    BY <1>1, Evicts
  <2>2. Dropped # 0 /\ ~(used < Capacity) /\ Dropped \in 0..used
    BY <1>1, <2>1, TraceAssumption
  <2>3. Pushed(record, Dropped)
    BY <1>1, <2>2 DEF Push, Pushed, NextSlot
  <2> QED  BY <2>1, <2>2, <2>3
<1>2. CASE used # Capacity
  <2>1. used < Capacity /\ 0 \in 0..used
    BY <1>2, TraceAssumption DEF TypeOK
  <2>2. Pushed(record, 0) /\ Leaves(0)
    BY <1>2, <2>1 DEF Push, Pushed, NextSlot, Leaves
  <2> QED  BY <2>1, <2>2
<1> QED  BY <1>1, <1>2

(* What the region reads as after a push.                                  *)
LEMMA AfterAPush ==
  ASSUME IndInv, TypeOK', NEW record \in Record, NEW d \in 0..used, Pushed(record, d)
  PROVE  /\ used' = used - d + 1 /\ used \in Nat /\ used' \in Nat
         /\ Records'[used'] = record
         /\ \A i \in d + 1..used : i - d \in 1..used' - 1 /\ Records'[i - d] = Records[i]
         /\ \A i \in 1..used' - 1 : i + d \in d + 1..used /\ Records'[i] = Records[i + d]
         /\ \A i \in d + 1..used : \A v :
              Reaches(Records, i, v) => Reaches(Records', i - d, ReadOn(v, record))
         /\ record = CheckpointBegin => Reaches(Records', used', AtBegin)
<1> DEFINE either == Record \cup {NeverWritten}
<1>1. PICK s : s = Records
  OBVIOUS
<1>2. s \in Seq(either) /\ Len(s) = used
  BY <1>1, ReadOff DEF IndInv
<1>3. Records' = Append(SubSeq(s, d + 1, Len(s)), record)
  BY <1>1, PushAdds
<1>4. used' = used - d + 1 /\ used \in Nat /\ d \in Nat
  BY TraceAssumption DEF Pushed, IndInv, TypeOK
<1>5. record \in either /\ d \in 0..Len(s)
  BY <1>2
<1> HIDE DEF either
<1>6. PICK t : t = Append(SubSeq(s, d + 1, Len(s)), record)
  OBVIOUS
<1>7. /\ t \in Seq(either) /\ Len(t) = used'
      /\ \A i \in 1..used' - 1 : t[i] = s[d + i]
      /\ t[used'] = record
  <2>1. t \in Seq(either) /\ Len(t) = Len(s) - d + 1
    <3>1. SubSeq(s, d + 1, Len(s)) \in Seq(either) /\ Len(SubSeq(s, d + 1, Len(s))) = Len(s) - d
      BY <1>2, <1>5
    <3> QED  BY <1>5, <1>6, <3>1
  <2>2. \A i \in 1..Len(s) - d : t[i] = s[d + i]
    BY <1>2, <1>5, <1>6, Added
  <2>3. t[Len(s) - d + 1] = record
    BY <1>2, <1>5, <1>6, Added
  <2>4. used' - 1 = Len(s) - d /\ used' = Len(s) - d + 1
    BY <1>2, <1>4
  <2> QED  BY <2>1, <2>2, <2>3, <2>4
<1>8. \A i \in 1..used' - 1 : i + d \in d + 1..used /\ t[i] = s[i + d]
  <2> SUFFICES ASSUME NEW i \in 1..used' - 1 PROVE i + d \in d + 1..used /\ t[i] = s[i + d]
    OBVIOUS
  <2>1. i + d \in d + 1..used /\ i + d = d + i
    BY <1>4
  <2> QED  BY <1>7, <2>1
<1>9. \A i \in d + 1..used : i - d \in 1..used' - 1 /\ t[i - d] = s[i]
  <2> SUFFICES ASSUME NEW i \in d + 1..used PROVE i - d \in 1..used' - 1 /\ t[i - d] = s[i]
    OBVIOUS
  <2>1. i - d \in 1..used' - 1 /\ (i - d) + d = i
    BY <1>4
  <2> QED  BY <1>8, <2>1
<1>10. \A i \in d + 1..used : \A v : Reaches(s, i, v) => Reaches(t, i - d, ReadOn(v, record))
  BY <1>2, <1>5, <1>6, ReachesOn
<1>11. Reaches(t, used', AtBegin)
  <2>1. Len(t) # 0
    BY <1>4, <1>7
  <2> QED  BY <1>7, <2>1, ReachesNew
<1>12. used' \in Nat
  BY <1>4
<1>13. Records' = t
  BY <1>3, <1>6
<1> QED  BY <1>1, <1>4, <1>7, <1>8, <1>9, <1>10, <1>11, <1>12, <1>13

(* A push leaves the segment that began last where it is whole, and a      *)
(* checkpoint in front.                                                    *)
LEMMA StaysInFront ==
  ASSUME IndInv, TypeOK', Headed, NEW record \in Record,
         NEW d \in 0..used, Pushed(record, d), Leaves(d),
         NEW b \in 1..used, Records[b] = CheckpointBegin, used - b + 1 < Capacity
  PROVE  /\ b - d \in 1..used' /\ Records'[b - d] = CheckpointBegin
         /\ used' - (b - d) + 1 = (used - b + 1) + 1
         /\ Headed'
<1>1. /\ used' = used - d + 1 /\ used \in Nat /\ used' \in Nat /\ used <= Capacity
      /\ \A i \in d + 1..used : i - d \in 1..used' - 1 /\ Records'[i - d] = Records[i]
  <2>1. used <= Capacity
    BY TraceAssumption DEF IndInv, TypeOK
  <2> QED  BY <2>1, AfterAPush
<1>2. b \in d + 1..used /\ Records[d + 1] = CheckpointBegin
  <2>1. CASE used < Capacity
    <3>1. d = 0 /\ used # 0
      BY <1>1, <2>1 DEF Leaves
    <3> QED  BY <3>1 DEF Headed
  <2>2. CASE used >= Capacity
    <3>1. b \in 2..used /\ ~(used < Capacity)
      BY <1>1, <2>2, TraceAssumption
    <3>2. Records[d + 1] = CheckpointBegin /\ d < b
      BY <3>1 DEF Leaves
    <3> QED  BY <3>1, <3>2
  <2> QED  BY <1>1, <2>1, <2>2, TraceAssumption
<1>3. b - d \in 1..used' /\ Records'[b - d] = CheckpointBegin
  BY <1>1, <1>2
<1>4. used' - (b - d) + 1 = (used - b + 1) + 1
  BY <1>1
<1>5. Records'[1] = CheckpointBegin /\ used' # 0
  <2>1. d + 1 \in d + 1..used /\ (d + 1) - d = 1
    BY <1>1, <1>2
  <2>2. Records'[(d + 1) - d] = Records[d + 1]
    BY <1>1, <2>1
  <2> QED  BY <1>1, <1>2, <2>1, <2>2
<1> QED  BY <1>3, <1>4, <1>5 DEF Headed

LEMMA BeginsInFront ==
  ASSUME IndInv, TypeOK', Headed, NEW d \in 0..used, Pushed(CheckpointBegin, d), Leaves(d)
  PROVE  Headed'
<1>1. /\ used' = used - d + 1 /\ used \in Nat /\ used' \in Nat
      /\ Records'[used'] = CheckpointBegin
      /\ \A i \in d + 1..used : i - d \in 1..used' - 1 /\ Records'[i - d] = Records[i]
  <2>1. CheckpointBegin \in Record
    BY DEF Record
  <2> QED  BY <2>1, AfterAPush
<1>2. used' # 0
  BY <1>1
<1>3. CASE d = used
  BY <1>1, <1>2, <1>3 DEF Headed
<1>4. CASE d # used
  <2>1. Records[d + 1] = CheckpointBegin
    BY <1>1, <1>4 DEF Leaves, Headed
  <2>2. d + 1 \in d + 1..used /\ (d + 1) - d = 1
    BY <1>1, <1>4
  <2>3. Records'[(d + 1) - d] = Records[d + 1]
    BY <1>1, <2>2
  <2> QED  BY <1>2, <2>1, <2>2, <2>3 DEF Headed
<1> QED  BY <1>3, <1>4

LEMMA NothingToCome ==
  ASSUME pending \in Seq(OfTheRun), SegmentInv,
         pending = <<>> \/ ~InACheckpoint(Head(pending))
  PROVE  DevicesToCome = {} /\ HeldToCome = {} /\ ~AboutToBegin
<1>1. PICK k \in 0..Len(pending) : Shape(k)
  BY DEF SegmentInv
<1>2. k = 0
  <2>1. CASE pending = <<>>
    BY <2>1
  <2>2. CASE pending # <<>>
    <3>1. Head(pending) = pending[1] /\ 1 \in 1..Len(pending)
      BY <2>2
    <3>2. ~(1 <= k)
      BY <1>1, <2>2, <3>1 DEF Shape
    <3> QED  BY <3>2
  <2> QED  BY <2>1, <2>2
<1>3. \A i \in 1..Len(pending) : ~InACheckpoint(pending[i])
  BY <1>1, <1>2 DEF Shape
<1>4. /\ \A d : InACheckpoint(CheckpointDevice(d))
      /\ \A h : InACheckpoint(CheckpointHeld(h))
      /\ InACheckpoint(CheckpointBegin)
  BY Kinds DEF InACheckpoint
<1>5. ~AboutToBegin
  BY <1>4 DEF AboutToBegin
<1> QED  BY <1>3, <1>4, <1>5 DEF DevicesToCome, HeldToCome, Holds

-----------------------------------------------------------------------------
(* Reading one record more.                                                *)

LEMMA ReadsABegin ==
  ASSUME NEW v \in Reading
  PROVE  /\ ReadOn(v, CheckpointBegin) \in Reading
         /\ ReadOn(v, CheckpointBegin).theirs = FALSE
         /\ ReadOn(v, CheckpointBegin).state = v.state
<1>1. ReadOn(v, CheckpointBegin) = [v EXCEPT !.theirs = FALSE]
  BY Kinds DEF ReadOn
<1> QED  BY <1>1 DEF Reading

LEMMA ReadsADevice ==
  ASSUME NEW v \in Reading, NEW d \in Keyboards
  PROVE  LET w == ReadOn(v, CheckpointDevice(d))
         IN  /\ w \in Reading /\ w.theirs = v.theirs /\ w.state.held = v.state.held
             /\ w.state.devices = IF v.theirs THEN v.state.devices \cup {d} ELSE v.state.devices
<1>1. CASE v.theirs
  <2>1. FromCheckpoint(v.state, CheckpointDevice(d))
          = [v.state EXCEPT !.devices = v.state.devices \cup {d}]
    BY Kinds DEF FromCheckpoint
  <2>2. ReadOn(v, CheckpointDevice(d))
          = [v EXCEPT !.state = FromCheckpoint(v.state, CheckpointDevice(d))]
    BY <1>1, Kinds DEF ReadOn
  <2>3. PICK z, w : z = FromCheckpoint(v.state, CheckpointDevice(d)) /\ w = ReadOn(v, CheckpointDevice(d))
    OBVIOUS
  <2>4. /\ z \in [devices : SUBSET Keyboards, held : SUBSET Held]
        /\ z.devices = v.state.devices \cup {d} /\ z.held = v.state.held
    BY <2>1, <2>3 DEF Reading
  <2>5. w \in Reading /\ w.theirs = v.theirs /\ w.state = z
    BY <2>2, <2>3, <2>4 DEF Reading
  <2> QED  BY <1>1, <2>3, <2>4, <2>5
<1>2. CASE ~v.theirs
  <2>1. ReadOn(v, CheckpointDevice(d)) = v
    BY <1>2, Kinds DEF ReadOn
  <2> QED  BY <1>2, <2>1
<1> QED  BY <1>1, <1>2

LEMMA ReadsAHeld ==
  ASSUME NEW v \in Reading, NEW h \in Held
  PROVE  LET w == ReadOn(v, CheckpointHeld(h))
         IN  /\ w \in Reading /\ w.theirs = v.theirs /\ w.state.devices = v.state.devices
             /\ w.state.held = IF v.theirs THEN v.state.held \cup {h} ELSE v.state.held
<1>1. CASE v.theirs
  <2>1. FromCheckpoint(v.state, CheckpointHeld(h))
          = [v.state EXCEPT !.held = v.state.held \cup {h}]
    BY Kinds DEF FromCheckpoint
  <2>2. ReadOn(v, CheckpointHeld(h))
          = [v EXCEPT !.state = FromCheckpoint(v.state, CheckpointHeld(h))]
    BY <1>1, Kinds DEF ReadOn
  <2>3. PICK z, w : z = FromCheckpoint(v.state, CheckpointHeld(h)) /\ w = ReadOn(v, CheckpointHeld(h))
    OBVIOUS
  <2>4. /\ z \in [devices : SUBSET Keyboards, held : SUBSET Held]
        /\ z.held = v.state.held \cup {h} /\ z.devices = v.state.devices
    BY <2>1, <2>3 DEF Reading
  <2>5. w \in Reading /\ w.theirs = v.theirs /\ w.state = z
    BY <2>2, <2>3, <2>4 DEF Reading
  <2> QED  BY <1>1, <2>3, <2>4, <2>5
<1>2. CASE ~v.theirs
  <2>1. ReadOn(v, CheckpointHeld(h)) = v
    BY <1>2, Kinds DEF ReadOn
  <2> QED  BY <1>2, <2>1
<1> QED  BY <1>1, <1>2

LEMMA ReadsPast ==
  ASSUME NEW v, NEW record,
         record.kind \notin {"CheckpointBegin", "CheckpointDevice", "CheckpointHeld", "Event"}
  PROVE  ReadOn(v, record) = v
  BY DEF ReadOn

(* An event is replayed as it was handled.                                 *)
LEMMA ReplayedAsHandled ==
  ASSUME NEW v \in Reading, NEW e \in Events, Handle(Event(e)),
         v.state.devices = devices, v.state.held = held
  PROVE  LET w == ReadOn(v, Event(e))
         IN  /\ w \in Reading /\ w.theirs = FALSE
             /\ w.state.devices = devices' /\ w.state.held = held'
<1>1. ReadOn(v, Event(e)) = [theirs |-> FALSE, state |-> Replayed(v.state, Event(e))]
  BY Kinds DEF ReadOn
<1>2. v.state \in [devices : SUBSET Keyboards, held : SUBSET Held]
  BY DEF Reading
<1>3. /\ devices' = CASE e.what = "Attached" -> devices \cup {e.device}
                      [] e.what = "Detached" -> devices \ {e.device}
                      [] OTHER -> devices
      /\ held' = CASE e.what = "Detached" -> {h \in held : h[1] # e.device}
                   [] e.what = "KeyDown" -> held \cup {e.held}
                   [] e.what = "KeyUp" -> held \ {e.held}
                   [] OTHER -> held
  BY Kinds DEF Handle
<1>4. Event(e).event = e
  BY Kinds
<1> DEFINE z == Replayed(v.state, Event(e))
<1>5. /\ z \in [devices : SUBSET Keyboards, held : SUBSET Held]
      /\ z.devices = devices' /\ z.held = held'
  <2> HIDE DEF z
  <2>1. CASE e.what = "Attached"
    <3>1. e.device \in Keyboards
      BY <2>1 DEF Events
    <3>2. z = [v.state EXCEPT !.devices = v.state.devices \cup {e.device}]
      BY <1>4, <2>1 DEF z, Replayed
    <3>3. devices' = devices \cup {e.device} /\ held' = held
      BY <1>3, <2>1
    <3> QED  BY <1>2, <3>1, <3>2, <3>3
  <2>2. CASE e.what = "Detached"
    <3>1. z = [devices |-> v.state.devices \ {e.device},
               held |-> {h \in v.state.held : h[1] # e.device}]
      BY <1>4, <2>2 DEF z, Replayed
    <3>2. devices' = devices \ {e.device} /\ held' = {h \in held : h[1] # e.device}
      BY <1>3, <2>2
    <3> QED  BY <1>2, <3>1, <3>2
  <2>3. CASE e.what = "KeyDown"
    <3>1. e.held \in Held
      BY <2>3 DEF Events
    <3>2. z = [v.state EXCEPT !.held = v.state.held \cup {e.held}]
      BY <1>4, <2>3 DEF z, Replayed
    <3>3. devices' = devices /\ held' = held \cup {e.held}
      BY <1>3, <2>3
    <3> QED  BY <1>2, <3>1, <3>2, <3>3
  <2>4. CASE e.what = "KeyUp"
    <3>1. z = [v.state EXCEPT !.held = v.state.held \ {e.held}]
      BY <1>4, <2>4 DEF z, Replayed
    <3>2. devices' = devices /\ held' = held \ {e.held}
      BY <1>3, <2>4
    <3> QED  BY <1>2, <3>1, <3>2
  <2>5. CASE e.what = "Probe"
    <3>1. z = v.state
      BY <1>4, <2>5 DEF z, Replayed
    <3>2. devices' = devices /\ held' = held
      BY <1>3, <2>5
    <3> QED  BY <1>2, <3>1, <3>2
  <2>6. e.what \in {"Attached", "Detached", "KeyDown", "KeyUp", "Probe"}
    BY DEF Events
  <2> QED  BY <2>1, <2>2, <2>3, <2>4, <2>5, <2>6
<1> HIDE DEF z
<1>6. ReadOn(v, Event(e)) = [theirs |-> FALSE, state |-> z]
  BY <1>1 DEF z
<1> QED  BY <1>5, <1>6 DEF Reading

-----------------------------------------------------------------------------
(* Pushing what the run has to push.                                       *)

LEMMA Taken ==
  ASSUME NEW S, NEW s \in Seq(S), s # <<>>
  PROVE  /\ Head(s) = s[1] /\ Head(s) \in S
         /\ Tail(s) \in Seq(S) /\ Len(Tail(s)) = Len(s) - 1 /\ Len(s) \in Nat \ {0}
         /\ \A i \in 1..Len(s) - 1 : i + 1 \in 2..Len(s) /\ Tail(s)[i] = s[i + 1]
  OBVIOUS

(* What stays the same while the record at the head of pending is pushed.  *)
LEMMA PushesHead ==
  ASSUME IndInv, PushNext, NEW k \in 0..Len(pending), Shape(k)
  PROVE  LET j == IF k = 0 THEN 0 ELSE k - 1
         IN  /\ Head(pending) \in OfTheRun /\ Head(pending) \in Record
             /\ j \in 0..Len(pending') /\ Shape(j)'
             /\ k # 0 <=> InACheckpoint(Head(pending))
             /\ Len(pending) \in Nat /\ Len(pending') = Len(pending) - 1
             /\ since' + (Len(pending') - j) = since + (Len(pending) - k)
             /\ ~AboutToBegin'
<1>1. /\ pending # <<>> /\ pending \in Seq(OfTheRun) /\ pending' = Tail(pending)
      /\ since' = Counted(Head(pending)) /\ since \in Nat
  BY DEF PushNext, IndInv, RunInv, TypeOK
<1>2. /\ Head(pending) = pending[1] /\ Head(pending) \in OfTheRun
      /\ pending' \in Seq(OfTheRun) /\ Len(pending') = Len(pending) - 1
      /\ Len(pending) \in Nat \ {0}
      /\ \A i \in 1..Len(pending) - 1 : i + 1 \in 2..Len(pending) /\ pending'[i] = pending[i + 1]
  BY <1>1, Taken
<1>3. Head(pending) \in Record
  BY <1>2, OfTheRunIsRecorded
<1>4. PICK j : j = IF k = 0 THEN 0 ELSE k - 1
  OBVIOUS
<1>5. k # 0 <=> InACheckpoint(Head(pending))
  <2>1. 1 \in 1..Len(pending)
    BY <1>2
  <2>2. InACheckpoint(Head(pending)) <=> 1 <= k
    BY <1>2, <2>1 DEF Shape
  <2> QED  BY <2>2
<1>6. \A i \in 1..Len(pending') : pending'[i] # CheckpointBegin
  BY <1>2 DEF Shape
<1>7. \A i \in 1..Len(pending') : InACheckpoint(pending'[i]) <=> i <= j
  <2> SUFFICES ASSUME NEW i \in 1..Len(pending')
               PROVE  InACheckpoint(pending'[i]) <=> i <= j
    OBVIOUS
  <2>1. i + 1 \in 1..Len(pending) /\ pending'[i] = pending[i + 1]
    BY <1>2
  <2>2. InACheckpoint(pending[i + 1]) <=> i + 1 <= k
    BY <2>1 DEF Shape
  <2>3. i <= j <=> i + 1 <= k
    BY <1>4
  <2> QED  BY <2>1, <2>2, <2>3
<1>8. Shape(j)'
  <2>1. \A i \in 2..Len(pending') : i \in 1..Len(pending')
    OBVIOUS
  <2> QED  BY <1>6, <1>7, <2>1 DEF Shape, InACheckpoint
<1>9. ~AboutToBegin'
  <2> SUFFICES ASSUME pending' # <<>> PROVE Head(pending') # CheckpointBegin
    BY DEF AboutToBegin
  <2>1. Head(pending') = pending'[1] /\ Len(pending') \in Nat \ {0}
    BY <1>2, Taken
  <2> QED  BY <1>6, <2>1
<1>10. j \in 0..Len(pending')
  BY <1>2, <1>4
<1>11. since' + (Len(pending') - j) = since + (Len(pending) - k)
  <2>1. CASE k = 0
    <3>1. since' = since + 1
      BY <1>1, <1>5, <2>1 DEF Counted
    <3> QED  BY <1>1, <1>2, <1>4, <2>1, <3>1
  <2>2. CASE k # 0
    <3>1. since' = since
      BY <1>1, <1>5, <2>2 DEF Counted
    <3> QED  BY <1>1, <1>2, <1>4, <2>2, <3>1
  <2> QED  BY <2>1, <2>2
<1> QED  BY <1>2, <1>3, <1>4, <1>5, <1>8, <1>9, <1>10, <1>11

LEMMA PushNextFits ==
  ASSUME RoomForASegment, IndInv, IndInv', PushNext, SegmentInv, Headed
  PROVE  SegmentInv' /\ Headed'
<1>1. PICK k \in 0..Len(pending) : Shape(k) /\ Fits(k)
  BY DEF SegmentInv
<1>2. PICK j : j = IF k = 0 THEN 0 ELSE k - 1
  OBVIOUS
<1>3. /\ Head(pending) \in Record
      /\ j \in 0..Len(pending') /\ Shape(j)'
      /\ k # 0 <=> InACheckpoint(Head(pending))
      /\ Len(pending) \in Nat /\ Len(pending') = Len(pending) - 1
      /\ since' + (Len(pending') - j) = since + (Len(pending) - k)
      /\ ~AboutToBegin'
  BY <1>1, <1>2, PushesHead
<1>4. /\ pending # <<>> /\ quiet' = quiet /\ since' = Counted(Head(pending))
      /\ Push(Head(pending)) /\ since \in Nat /\ quiet \in 0..Burst
  BY DEF PushNext, IndInv, TypeOK
<1>5. PICK d \in 0..used : Pushed(Head(pending), d) /\ Leaves(d)
  BY <1>4, PushLeaves DEF IndInv
<1>6. TypeOK'
  BY DEF IndInv
<1>7. /\ used' = used - d + 1 /\ used \in Nat /\ used' \in Nat
      /\ Records'[used'] = Head(pending)
  BY <1>3, <1>5, <1>6, AfterAPush
<1>8. LargestCheckpoint \in Nat /\ Longest \in Nat /\ Burst \in Nat
  BY Sizes, TraceAssumption DEF RoomForASegment
<1>9. since' + (Len(pending') - j) <= Longest + 1 + quiet'
  BY <1>1, <1>3, <1>4 DEF Fits
<1>10. CASE AboutToBegin
  <2>1. Head(pending) = CheckpointBegin /\ k <= LargestCheckpoint /\ since = 0
    BY <1>1, <1>10 DEF Fits, AboutToBegin
  <2>2. InACheckpoint(Head(pending))
    BY <2>1, Kinds DEF InACheckpoint
  <2>3. since' = 0 /\ j = k - 1
    BY <1>2, <1>3, <1>4, <2>1, <2>2 DEF Counted
  <2>4. Headed'
    BY <1>5, <1>6, <2>1, BeginsInFront
  <2>5. used' \in 1..used' /\ Records'[used'] = CheckpointBegin
        /\ (used' - used' + 1) + j <= LargestCheckpoint + since'
    BY <1>2, <1>3, <1>5, <1>7, <1>8, <2>1, <2>3
  <2>6. Fits(j)'
    BY <1>3, <1>9, <2>5 DEF Fits
  <2> QED  BY <1>3, <2>4, <2>6 DEF SegmentInv
<1>11. CASE ~AboutToBegin
  <2>1. PICK b \in 1..used : /\ Records[b] = CheckpointBegin
                             /\ (used - b + 1) + k <= LargestCheckpoint + since
    BY <1>1, <1>11 DEF Fits
  <2>2. used - b + 1 < Capacity
    <3>1. Len(pending) >= 1
      BY <1>3, <1>4, Taken DEF IndInv, RunInv
    <3>2. since + (Len(pending) - k) <= Longest + 1 + Burst
      BY <1>1, <1>3, <1>4, <1>8 DEF Fits
    <3> QED  BY <1>3, <1>4, <1>7, <1>8, <2>1, <3>1, <3>2, TraceAssumption DEF RoomForASegment
  <2>3. /\ b - d \in 1..used' /\ Records'[b - d] = CheckpointBegin
        /\ used' - (b - d) + 1 = (used - b + 1) + 1
        /\ Headed'
    BY <1>3, <1>5, <1>6, <2>1, <2>2, StaysInFront
  <2>4. (used' - (b - d) + 1) + j <= LargestCheckpoint + since'
    <3>1. CASE k = 0
      <4>1. since' = since + 1 /\ j = 0
        BY <1>2, <1>3, <1>4, <3>1 DEF Counted
      <4> QED  BY <1>4, <1>7, <1>8, <2>1, <2>3, <3>1, <4>1
    <3>2. CASE k # 0
      <4>1. since' = since /\ j = k - 1
        BY <1>2, <1>3, <1>4, <3>2 DEF Counted
      <4> QED  BY <1>4, <1>7, <1>8, <2>1, <2>3, <3>2, <4>1
    <3> QED  BY <3>1, <3>2
  <2>5. Fits(j)'
    BY <1>3, <1>9, <2>3, <2>4 DEF Fits
  <2> QED  BY <1>3, <2>3, <2>5 DEF SegmentInv
<1> QED  BY <1>10, <1>11

(* A replay that continues with what is about to be pushed does so with    *)
(* one record less of it.                                                  *)
LEMMA ReadsHead ==
  ASSUME IndInv, PushNext, SegmentInv, NEW v \in Reading, Continues(v),
         NEW w, w = ReadOn(v, Head(pending))
  PROVE  w \in Reading /\ Continues(w)'
<1>1. /\ pending # <<>> /\ pending \in Seq(OfTheRun) /\ pending' = Tail(pending)
      /\ Handle(Head(pending))
  BY DEF PushNext, IndInv, RunInv
<1>2. /\ Head(pending) \in OfTheRun /\ ~AboutToBegin'
  <2>1. PICK k \in 0..Len(pending) : Shape(k)
    BY DEF SegmentInv
  <2> QED  BY <2>1, PushesHead
<1>3. \A r : Holds(pending, r) <=> r = Head(pending) \/ Holds(pending', r)
  BY <1>1, HoldsTail
<1>4. Head(pending).kind # "Event" => devices' = devices /\ held' = held
  BY <1>1 DEF Handle, sink
<1>5. /\ v.state.devices \in SUBSET Keyboards /\ v.state.held \in SUBSET Held
      /\ v.theirs \in BOOLEAN
  BY DEF Reading
<1>6. CASE Head(pending) = CheckpointBegin
  <2>1. w \in Reading /\ w.theirs = FALSE /\ w.state = v.state
    BY <1>6, ReadsABegin
  <2>2. v.state.devices = devices /\ v.state.held = held
    BY <1>1, <1>6 DEF Continues, AboutToBegin
  <2>3. devices' = devices /\ held' = held
    BY <1>4, <1>6, Kinds
  <2> QED  BY <2>1, <2>2, <2>3 DEF Continues
<1>7. CASE \E d \in Keyboards : Head(pending) = CheckpointDevice(d)
  <2>1. PICK d \in Keyboards : Head(pending) = CheckpointDevice(d)
    BY <1>7
  <2>2. /\ w \in Reading /\ w.theirs = v.theirs /\ w.state.held = v.state.held
        /\ w.state.devices = IF v.theirs THEN v.state.devices \cup {d} ELSE v.state.devices
    BY <2>1, ReadsADevice
  <2>3. devices' = devices /\ held' = held
    BY <1>4, <2>1, Kinds
  <2>4. ~AboutToBegin
    BY <2>1, Kinds DEF AboutToBegin
  <2>5. DevicesToCome = {d} \cup DevicesToCome' /\ HeldToCome = HeldToCome'
    <3>1. /\ \A x : CheckpointDevice(x) = Head(pending) <=> x = d
          /\ \A x : CheckpointHeld(x) # Head(pending)
      BY <2>1, Kinds
    <3>2. \A x \in Keyboards :
            x \in DevicesToCome <=> x = d \/ x \in DevicesToCome'
      BY <1>3, <3>1 DEF DevicesToCome
    <3>3. DevicesToCome \subseteq Keyboards /\ DevicesToCome' \subseteq Keyboards
      BY DEF DevicesToCome
    <3>4. HeldToCome = HeldToCome'
      BY <1>3, <3>1 DEF HeldToCome
    <3> QED  BY <3>2, <3>3, <3>4
  <2>6. CASE v.theirs
    <3>1. v.state.devices \cup DevicesToCome = devices /\ v.state.held \cup HeldToCome = held
      BY <2>4, <2>6 DEF Continues
    <3>2. w.state.devices \cup DevicesToCome' = devices' /\ w.state.held \cup HeldToCome' = held'
      BY <2>2, <2>3, <2>5, <2>6, <3>1
    <3> QED  BY <1>2, <2>2, <2>6, <3>2 DEF Continues
  <2>7. CASE ~v.theirs
    BY <2>2, <2>3, <2>7 DEF Continues
  <2> QED  BY <2>6, <2>7
<1>8. CASE \E h \in Held : Head(pending) = CheckpointHeld(h)
  <2>1. PICK h \in Held : Head(pending) = CheckpointHeld(h)
    BY <1>8
  <2>2. /\ w \in Reading /\ w.theirs = v.theirs /\ w.state.devices = v.state.devices
        /\ w.state.held = IF v.theirs THEN v.state.held \cup {h} ELSE v.state.held
    BY <2>1, ReadsAHeld
  <2>3. devices' = devices /\ held' = held
    BY <1>4, <2>1, Kinds
  <2>4. ~AboutToBegin
    BY <2>1, Kinds DEF AboutToBegin
  <2>5. HeldToCome = {h} \cup HeldToCome' /\ DevicesToCome = DevicesToCome'
    <3>1. /\ \A x : CheckpointHeld(x) = Head(pending) <=> x = h
          /\ \A x : CheckpointDevice(x) # Head(pending)
      BY <2>1, Kinds
    <3>2. \A x \in Held : x \in HeldToCome <=> x = h \/ x \in HeldToCome'
      BY <1>3, <3>1 DEF HeldToCome
    <3>3. HeldToCome \subseteq Held /\ HeldToCome' \subseteq Held
      BY DEF HeldToCome
    <3>4. DevicesToCome = DevicesToCome'
      BY <1>3, <3>1 DEF DevicesToCome
    <3> QED  BY <3>2, <3>3, <3>4
  <2>6. CASE v.theirs
    <3>1. v.state.devices \cup DevicesToCome = devices /\ v.state.held \cup HeldToCome = held
      BY <2>4, <2>6 DEF Continues
    <3>2. w.state.devices \cup DevicesToCome' = devices' /\ w.state.held \cup HeldToCome' = held'
      BY <2>2, <2>3, <2>5, <2>6, <3>1
    <3> QED  BY <1>2, <2>2, <2>6, <3>2 DEF Continues
  <2>7. CASE ~v.theirs
    BY <2>2, <2>3, <2>7 DEF Continues
  <2> QED  BY <2>6, <2>7
<1>9. ASSUME ~InACheckpoint(Head(pending))
      PROVE  /\ v.state.devices = devices /\ v.state.held = held
             /\ DevicesToCome' = {} /\ HeldToCome' = {}
  <2>1. DevicesToCome = {} /\ HeldToCome = {} /\ ~AboutToBegin
    BY <1>1, <1>9, NothingToCome
  <2>2. DevicesToCome' \subseteq DevicesToCome /\ HeldToCome' \subseteq HeldToCome
    BY <1>3 DEF DevicesToCome, HeldToCome
  <2>3. v.state.devices = devices /\ v.state.held = held
    BY <2>1 DEF Continues
  <2> QED  BY <2>1, <2>2, <2>3
<1>10. CASE \E e \in Events : Head(pending) = Event(e)
  <2>1. PICK e \in Events : Head(pending) = Event(e)
    BY <1>10
  <2>2. ~InACheckpoint(Head(pending))
    BY <2>1, Kinds DEF InACheckpoint
  <2>3. w \in Reading /\ w.theirs = FALSE /\ w.state.devices = devices' /\ w.state.held = held'
    BY <1>1, <1>9, <2>1, <2>2, ReplayedAsHandled
  <2> QED  BY <2>3 DEF Continues
<1>11. CASE \E e \in Events : Head(pending) = Injected(e)
  <2>1. Head(pending).kind = "Injected"
    BY <1>11, Kinds
  <2>2. ~InACheckpoint(Head(pending)) /\ w = v
    BY <2>1, ReadsPast DEF InACheckpoint
  <2>3. /\ w.state.devices = devices' /\ w.state.held = held'
        /\ DevicesToCome' = {} /\ HeldToCome' = {}
    BY <1>4, <1>9, <2>1, <2>2
  <2> QED  BY <2>2, <2>3 DEF Continues
<1> QED  BY <1>2, <1>6, <1>7, <1>8, <1>10, <1>11 DEF OfTheRun

LEMMA PushNextReplays ==
  ASSUME IndInv, IndInv', PushNext, SegmentInv, ReplayInv
  PROVE  ReplayInv'
<1>1. /\ Head(pending) \in Record /\ ~AboutToBegin' /\ Push(Head(pending))
      /\ pending # <<>> /\ pending \in Seq(OfTheRun) /\ pending' = Tail(pending)
  <2>1. PICK k \in 0..Len(pending) : Shape(k)
    BY DEF SegmentInv
  <2>2. Head(pending) \in Record /\ ~AboutToBegin'
    BY <2>1, PushesHead
  <2> QED  BY <2>2 DEF PushNext, IndInv, RunInv
<1>2. PICK d \in 0..used : Pushed(Head(pending), d)
  BY <1>1, Pushes DEF IndInv
<1>3. /\ used' = used - d + 1 /\ used \in Nat /\ used' \in Nat
      /\ Records'[used'] = Head(pending)
      /\ \A i \in 1..used' - 1 : i + d \in d + 1..used /\ Records'[i] = Records[i + d]
      /\ \A i \in d + 1..used : \A v :
           Reaches(Records, i, v) => Reaches(Records', i - d, ReadOn(v, Head(pending)))
      /\ Head(pending) = CheckpointBegin => Reaches(Records', used', AtBegin)
  BY <1>1, <1>2, AfterAPush DEF IndInv
<1>4. ASSUME NEW b \in 1..used', Records'[b] = CheckpointBegin
      PROVE  \E v \in Reading : Reaches(Records', b, v) /\ Continues(v)'
  <2>1. CASE b = used'
    <3>1. Head(pending) = CheckpointBegin /\ Reaches(Records', b, AtBegin)
      BY <1>3, <1>4, <2>1
    <3>2. AboutToBegin
      BY <1>1, <3>1 DEF AboutToBegin
    <3>3. DevicesToCome = devices /\ HeldToCome = held
      BY <3>2 DEF ReplayInv
    <3>4. DevicesToCome' = devices' /\ HeldToCome' = held'
      <4>1. \A r : Holds(pending, r) <=> r = Head(pending) \/ Holds(pending', r)
        BY <1>1, HoldsTail
      <4>2. /\ \A x : CheckpointDevice(x) # Head(pending)
            /\ \A x : CheckpointHeld(x) # Head(pending)
        BY <3>1, Kinds
      <4>3. DevicesToCome' = DevicesToCome /\ HeldToCome' = HeldToCome
        BY <4>1, <4>2 DEF DevicesToCome, HeldToCome
      <4>4. devices' = devices /\ held' = held
        BY <3>1, Kinds DEF PushNext, Handle, sink
      <4> QED  BY <3>3, <4>3, <4>4
    <3>5. AtBegin \in Reading /\ AtBegin.theirs /\ AtBegin.state.devices = {}
          /\ AtBegin.state.held = {}
      BY DEF AtBegin, Reading
    <3>6. PICK v : v = AtBegin
      OBVIOUS
    <3>7. Continues(v)'
      BY <1>1, <3>4, <3>5, <3>6 DEF Continues
    <3> QED  BY <3>1, <3>5, <3>6, <3>7
  <2>2. CASE b # used'
    <3>1. b \in 1..used' - 1
      BY <1>3, <2>2
    <3>2. b + d \in d + 1..used /\ b + d \in 1..used /\ Records[b + d] = CheckpointBegin
          /\ (b + d) - d = b
      BY <1>3, <1>4, <3>1
    <3>3. PICK v \in Reading : Reaches(Records, b + d, v) /\ Continues(v)
      BY <3>2 DEF ReplayInv
    <3>4. PICK w : w = ReadOn(v, Head(pending))
      OBVIOUS
    <3>5. Reaches(Records', b, w)
      BY <1>3, <3>2, <3>3, <3>4
    <3>6. w \in Reading /\ Continues(w)'
      BY <3>3, <3>4, ReadsHead
    <3> QED  BY <3>5, <3>6
  <2> QED  BY <2>1, <2>2
<1> QED  BY <1>1, <1>4 DEF ReplayInv

-----------------------------------------------------------------------------
(* The steps that push something else, or nothing.                         *)

LEMMA ForReadingIsNoState ==
  ASSUME NEW record \in Recorded
  PROVE  record.kind \notin {"CheckpointBegin", "CheckpointDevice", "CheckpointHeld", "Event"}
  BY TraceAssumption, Kinds DEF Recorded, Marked

LEMMA RecordForReadingKeepsSink ==
  ASSUME RoomForASegment,
         IndInv, IndInv', NEW record \in Recorded, RecordForReading(record),
         SegmentInv, Headed, ReplayInv
  PROVE  SegmentInv' /\ Headed' /\ ReplayInv'
<1>1. /\ pending = <<>> /\ pending' = pending /\ since' = since + 1 /\ quiet' = quiet + 1
      /\ quiet < Burst /\ devices' = devices /\ held' = held /\ Push(record)
      /\ since \in Nat /\ quiet \in Nat
  BY DEF RecordForReading, Idle, sink, IndInv, TypeOK
<1>2. record \in Record
  BY RecordedIsRecorded
<1>3. record.kind \notin {"CheckpointBegin", "CheckpointDevice", "CheckpointHeld", "Event"}
  BY ForReadingIsNoState
<1>4. PICK d \in 0..used : Pushed(record, d) /\ Leaves(d)
  BY <1>1, PushLeaves DEF IndInv
<1>5. /\ used' = used - d + 1 /\ used \in Nat /\ used' \in Nat
      /\ Records'[used'] = record
      /\ \A i \in 1..used' - 1 : i + d \in d + 1..used /\ Records'[i] = Records[i + d]
      /\ \A i \in d + 1..used : \A v :
           Reaches(Records, i, v) => Reaches(Records', i - d, ReadOn(v, record))
  BY <1>2, <1>4, AfterAPush DEF IndInv
<1>6. ~AboutToBegin /\ ~AboutToBegin'
  BY <1>1 DEF AboutToBegin
<1>7. PICK k \in 0..Len(pending) : Shape(k) /\ Fits(k)
  BY DEF SegmentInv
<1>8. k = 0 /\ Len(pending) = 0
  BY <1>1
<1>9. LargestCheckpoint \in Nat /\ Longest \in Nat /\ Burst \in Nat
  BY Sizes, TraceAssumption DEF RoomForASegment
<1>10. PICK b \in 1..used : /\ Records[b] = CheckpointBegin
                            /\ (used - b + 1) + k <= LargestCheckpoint + since
  BY <1>6, <1>7 DEF Fits
<1>11. since + 1 <= Longest + 1 + (quiet + 1)
  BY <1>1, <1>7, <1>8, <1>9 DEF Fits
<1>12. used - b + 1 < Capacity
  <2>1. since <= Longest + 1 + quiet
    BY <1>1, <1>7, <1>8, <1>9 DEF Fits
  <2> QED  BY <1>1, <1>5, <1>8, <1>9, <1>10, <2>1, TraceAssumption DEF RoomForASegment
<1>13. /\ b - d \in 1..used' /\ Records'[b - d] = CheckpointBegin
       /\ used' - (b - d) + 1 = (used - b + 1) + 1
       /\ Headed'
  BY <1>2, <1>4, <1>10, <1>12, StaysInFront DEF IndInv
<1>14. SegmentInv'
  <2>1. Shape(0)'
    BY <1>1, <1>8, <1>7 DEF Shape, InACheckpoint
  <2>2. Fits(0)'
    <3>1. since' + (Len(pending') - 0) <= Longest + 1 + quiet'
      BY <1>1, <1>8, <1>11
    <3>2. (used' - (b - d) + 1) + 0 <= LargestCheckpoint + since'
      BY <1>1, <1>5, <1>8, <1>9, <1>10, <1>13
    <3> QED  BY <1>6, <1>13, <3>1, <3>2 DEF Fits
  <2>3. 0 \in 0..Len(pending')
    BY <1>1, <1>8
  <2> QED  BY <2>1, <2>2, <2>3 DEF SegmentInv
<1>15. ASSUME NEW c \in 1..used', Records'[c] = CheckpointBegin
       PROVE  \E v \in Reading : Reaches(Records', c, v) /\ Continues(v)'
  <2>1. c # used'
    BY <1>3, <1>5, <1>15, Kinds
  <2>2. c \in 1..used' - 1
    BY <1>5, <2>1
  <2>3. c + d \in d + 1..used /\ c + d \in 1..used /\ Records[c + d] = CheckpointBegin
        /\ (c + d) - d = c
    BY <1>5, <1>15, <2>2
  <2>4. PICK v \in Reading : Reaches(Records, c + d, v) /\ Continues(v)
    BY <2>3 DEF ReplayInv
  <2>5. Reaches(Records', c, v)
    <3>1. ReadOn(v, record) = v
      BY <1>3, ReadsPast
    <3> QED  BY <1>5, <2>3, <2>4, <3>1
  <2>6. Continues(v)'
    <3>1. DevicesToCome' = DevicesToCome /\ HeldToCome' = HeldToCome
      BY <1>1 DEF DevicesToCome, HeldToCome
    <3> QED  BY <1>1, <1>6, <2>4, <3>1 DEF Continues
  <2> QED  BY <2>5, <2>6
<1>16. ReplayInv'
  BY <1>6, <1>15 DEF ReplayInv
<1> QED  BY <1>13, <1>14, <1>16

(* A checkpoint has room, and says what the state is.                      *)
LEMMA CheckpointFits ==
  ASSUME RoomForASegment, IndInv
  PROVE  /\ Len(CheckpointRecords) \in 1..LargestCheckpoint
         /\ LargestCheckpoint \in Nat
<1>1. Len(CheckpointRecords) = 1 + Cardinality(devices) + Cardinality(held)
  BY OfACheckpoint DEF IndInv, TypeOK, RunInv
<1>2. IsFiniteSet(Keyboards) /\ IsFiniteSet(Held)
  BY Sizes DEF RoomForASegment
<1>3. /\ Cardinality(devices) <= Cardinality(Keyboards) /\ Cardinality(held) <= Cardinality(Held)
  BY <1>2, FS_Subset DEF IndInv, TypeOK
<1>4. /\ Cardinality(devices) \in Nat /\ Cardinality(held) \in Nat
      /\ Cardinality(Keyboards) \in Nat /\ Cardinality(Held) \in Nat
  BY <1>2, FS_CardinalityType DEF IndInv, RunInv
<1> QED  BY <1>1, <1>3, <1>4 DEF LargestCheckpoint

LEMMA HandleTracedKeepsSink ==
  ASSUME RoomForASegment, IndInv, NEW e \in Events, NEW late \in BOOLEAN, HandleTraced(e, late),
         SegmentInv, Headed, ReplayInv
  PROVE  SegmentInv' /\ Headed' /\ ReplayInv'
<1> DEFINE due == CheckpointIsDue(late)
           after == IF e.what \in {"KeyDown", "KeyUp"} THEN <<Injected(e)>> ELSE <<>>
<1>1. PICK c, t, u : /\ c = (IF due THEN CheckpointRecords ELSE <<>>)
                     /\ t = <<Event(e)>> /\ u = after
  OBVIOUS
<1>2. /\ pending = <<>> /\ pending' = (c \o t) \o u
      /\ since' = (IF due THEN 0 ELSE since) /\ quiet' = 0
      /\ UNCHANGED <<side, ring, sink>>
      /\ since \in Nat
  BY <1>1 DEF HandleTraced, Idle, CheckpointFirst, IndInv, TypeOK
<1> HIDE DEF after
<1>3. /\ devices' = devices /\ held' = held /\ used' = used /\ Records' = Records
      /\ used \in Nat
  BY <1>2, TraceAssumption DEF sink, ring, Records, ReadBy, Header, IndInv, TypeOK
<1>4. /\ c \in Seq(OfTheRun)
      /\ \A i \in 1..Len(c) : InACheckpoint(c[i])
      /\ \A i \in 2..Len(c) : c[i] # CheckpointBegin
  <2>1. CASE due
    <3>1. c = CheckpointRecords
      BY <1>1, <2>1
    <3> QED  BY <3>1, OfACheckpoint DEF IndInv, TypeOK, RunInv
  <2>2. CASE ~due
    <3>1. c = <<>>
      BY <1>1, <2>2
    <3> QED  BY <3>1
  <2> QED  BY <2>1, <2>2
<1>5. /\ t \in Seq(OfTheRun) /\ Len(t) = 1 /\ t[1] = Event(e)
      /\ u \in Seq(OfTheRun) /\ Len(u) \in 0..1 /\ (Len(u) = 1 => u[1] = Injected(e))
  <2>1. Event(e) \in OfTheRun /\ Injected(e) \in OfTheRun
    BY DEF OfTheRun
  <2>2. PICK x, y \in OfTheRun : x = Event(e) /\ y = Injected(e)
    BY <2>1
  <2>3. t = <<x>> /\ (u = <<>> \/ u = <<y>>)
    BY <1>1, <2>2 DEF after
  <2>4. t \in Seq(OfTheRun) /\ Len(t) = 1 /\ t[1] = x
    BY <2>3
  <2>5. u \in Seq(OfTheRun) /\ Len(u) \in 0..1 /\ (Len(u) = 1 => u[1] = y)
    <3>1. <<>> \in Seq(OfTheRun) /\ Len(<<>>) = 0
      OBVIOUS
    <3>2. <<y>> \in Seq(OfTheRun) /\ Len(<<y>>) = 1 /\ <<y>>[1] = y
      OBVIOUS
    <3>3. CASE u = <<>>
      <4>1. u \in Seq(OfTheRun) /\ Len(u) = 0
        BY <3>1, <3>3
      <4> QED  BY <4>1
    <3>4. CASE u = <<y>>
      <4>1. u \in Seq(OfTheRun) /\ Len(u) = 1 /\ u[1] = y
        BY <3>2, <3>4
      <4> QED  BY <4>1
    <3> QED  BY <2>3, <3>3, <3>4
  <2> QED  BY <2>2, <2>4, <2>5
<1>6. c \o t \in Seq(OfTheRun) /\ (c \o t) \o u \in Seq(OfTheRun)
  BY <1>4, <1>5, Joined
<1>7. /\ Len(c \o t) = Len(c) + Len(t) /\ Len(c) \in Nat
      /\ \A i \in 1..Len(c) : (c \o t)[i] = c[i]
      /\ \A i \in Len(c) + 1..Len(c) + Len(t) :
           i - Len(c) \in 1..Len(t) /\ (c \o t)[i] = t[i - Len(c)]
  BY <1>4, <1>5, InBoth
<1>8. /\ Len((c \o t) \o u) = Len(c \o t) + Len(u)
      /\ \A i \in 1..Len(c \o t) : ((c \o t) \o u)[i] = (c \o t)[i]
      /\ \A i \in Len(c \o t) + 1..Len(c \o t) + Len(u) :
           i - Len(c \o t) \in 1..Len(u) /\ ((c \o t) \o u)[i] = u[i - Len(c \o t)]
  BY <1>5, <1>6, InBoth
<1>9. ~InACheckpoint(Event(e)) /\ ~InACheckpoint(Injected(e))
  BY Kinds DEF InACheckpoint
<1>10. /\ Len(pending') = Len(c) + 1 + Len(u)
       /\ \A i \in 1..Len(c) : pending'[i] = c[i]
       /\ \A i \in Len(c) + 1..Len(pending') : pending'[i] \in {Event(e), Injected(e)}
  <2>1. Len(pending') = Len(c) + 1 + Len(u)
    BY <1>2, <1>5, <1>7, <1>8
  <2>2. ASSUME NEW i \in 1..Len(c) PROVE pending'[i] = c[i]
    <3>1. i \in 1..Len(c \o t)
      BY <1>5, <1>7
    <3> QED  BY <1>2, <1>7, <1>8, <3>1
  <2>3. ASSUME NEW i \in Len(c) + 1..Len(pending') PROVE pending'[i] \in {Event(e), Injected(e)}
    <3>1. CASE i = Len(c) + 1
      <4>1. i \in 1..Len(c \o t) /\ i \in Len(c) + 1..Len(c) + Len(t) /\ i - Len(c) = 1
        BY <1>5, <1>7, <3>1
      <4> QED  BY <1>2, <1>5, <1>7, <1>8, <4>1
    <3>2. CASE i # Len(c) + 1
      <4>1. i \in Len(c \o t) + 1..Len(c \o t) + Len(u) /\ Len(u) = 1 /\ i - Len(c \o t) = 1
        BY <1>5, <1>7, <2>1, <3>2
      <4> QED  BY <1>2, <1>5, <1>8, <4>1
    <3> QED  BY <3>1, <3>2
  <2> QED  BY <2>1, <2>2, <2>3
<1>11. Shape(Len(c))'
  <2>1. ASSUME NEW i \in 1..Len(pending') PROVE InACheckpoint(pending'[i]) <=> i <= Len(c)
    <3>1. CASE i <= Len(c)
      BY <1>4, <1>7, <1>10, <3>1
    <3>2. CASE i > Len(c)
      <4>1. i \in Len(c) + 1..Len(pending')
        BY <1>7, <3>2
      <4>2. ~InACheckpoint(pending'[i])
        BY <1>9, <1>10, <4>1
      <4> QED  BY <3>2, <4>2, <1>7
    <3> QED  BY <1>7, <3>1, <3>2
  <2>2. ASSUME NEW i \in 2..Len(pending') PROVE pending'[i] # CheckpointBegin
    <3>1. CASE i <= Len(c)
      BY <1>4, <1>7, <1>10, <3>1
    <3>2. CASE i > Len(c)
      <4>1. i \in Len(c) + 1..Len(pending')
        BY <1>7, <3>2
      <4> QED  BY <1>10, <4>1, Kinds
    <3> QED  BY <1>7, <3>1, <3>2
  <2> QED  BY <2>1, <2>2 DEF Shape, InACheckpoint
<1>12. LargestCheckpoint \in Nat /\ Longest \in Nat \ {0} /\ Share \in Nat /\ Share <= Longest
  BY Sizes DEF RoomForASegment
<1>13. /\ pending' # <<>> /\ Head(pending') = pending'[1]
  <2>1. pending' \in Seq(OfTheRun) /\ Len(pending') # 0
    BY <1>2, <1>5, <1>6, <1>7, <1>10
  <2> QED  BY <2>1, Taken
<1>14. Headed'
  <2>1. ~AboutToBegin
    BY <1>2 DEF AboutToBegin
  <2>2. used # 0 /\ Records[1] = CheckpointBegin
    BY <2>1 DEF Headed
  <2> QED  BY <1>3, <2>2 DEF Headed
<1>15. \A b \in 1..used : Records[b] = CheckpointBegin =>
         \E v \in Reading : /\ Reaches(Records, b, v)
                            /\ v.state.devices = devices /\ v.state.held = held
  <2> SUFFICES ASSUME NEW b \in 1..used, Records[b] = CheckpointBegin
               PROVE  \E v \in Reading : /\ Reaches(Records, b, v)
                                         /\ v.state.devices = devices /\ v.state.held = held
    OBVIOUS
  <2>1. PICK v \in Reading : Reaches(Records, b, v) /\ Continues(v)
    BY DEF ReplayInv
  <2>2. DevicesToCome = {} /\ HeldToCome = {}
    BY <1>2, NothingToCome DEF IndInv, RunInv
  <2>3. v.state.devices = devices /\ v.state.held = held
    BY <2>1, <2>2 DEF Continues
  <2> QED  BY <2>1, <2>3
<1>16. PICK k \in 0..Len(pending) : Shape(k) /\ Fits(k)
  BY DEF SegmentInv
<1>17. k = 0 /\ Len(pending) = 0
  BY <1>2, <1>16
<1>18. CASE due
  <2>1. /\ c = CheckpointRecords
        /\ Len(c) \in 1..LargestCheckpoint
        /\ c[1] = CheckpointBegin
        /\ \A d : Holds(c, CheckpointDevice(d)) <=> d \in devices
        /\ \A h : Holds(c, CheckpointHeld(h)) <=> h \in held
    BY <1>1, <1>18, CheckpointFits, OfACheckpoint DEF IndInv, TypeOK, RunInv
  <2>2. AboutToBegin'
    <3>1. 1 \in 1..Len(c)
      BY <1>7, <2>1
    <3> QED  BY <1>10, <1>13, <2>1, <3>1 DEF AboutToBegin
  <2>3. Fits(Len(c))'
    <3>1. since' = 0 /\ quiet' = 0
      BY <1>2, <1>18
    <3>2. since' + (Len(pending') - Len(c)) <= Longest + 1 + quiet'
      BY <1>5, <1>7, <1>10, <1>12, <3>1
    <3> QED  BY <1>12, <2>1, <2>2, <3>1, <3>2 DEF Fits
  <2>4. SegmentInv'
    <3>1. Len(c) \in 0..Len(pending')
      BY <1>5, <1>7, <1>10
    <3> QED  BY <1>11, <2>3, <3>1 DEF SegmentInv
  <2>5. DevicesToCome' = devices' /\ HeldToCome' = held'
    <3>1. \A r : Holds((c \o t) \o u, r) <=> Holds(c, r) \/ Holds(t, r) \/ Holds(u, r)
      <4>1. \A r : Holds(c \o t, r) <=> Holds(c, r) \/ Holds(t, r)
        BY <1>4, <1>5, HoldsBoth
      <4>2. \A r : Holds((c \o t) \o u, r) <=> Holds(c \o t, r) \/ Holds(u, r)
        BY <1>5, <1>6, HoldsBoth
      <4> QED  BY <4>1, <4>2
    <3>2. \A r : Holds(t, r) \/ Holds(u, r) => r \in {Event(e), Injected(e)}
      BY <1>5 DEF Holds
    <3>3. /\ \A d : CheckpointDevice(d) \notin {Event(e), Injected(e)}
          /\ \A h : CheckpointHeld(h) \notin {Event(e), Injected(e)}
      BY Kinds
    <3>4. /\ \A d : Holds(pending', CheckpointDevice(d)) <=> d \in devices
          /\ \A h : Holds(pending', CheckpointHeld(h)) <=> h \in held
      BY <1>2, <2>1, <3>1, <3>2, <3>3
    <3>5. devices \subseteq Keyboards /\ held \subseteq Held
      BY DEF IndInv, TypeOK
    <3> QED  BY <1>3, <3>4, <3>5 DEF DevicesToCome, HeldToCome
  <2>6. ReplayInv'
    <3>1. ASSUME NEW b \in 1..used', Records'[b] = CheckpointBegin
          PROVE  \E v \in Reading : Reaches(Records', b, v) /\ Continues(v)'
      <4>1. PICK v \in Reading : /\ Reaches(Records, b, v)
                                 /\ v.state.devices = devices /\ v.state.held = held
        BY <1>3, <1>15, <3>1
      <4>2. Continues(v)'
        BY <1>3, <2>2, <4>1 DEF Continues
      <4> QED  BY <1>3, <4>1, <4>2
    <3> QED  BY <2>5, <3>1 DEF ReplayInv
  <2> QED  BY <1>14, <2>4, <2>6
<1>19. CASE ~due
  <2>1. c = <<>> /\ Len(c) = 0
    BY <1>1, <1>19
  <2>2. since + 1 <= Share /\ since' = since /\ quiet' = 0
    <3>1. ~(since >= RecordsPerSegment) /\ ~(since >= Capacity \div 4)
      BY <1>19 DEF CheckpointIsDue
    <3>2. since + 1 <= Share
      BY <1>2, <3>1, TraceAssumption DEF Share
    <3> QED  BY <1>2, <1>19, <3>2
  <2>3. ~AboutToBegin' /\ ~AboutToBegin
    <3>1. 1 \in Len(c) + 1..Len(pending')
      BY <1>5, <1>10, <2>1
    <3>2. Head(pending') \in {Event(e), Injected(e)}
      BY <1>10, <1>13, <3>1
    <3> QED  BY <1>2, <3>2, Kinds DEF AboutToBegin
  <2>4. Fits(0)'
    <3>1. since' + (Len(pending') - 0) <= Longest + 1 + quiet'
      BY <1>2, <1>5, <1>10, <1>12, <2>1, <2>2
    <3>2. PICK b \in 1..used : /\ Records[b] = CheckpointBegin
                               /\ (used - b + 1) + k <= LargestCheckpoint + since
      BY <1>16, <2>3 DEF Fits
    <3>3. (used' - b + 1) + 0 <= LargestCheckpoint + since'
      BY <1>2, <1>3, <1>12, <1>17, <2>2, <3>2
    <3> QED  BY <1>3, <2>3, <3>1, <3>2, <3>3 DEF Fits
  <2>5. SegmentInv'
    <3>1. 0 \in 0..Len(pending')
      BY <1>5, <1>10, <2>1
    <3>2. Shape(0)'
      BY <1>11, <2>1
    <3> QED  BY <2>4, <3>1, <3>2 DEF SegmentInv
  <2>6. DevicesToCome' = {} /\ HeldToCome' = {}
    <3>1. pending' \in Seq(OfTheRun)
      BY <1>2, <1>6
    <3>2. \A i \in 1..Len(pending') : pending'[i] \in {Event(e), Injected(e)}
      BY <1>10, <2>1
    <3>3. /\ \A d : CheckpointDevice(d) \notin {Event(e), Injected(e)}
          /\ \A h : CheckpointHeld(h) \notin {Event(e), Injected(e)}
      BY Kinds
    <3> QED  BY <3>2, <3>3 DEF DevicesToCome, HeldToCome, Holds
  <2>7. ReplayInv'
    <3>1. ASSUME NEW b \in 1..used', Records'[b] = CheckpointBegin
          PROVE  \E v \in Reading : Reaches(Records', b, v) /\ Continues(v)'
      <4>1. PICK v \in Reading : /\ Reaches(Records, b, v)
                                 /\ v.state.devices = devices /\ v.state.held = held
        BY <1>3, <1>15, <3>1
      <4>2. Continues(v)'
        BY <1>3, <2>6, <4>1 DEF Continues
      <4> QED  BY <1>3, <4>1, <4>2
    <3> QED  BY <2>3, <3>1 DEF ReplayInv
  <2> QED  BY <1>14, <2>5, <2>7
<1> QED  BY <1>18, <1>19

LEMMA SameSink ==
  ASSUME UNCHANGED <<ring, pending, since, quiet, sink>>, SegmentInv, Headed, ReplayInv
  PROVE  SegmentInv' /\ Headed' /\ ReplayInv'
<1>1. Records' = Records /\ used' = used
  BY DEF ring, Records, ReadBy, Header
<1>2. SegmentInv'
  BY <1>1 DEF SegmentInv, Shape, Fits, AboutToBegin, InACheckpoint
<1>3. Headed'
  BY <1>1 DEF Headed, AboutToBegin
<1>4. ReplayInv'
  BY <1>1 DEF ReplayInv, Continues, AboutToBegin, DevicesToCome, HeldToCome, sink
<1> QED  BY <1>2, <1>3, <1>4

LEMMA StartsHeaded == RoomForASegment /\ Init => SinkInv
<1> SUFFICES ASSUME RoomForASegment, Init, side = "Sink" PROVE SegmentInv /\ Headed /\ ReplayInv
  BY DEF SinkInv
<1>1. /\ pending = <<CheckpointBegin>> /\ Len(pending) = 1 /\ pending[1] = CheckpointBegin
      /\ used = 0 /\ since = 0 /\ quiet = 0 /\ devices = {} /\ held = {}
  BY DEF Init
<1>2. AboutToBegin
  BY <1>1 DEF AboutToBegin
<1>3. Shape(1)
  BY <1>1, Kinds DEF Shape, InACheckpoint
<1>4. LargestCheckpoint \in Nat /\ LargestCheckpoint >= 1 /\ Longest \in Nat
  <2>1. LargestCheckpoint \in Nat /\ Longest \in Nat
    BY Sizes DEF RoomForASegment
  <2>2. Cardinality(Keyboards) \in Nat /\ Cardinality(Held) \in Nat
    BY Sizes, FS_CardinalityType DEF RoomForASegment
  <2> QED  BY <2>1, <2>2 DEF LargestCheckpoint
<1>5. Fits(1)
  BY <1>1, <1>2, <1>4 DEF Fits
<1>6. DevicesToCome = {} /\ HeldToCome = {}
  BY <1>1, Kinds DEF DevicesToCome, HeldToCome, Holds
<1>7. SegmentInv
  BY <1>1, <1>3, <1>5 DEF SegmentInv
<1> QED  BY <1>1, <1>2, <1>6, <1>7 DEF Headed, ReplayInv

LEMMA SinkStep == RoomForASegment /\ IndInv /\ IndInv' /\ SinkInv /\ [Next]_vars => SinkInv'
<1> SUFFICES ASSUME RoomForASegment, IndInv, IndInv', SinkInv, [Next]_vars, side' = "Sink"
             PROVE  SegmentInv' /\ Headed' /\ ReplayInv'
  BY DEF SinkInv
<1>1. side' = side
  BY DEF Next, vars, WriteHeader, PushNext, HandOverARecord, HandleTraced, RecordForReading,
         SourceRecords
<1>2. side = "Sink" /\ SegmentInv /\ Headed /\ ReplayInv
  BY <1>1 DEF SinkInv
<1>3. CASE WriteHeader
  BY <1>2, <1>3, SameSink DEF WriteHeader
<1>4. CASE PushNext
  BY <1>2, <1>4, PushNextFits, PushNextReplays
<1>5. CASE HandOverARecord
  BY <1>2, <1>5, SameSink DEF HandOverARecord
<1>6. CASE \E e \in Events, late \in BOOLEAN : HandleTraced(e, late)
  BY <1>2, <1>6, HandleTracedKeepsSink
<1>7. CASE \E record \in Recorded : RecordForReading(record)
  BY <1>2, <1>7, RecordForReadingKeepsSink
<1>8. CASE \E record \in SourceRecord : SourceRecords(record)
  BY <1>2, <1>8 DEF SourceRecords
<1>9. CASE UNCHANGED vars
  BY <1>2, <1>9, SameSink DEF vars
<1> QED  BY <1>3, <1>4, <1>5, <1>6, <1>7, <1>8, <1>9 DEF Next

LEMMA SinkReplays == IndInv /\ SinkInv => ReplayReproduces
<1> SUFFICES ASSUME IndInv, SinkInv, side = "Sink"
             PROVE  /\ BeginsAtACheckpoint(Records)
                    /\ CheckpointWhole =>
                         \A i \in Begins(Records) :
                           ReplayFrom(Records, i) = [devices |-> devices, held |-> held]
  BY DEF ReplayReproduces, IndInv
<1>1. SegmentInv /\ Headed /\ ReplayInv
  BY DEF SinkInv
<1> DEFINE either == Record \cup {NeverWritten}
<1>2. Records \in Seq(either) /\ Len(Records) = used /\ used \in Nat
  BY ReadOff, TraceAssumption DEF IndInv, TypeOK
<1> HIDE DEF either
<1>3. BeginsAtACheckpoint(Records)
  <2> SUFFICES ASSUME NEW n \in Own(Records), \A m \in Own(Records) : n <= m
               PROVE  n \in Begins(Records)
    BY DEF BeginsAtACheckpoint
  <2>1. n \in 1..used
    BY <1>2 DEF Own
  <2>2. Records[1] = CheckpointBegin /\ 1 \in 1..used
    BY <1>1, <1>2, <2>1 DEF Headed
  <2>3. 1 \in Own(Records)
    BY <1>2, <2>2, Kinds DEF Own
  <2>4. n = 1
    BY <2>1, <2>3
  <2> QED  BY <2>2, <2>3, <2>4 DEF Begins
<1>4. ASSUME CheckpointWhole, NEW i \in Begins(Records)
      PROVE  ReplayFrom(Records, i) = [devices |-> devices, held |-> held]
  <2>1. i \in 1..Len(Records) /\ i \in 1..used /\ Records[i] = CheckpointBegin
    BY <1>2 DEF Begins, Own
  <2>2. PICK v \in Reading : Reaches(Records, i, v) /\ Continues(v)
    BY <1>1, <2>1 DEF ReplayInv
  <2>3. DevicesToCome = {} /\ HeldToCome = {}
    BY <1>1, <1>4, NothingToCome DEF CheckpointWhole, IndInv, RunInv
  <2>4. v.state.devices = devices /\ v.state.held = held
    BY <2>2, <2>3 DEF Continues
  <2>5. v.state = [devices |-> devices, held |-> held]
    BY <2>4 DEF Reading
  <2>6. ReplayFrom(Records, i) = v.state
    BY <1>2, <2>1, <2>2, ReplayIs
  <2> QED  BY <2>5, <2>6
<1> QED  BY <1>3, <1>4

(* Whatever the run is given to handle and whatever is recorded in         *)
(* between, in a region with room for one segment: the oldest record of    *)
(* this machine still there is a checkpoint, and a replay from any of them *)
(* that is whole arrives at the state the run is in.                       *)
THEOREM EverySegmentReplays ==
  ASSUME RoomForASegment
  PROVE  Spec => []ReplayReproduces
<1>1. Init => IndInv /\ SinkInv
  BY Start, StartsHeaded
<1>2. IndInv /\ SinkInv /\ [Next]_vars => IndInv' /\ SinkInv'
  BY Step, SinkStep
<1>3. IndInv /\ SinkInv => ReplayReproduces
  BY SinkReplays
<1> QED  BY <1>1, <1>2, <1>3, PTL DEF Spec
=============================================================================
