------------------------------- MODULE Frames -------------------------------
(***************************************************************************)
(* What two ends that share no memory agree on byte for byte: the frames   *)
(* of the link (link-wire/src/lib.rs, engine/src/link.rs) and the records  *)
(* of a recording (engine/src/trace.rs), which cross the link as they are. *)
(*                                                                         *)
(* A kind of message is the number in its first byte and the place of each *)
(* of its fields.  A number wider than a byte is the bytes it is written   *)
(* as, but where its sign or its size matters.                             *)
(***************************************************************************)
EXTENDS KeyCodes, FiniteSetsExt

FRAME == 40
RECORDED == 32

-----------------------------------------------------------------------------
(* Bytes, and the four forms a field has.                                  *)
Blank(size) == [i \in 0..size - 1 |-> 0]
Put(bytes, at, value) == [i \in at..at + Len(value) - 1 |-> value[i - at + 1]] @@ bytes
Cut(bytes, at, width) == [i \in 1..width |-> bytes[at + i - 1]]

Absent == <<>>
Unread == [kind |-> "unread"]
Number(at, width) == [form |-> "number", at |-> at, width |-> width]
Flag(at) == [form |-> "flag", at |-> at]
KeyByte(at) == [form |-> "key", at |-> at]
Option(flag, at, width) == [form |-> "option", flag |-> flag, at |-> at, width |-> width]
Signed(at, width) == [form |-> "signed", at |-> at, width |-> width]

(* Little-endian two's complement, the top byte carrying the sign; and what *)
(* a number narrower than the field's own is brought to.                   *)
ToLe(n, width) == [i \in 1..width |-> (n \div 256^(i - 1)) % 256]
FromLe(bytes) ==
  LET top == bytes[Len(bytes)]
      place(i) == IF i < Len(bytes) THEN bytes[i] * 256^(i - 1)
                  ELSE (IF top >= 128 THEN top - 256 ELSE top) * 256^(i - 1)
  IN MapThenSumSet(place, DOMAIN bytes)
Clamped(n, low, high) == IF n < low THEN low ELSE IF n > high THEN high ELSE n
Narrowed(n, width) == IF width = 2 THEN Clamped(n, -32768, 32767) ELSE n

Written(bytes, field, value) ==
  CASE field.form = "number" -> Put(bytes, field.at, value)
    [] field.form = "flag" -> Put(bytes, field.at, <<IF value THEN 1 ELSE 0>>)
    [] field.form = "key" -> Put(bytes, field.at, <<Code(value)>>)
    [] field.form = "signed" ->
         Put(bytes, field.at, ToLe(Narrowed(value, field.width), field.width))
    [] field.form = "option" ->
         IF value = Absent THEN bytes ELSE Put(Put(bytes, field.flag, <<1>>), field.at, value)
Read(bytes, field) ==
  CASE field.form = "number" -> Cut(bytes, field.at, field.width)
    [] field.form = "flag" -> bytes[field.at] # 0
    [] field.form = "key" -> FromCode(bytes[field.at])
    [] field.form = "signed" -> FromLe(Cut(bytes, field.at, field.width))
    [] field.form = "option" ->
         IF bytes[field.flag] = 0 THEN Absent ELSE Cut(bytes, field.at, field.width)

Filled(bytes, fields, message) ==
  FoldSet(LAMBDA name, so_far : Written(so_far, fields[name], message[name]), bytes,
          DOMAIN fields)
(* A key nothing is numbered as makes the whole of it unread.              *)
ReadAs(kind, fields, bytes) ==
  LET said == [name \in DOMAIN fields |-> Read(bytes, fields[name])]
  IN IF \E name \in DOMAIN fields : fields[name].form = "key" /\ said[name] = NoKey
     THEN Unread ELSE [kind |-> kind] @@ said

-----------------------------------------------------------------------------
(* The link.                                                               *)
LinkKinds == <<"DeviceAttached", "DeviceDetached", "KeyDown", "KeyUp", "Pointer",
               "StillHere", "Recorded">>
DEVICE == [device |-> Number(1, 8)]
Axis(at) == Signed(at, 4)
LinkFields ==
  [DeviceAttached |-> DEVICE @@ [is_built_in |-> Flag(9), vendor_id |-> Option(10, 11, 2),
                                 product_id |-> Option(13, 14, 2)],
   DeviceDetached |-> DEVICE,
   KeyDown |-> DEVICE @@ [key |-> KeyByte(9)],
   KeyUp |-> DEVICE @@ [key |-> KeyByte(9)],
   Pointer |-> DEVICE @@ [dx |-> Axis(9), dy |-> Axis(13), vertical_wheel |-> Axis(17),
                          horizontal_wheel |-> Axis(21), buttons |-> Number(25, 4)],
   StillHere |-> <<>>,
   Recorded |-> [record |-> Number(1, RECORDED)]]

Encode(message) ==
  LET kind == CHOOSE k \in DOMAIN LinkKinds : LinkKinds[k] = message.kind
  IN Filled(Put(Blank(FRAME), 0, <<kind>>), LinkFields[message.kind], message)

VendorByZero(fields) ==   \* mutant: a vendor of zero is none
  [fields EXCEPT !.DeviceAttached.vendor_id = Option(11, 11, 2)]
Sender == Number(1, 8)
LinkRead ==
  [DeviceAttached |-> [device |-> Sender, is_built_in |-> Flag(9),
                       vendor_id |-> Option(10, 11, 2), product_id |-> Option(13, 14, 2)],
   DeviceDetached |-> [device |-> Sender],
   StillHere |-> <<>>,
   Recorded |-> [record |-> Number(1, RECORDED)],
   KeyDown |-> [device |-> Sender, key |-> KeyByte(9)],
   KeyUp |-> [device |-> Sender, key |-> KeyByte(9)],
   Pointer |-> [device |-> Sender, dx |-> Signed(9, 4), dy |-> Signed(13, 4),
                vertical_wheel |-> Signed(17, 4), horizontal_wheel |-> Signed(21, 4),
                buttons |-> Number(25, 4)]]
ByItsFlag(fields) == fields
Decode(frame) ==
  IF frame[0] \notin DOMAIN LinkKinds THEN Unread
  ELSE ReadAs(LinkKinds[frame[0]], ByItsFlag(LinkRead)[LinkKinds[frame[0]]], frame)

(* Who a frame is about, read without reading what it says of them.        *)
NoDevice == [seen |-> "NoDevice"]
Device(id) == [seen |-> "Device", device |-> id]
Detached(id) == [seen |-> "Detached", device |-> id]
SeenIn(frame) ==
  IF frame[0] \notin DOMAIN LinkKinds THEN Unread
  ELSE LET kind == LinkKinds[frame[0]]
           id == Cut(frame, 1, 8)
       IN CASE kind \in {"StillHere", "Recorded"} -> NoDevice
            [] kind = "DeviceDetached" -> Detached(id)
            [] OTHER -> Device(id)

(* The other machine's devices get numbers no device here has.             *)
REMOTE == 128
FromSource(id) == [id EXCEPT ![8] = IF @ >= REMOTE THEN @ ELSE @ + REMOTE]
IsFromSource(id) == id[8] >= REMOTE

Relayed == {"DeviceAttached", "DeviceDetached", "KeyDown", "KeyUp", "Pointer"}
Nothing == [kind |-> "nothing"]
MessageOf(event) == IF event.kind \in Relayed THEN event ELSE Nothing
FromThePeer(message) ==
  IF message.kind \in Relayed THEN [message EXCEPT !.device = FromSource(@)] ELSE Nothing

-----------------------------------------------------------------------------
(* A recording.  A kind with more than one shape has the shape's number in *)
(* the second byte; every other kind has the one.                           *)
NoShape == 256
Numbered(kind, shape) == [kind |-> kind, shape |-> shape]
RecordKinds ==
  [CheckpointBegin |-> Numbered(1, 0), CheckpointRepeating |-> Numbered(1, 1),
   CheckpointDevice |-> Numbered(2, NoShape),
   HeldDown |-> Numbered(3, 1), HeldSwallowed |-> Numbered(3, 2),
   HeldHenkan |-> Numbered(3, 3), HeldUndecided |-> Numbered(3, 4),
   DeviceAttached |-> Numbered(10, NoShape), DeviceDetached |-> Numbered(11, NoShape),
   KeyDown |-> Numbered(12, NoShape), KeyUp |-> Numbered(13, NoShape), Pointer |-> Numbered(14, NoShape),
   Timer |-> Numbered(15, NoShape), Probe |-> Numbered(16, NoShape), Asked |-> Numbered(17, NoShape),
   InjectedKeyDown |-> Numbered(20, NoShape), InjectedKeyUp |-> Numbered(21, NoShape),
   InjectedPointer |-> Numbered(22, NoShape), InjectedModifiers |-> Numbered(24, NoShape),
   Sent |-> Numbered(30, NoShape), Received |-> Numbered(31, NoShape), LinkEnded |-> Numbered(32, NoShape),
   Served |-> Numbered(40, NoShape), OutputEnded |-> Numbered(41, NoShape)]
FROM_THE_SOURCE == 128

MODIFIERS_AT_FOUR == 4   \* mutant: where the one byte they were had room
MODIFIER_KEYS == 24
Modifiers == Number(MODIFIER_KEYS, 2)
EncodePointer == [dx |-> Signed(16, 2), dy |-> Signed(18, 2),
                  vertical_wheel |-> Signed(20, 2), horizontal_wheel |-> Signed(22, 2)]
InfoFields == [id |-> Number(8, 8), is_built_in |-> Flag(1), vendor_id |-> Option(2, 16, 2),
               product_id |-> Option(3, 18, 2)]
KeyFields == [device |-> Number(8, 8), key |-> KeyByte(2)]
EventFields(fields) == fields @@ [at |-> Number(24, 8)]
InjectedFields(fields) == fields @@ [rendered |-> Flag(1), code |-> Number(8, 4)]
ButtonsAt == [buttons |-> Number(4, 4)]
RecordFields ==
  [CheckpointBegin |-> ButtonsAt,
   CheckpointRepeating |-> ButtonsAt @@ KeyFields @@ [due |-> Number(16, 8)],
   CheckpointDevice |-> InfoFields,
   HeldDown |-> KeyFields @@ [down |-> KeyByte(3), modifiers |-> Modifiers],
   HeldSwallowed |-> KeyFields,
   HeldHenkan |-> KeyFields,
   HeldUndecided |-> KeyFields
     @@ [hold |-> KeyByte(3), tap |-> KeyByte(5), alone |-> Flag(6), deadline |-> Number(16, 8),
         sent |-> Option(7, MODIFIER_KEYS, 2)],
   DeviceAttached |-> EventFields(InfoFields),
   DeviceDetached |-> EventFields([device |-> Number(8, 8)]),
   KeyDown |-> EventFields(KeyFields),
   KeyUp |-> EventFields(KeyFields),
   Pointer |-> EventFields([device |-> Number(8, 8)] @@ EncodePointer @@ ButtonsAt),
   Timer |-> EventFields(<<>>),
   Probe |-> EventFields(<<>>),
   Asked |-> EventFields([the_sink |-> Flag(1)]),
   Sent |-> [number |-> Number(16, 8), code |-> Number(8, 4)],
   Received |-> [number |-> Number(16, 8)],
   LinkEnded |-> [why |-> Number(4, 4)],
   Served |-> [frame |-> Number(4, 4), code |-> Number(8, 4)],
   OutputEnded |-> [why |-> Number(4, 4)],
   InjectedKeyDown |-> InjectedFields([key |-> KeyByte(2), modifiers |-> Modifiers]),
   InjectedKeyUp |-> InjectedFields([key |-> KeyByte(2), modifiers |-> Modifiers]),
   InjectedModifiers |-> InjectedFields([modifiers |-> Modifiers]),
   InjectedPointer |-> InjectedFields(EncodePointer @@ ButtonsAt)]

EncodeRecord(record) ==
  LET number == RecordKinds[record.kind]
      begun == Put(Blank(RECORDED), 0,
                   <<number.kind, IF number.shape = NoShape THEN 0 ELSE number.shape>>)
  IN Filled(begun, RecordFields[record.kind], record)
Marked(bytes) == [bytes EXCEPT ![0] = IF @ >= FROM_THE_SOURCE THEN @ ELSE @ + FROM_THE_SOURCE]

(* What a reader takes from the same place whatever the kind.              *)
flag == Flag(1)
code == Number(8, 4)
sequence == Number(16, 8)
key_a == KeyByte(2)
key_b == KeyByte(3)
buttons == Number(4, 4)
device == Number(8, 8)
payload_at == Number(16, 8)
at == Number(24, 8)
info == [id |-> device, is_built_in |-> flag, vendor_id |-> Option(2, 16, 2),
         product_id |-> Option(3, 18, 2)]
DecodePointer == [dx |-> Signed(16, 2), dy |-> Signed(18, 2),
                  vertical_wheel |-> Signed(20, 2), horizontal_wheel |-> Signed(22, 2),
                  buttons |-> buttons]
RecordRead ==
  [CheckpointBegin |-> [buttons |-> buttons],
   CheckpointRepeating |-> [buttons |-> buttons, device |-> device, key |-> key_a,
                            due |-> payload_at],
   CheckpointDevice |-> info,
   HeldDown |-> [device |-> device, key |-> key_a, down |-> key_b, modifiers |-> Modifiers],
   HeldSwallowed |-> [device |-> device, key |-> key_a],
   HeldHenkan |-> [device |-> device, key |-> key_a],
   HeldUndecided |-> [device |-> device, key |-> key_a, hold |-> key_b, tap |-> KeyByte(5),
                      deadline |-> payload_at, sent |-> Option(7, MODIFIER_KEYS, 2),
                      alone |-> Flag(6)],
   DeviceAttached |-> info @@ [at |-> at],
   DeviceDetached |-> [at |-> at, device |-> device],
   KeyDown |-> [at |-> at, device |-> device, key |-> key_a],
   KeyUp |-> [at |-> at, device |-> device, key |-> key_a],
   Pointer |-> DecodePointer @@ [at |-> at, device |-> device],
   Timer |-> [at |-> at],
   Probe |-> [at |-> at],
   Asked |-> [at |-> at, the_sink |-> flag],
   InjectedKeyDown |-> [key |-> key_a, modifiers |-> Modifiers, rendered |-> flag, code |-> code],
   InjectedKeyUp |-> [key |-> key_a, modifiers |-> Modifiers, rendered |-> flag, code |-> code],
   InjectedPointer |-> DecodePointer @@ [rendered |-> flag, code |-> code],
   InjectedModifiers |-> [modifiers |-> Modifiers, rendered |-> flag, code |-> code],
   Sent |-> [number |-> sequence, code |-> code],
   Received |-> [number |-> sequence],
   LinkEnded |-> [why |-> Number(4, 4)],
   Served |-> [frame |-> Number(4, 4), code |-> code],
   OutputEnded |-> [why |-> Number(4, 4)]]

(* What went over the output's connection and why a connection ended are   *)
(* numbers in a record, and names again to whoever reads it; a number      *)
(* without a name is not guessed at.                                       *)
Served == [Beat |-> 0, HealthCheckAnswer |-> 1, Acknowledgement |-> 2]
ServedFromNumber == <<"Beat", "HealthCheckAnswer", "Acknowledgement">>
Lost ==
  [ReadsWillNotBound |-> 0, ServiceClosedIt |-> 1, BeatWillNotGo |-> 2,
   HealthCheckAnswerWillNotGo |-> 3, AcknowledgementWillNotGo |-> 4, FrameArrivedInPieces |-> 5]
LostFromNumber ==
  <<"ReadsWillNotBound", "ServiceClosedIt", "BeatWillNotGo", "HealthCheckAnswerWillNotGo",
    "AcknowledgementWillNotGo", "FrameArrivedInPieces">>
Refused ==
  [Ended |-> 0, CannotConfigure |-> 1, HandshakeIncomplete |-> 2, NotPaired |-> 3,
   RecordWillNotOpen |-> 4, FrameWillNotRead |-> 5, ConverterStopped |-> 6]
EndedIsNotNamed ==                             \* mutant: counted from the first with a fault
  <<"CannotConfigure", "HandshakeIncomplete", "NotPaired", "RecordWillNotOpen",
    "FrameWillNotRead", "ConverterStopped">>
RefusedFromNumber ==
  <<"Ended", "CannotConfigure", "HandshakeIncomplete", "NotPaired", "RecordWillNotOpen",
    "FrameWillNotRead", "ConverterStopped">>
Unnamed == "unnamed"
NumberedAs(n) == <<n, 0, 0, 0>>
FromNumber(names, bytes) ==
  IF \E n \in DOMAIN names : bytes = NumberedAs(n - 1)
  THEN names[CHOOSE n \in DOMAIN names : bytes = NumberedAs(n - 1)]
  ELSE Unnamed

(* Which machine wrote it is no part of what it says.  A checkpoint's flag *)
(* is any byte but zero; a frame of the output's that has no name is not   *)
(* read.                                                                   *)
MarkIsRead(byte) == byte                       \* mutant: the mark is left on the kind
WithoutTheMark(byte) == byte % FROM_THE_SOURCE
DecodeRecord(bytes) ==
  LET shape == IF WithoutTheMark(bytes[0]) = 1 /\ bytes[1] # 0 THEN 1 ELSE bytes[1]
      kinds == {k \in DOMAIN RecordKinds : /\ RecordKinds[k].kind = WithoutTheMark(bytes[0])
                                           /\ RecordKinds[k].shape \in {NoShape, shape}}
  IN IF kinds = {} THEN Unread
     ELSE LET kind == CHOOSE k \in kinds : TRUE
              record == ReadAs(kind, RecordRead[kind], bytes)
          IN IF kind = "Served" /\ FromNumber(ServedFromNumber, record.frame) = Unnamed THEN Unread ELSE record

-----------------------------------------------------------------------------
(* Whatever one end says is what the other reads: every message of the     *)
(* link and every record of a recording, with each of its fields at the    *)
(* ends of its range and absent where it may be.  A record says the same   *)
(* once it has crossed the link and been marked as the other machine's; a  *)
(* motion too long for a recording is the longest one.  Who a frame is     *)
(* about is told without reading it; and a device of the other machine is  *)
(* one device here, and none of those here.  A reason recorded by its      *)
(* number is read by the name it was given.                                *)
Bytes(width) == {[i \in 1..width |-> 0], [i \in 1..width |-> i],
                 [i \in 1..width |-> IF i = width THEN 127 ELSE 255]}
Values(field) ==
  CASE field.form = "number" -> IF field.width = 4 THEN Bytes(4) \cup {<<1, 0, 0, 0>>}
                                ELSE Bytes(field.width)
    [] field.form = "flag" -> BOOLEAN
    [] field.form = "key" -> {"A", "RightShift", "VolumeUp"}
    [] field.form = "option" -> Bytes(field.width) \cup {Absent}
    [] field.form = "signed" -> {-1, 40000, -2147483647}
Messages(kind, fields) ==
  FoldSet(LAMBDA name, so_far : {m @@ (name :> v) : m \in so_far, v \in Values(fields[name])},
          {[kind |-> kind]}, DOMAIN fields)
Tellable(record) == record.kind = "Served" => FromNumber(ServedFromNumber, record.frame) # Unnamed
AsRecorded(record) ==
  [name \in DOMAIN record |-> IF name \in DOMAIN EncodePointer THEN Narrowed(record[name], 2)
                              ELSE record[name]]

TellsWhoItIsAbout(message) ==
  SeenIn(Encode(message)) = IF message.kind \notin Relayed THEN NoDevice
                            ELSE IF message.kind = "DeviceDetached" THEN Detached(message.device)
                            ELSE Device(message.device)
HeardAsSaid(event) ==
  LET heard == FromThePeer(Decode(Encode(MessageOf(event))))
  IN /\ [heard EXCEPT !.device = event.device] = event
     /\ IsFromSource(heard.device) /\ ~IsFromSource(event.device)
MeansTheSame(kind, field, numbers, names) ==
  \A reason \in DOMAIN numbers :
    LET said == ("kind" :> kind) @@ (field :> NumberedAs(numbers[reason]))
                  @@ ("code" :> NumberedAs(0))
    IN FromNumber(names, DecodeRecord(EncodeRecord(said))[field]) = reason
SaidIsRead ==
  /\ \A kind \in ToSet(LinkKinds) : \A message \in Messages(kind, LinkFields[kind]) :
       /\ Decode(Encode(message)) = message
       /\ TellsWhoItIsAbout(message)
       /\ kind \in Relayed => HeardAsSaid(message)
  /\ \A a, b \in Bytes(8) : FromSource(a) = FromSource(b) => a = b
  /\ \A kind \in DOMAIN RecordFields :
       \A record \in {r \in Messages(kind, RecordFields[kind]) : Tellable(r)} :
         LET bytes == EncodeRecord(record)
             crossed == Decode(Encode([kind |-> "Recorded", record |-> Cut(bytes, 0, RECORDED)]))
             arrived == [i \in 0..RECORDED - 1 |-> crossed.record[i + 1]]
         IN DecodeRecord(bytes) = AsRecorded(record)
            /\ DecodeRecord(Marked(arrived)) = AsRecorded(record)
  /\ MeansTheSame("Served", "frame", Served, ServedFromNumber)
  /\ MeansTheSame("OutputEnded", "why", Lost, LostFromNumber)
  /\ MeansTheSame("LinkEnded", "why", Refused, RefusedFromNumber)
=============================================================================
