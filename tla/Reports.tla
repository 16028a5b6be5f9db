------------------------------ MODULE Reports -------------------------------
(***************************************************************************)
(* What the converting machine tells the output service, byte for byte:    *)
(* the reports of the device (hid/src/report.rs), the requests that carry  *)
(* them (host-macos/src/vhid.rs), the frames around both                   *)
(* (engine/src/output.rs), and what a run that injects nothing shows of    *)
(* them (engine/src/sink.rs Describing).                                   *)
(*                                                                         *)
(* Bytes are sequences here, and a length of more than three bytes is one  *)
(* whose top byte is zero.                                                 *)
(***************************************************************************)
EXTENDS Frames

Zeros(count) == [i \in 1..count |-> 0]
Unsigned(bytes) ==
  LET place(i) == IF bytes[i] = 0 THEN 0 ELSE bytes[i] * 256^(i - 1)
  IN MapThenSumSet(place, DOMAIN bytes)
ToBe(n, width) == Zeros(width - 3) \o Reverse(ToLe(n, 3))
FromBe(bytes) == Unsigned(Reverse(bytes))
Ne(n, width) == ToLe(n, 3) \o Zeros(width - 3)

-----------------------------------------------------------------------------
(* The slots of a report.  A usage takes the first that is free, and is in *)
(* one at most; where none is free it is left out.                         *)
SLOTS == 32
NoKeys == Zeros(SLOTS)
Usages(keys) == ToSet(keys) \ {0}
PressAgain(keys, usage) ==   \* mutant: without a look at what is down
  LET free == {slot \in DOMAIN keys : keys[slot] = 0}
  IN IF free = {} THEN keys ELSE [keys EXCEPT ![Min(free)] = usage]
Press(keys, usage) ==
  LET free == {slot \in DOMAIN keys : keys[slot] = 0}
  IN IF usage \in Usages(keys) \/ free = {} THEN keys ELSE [keys EXCEPT ![Min(free)] = usage]
Release(keys, usage) == [slot \in DOMAIN keys |-> IF keys[slot] = usage THEN 0 ELSE keys[slot]]

WriteSlots(keys) == FlattenSeq([slot \in DOMAIN keys |-> ToLe(keys[slot], 2)])
ReadSlots(bytes) == [slot \in 1..SLOTS |-> bytes[2 * slot - 1] + 256 * bytes[2 * slot]]

-----------------------------------------------------------------------------
(* Modifier keys: the bits of a report's byte, in the order its descriptor *)
(* declares them, and the bits they are kept as, whose order is the run's  *)
(* own and has room for the lock.                                          *)
SumOfBits(order, held) ==
  LET bit(n) == IF order[n] \in held THEN 2^(n - 1) ELSE 0
  IN MapThenSumSet(bit, DOMAIN order)
InBits(order, bits) == {order[n] : n \in {m \in DOMAIN order : (bits \div 2^(m - 1)) % 2 = 1}}
MODIFIER_BITS == <<"LeftControl", "LeftShift", "LeftOption", "LeftCommand",
                   "RightControl", "RightShift", "RightOption", "RightCommand">>
ORDER == MODIFIER_BITS \o <<"CapsLock">>
Kept(held) == ToLe(SumOfBits(ORDER, held), 2)
FromKept(bytes) == InBits(ORDER, Unsigned(bytes))

-----------------------------------------------------------------------------
(* The reports.  One id to a page, and one to the keyboard's; the pointing *)
(* report has none.                                                        *)
KEYBOARD_REPORT_ID == 1
ControlId == [Consumer |-> 2, AppleVendorTopCase |-> 3, AppleVendorKeyboard |-> 4, GenericDesktop |-> 7]
ControlPage == DOMAIN ControlId
PageOf(page) ==
  CASE page = CONSUMER -> "Consumer"
    [] page = APPLE_VENDOR_TOP_CASE -> "AppleVendorTopCase"
    [] page = APPLE_VENDOR_KEYBOARD -> "AppleVendorKeyboard"
    [] page = GENERIC_DESKTOP -> "GenericDesktop"
    [] OTHER -> NoKey

KeyboardReport(held, keys) == [report |-> "Keyboard", modifiers |-> held, keys |-> keys]
KeyboardBytes(r) ==
  <<KEYBOARD_REPORT_ID, SumOfBits(MODIFIER_BITS, r.modifiers), 0>> \o WriteSlots(r.keys)
KeyboardFrom(bytes) ==
  IF Len(bytes) # 67 \/ Head(bytes) # KEYBOARD_REPORT_ID THEN Unread
  ELSE KeyboardReport(InBits(MODIFIER_BITS, bytes[2]), ReadSlots(SubSeq(bytes, 4, 67)))

ControlReport(page, keys) == [report |-> page, keys |-> keys]
ControlBytes(r) == <<ControlId[r.report]>> \o WriteSlots(r.keys)
ControlFrom(page, bytes) ==
  IF Len(bytes) # 65 \/ Head(bytes) # ControlId[page] THEN Unread
  ELSE ControlReport(page, ReadSlots(Tail(bytes)))

PointerAxes == <<"dx", "dy", "vertical_wheel", "horizontal_wheel">>
PointerReport(held, axes) == [report |-> "Pointing", buttons |-> held, axes |-> axes]
PointingBytes(r) ==
  r.buttons \o [n \in DOMAIN PointerAxes |-> ToLe(Clamped(r.axes[PointerAxes[n]], -128, 127), 1)[1]]
PointingFrom(bytes) ==
  IF Len(bytes) # 8 THEN Unread
  ELSE PointerReport(SubSeq(bytes, 1, 4),
         [axis \in ToSet(PointerAxes) |->
            FromLe(<<bytes[4 + (CHOOSE n \in DOMAIN PointerAxes : PointerAxes[n] = axis)]>>)])

BytesOf(r) ==
  CASE r.report = "Keyboard" -> KeyboardBytes(r)
    [] r.report = "Pointing" -> PointingBytes(r)
    [] OTHER -> ControlBytes(r)

-----------------------------------------------------------------------------
(* What goes out: a frame is its length, its type and its body, and a      *)
(* request is one whose body is an id nothing else has, and what is asked. *)
HEARTBEAT == 0
HEALTH_CHECK == 2
HEALTH_CHECK_RESPONSE == 3
REQUEST == 4
RESPONSE == 5
LENGTH == 4
ID == 8
CLIENT_PROTOCOL_VERSION == 7
Framed(type, payload) == ToBe(1 + Len(payload), LENGTH) \o <<type>> \o payload
Request(id, what, payload) ==
  LET body == Ne(CLIENT_PROTOCOL_VERSION, 3) IN
  ToBe(1 + ID + 3 + Len(payload), LENGTH) \o <<REQUEST>> \o ToBe(id, ID)
    \o SubSeq(body, 1, 2) \o <<what>> \o payload

VIRTUAL_HID_KEYBOARD_INITIALIZE == 0
VIRTUAL_HID_POINTING_INITIALIZE == 3
ByTheirIds ==   \* mutant: the two vendor reports posted in the order of their ids
  [Keyboard |-> 6, Consumer |-> 7, AppleVendorTopCase |-> 8, AppleVendorKeyboard |-> 9,
   GenericDesktop |-> 10, Pointing |-> 11]
RequestFor ==
  [Keyboard |-> 6, Consumer |-> 7, AppleVendorKeyboard |-> 8, AppleVendorTopCase |-> 9,
   GenericDesktop |-> 10, Pointing |-> 11]
Post(id, r) == Request(id, RequestFor[r.report], BytesOf(r))

VIRTUAL_KEYBOARD == [vendor |-> 5824, product |-> 10203]
IGNORE == {VIRTUAL_KEYBOARD, [vendor |-> 1452, product |-> 591]}
COUNTRY_CODE_US == 33
KeyboardParameters ==
  Ne(VIRTUAL_KEYBOARD.vendor, 8) \o Ne(VIRTUAL_KEYBOARD.product, 8) \o Ne(COUNTRY_CODE_US, 8)

(* Letting go of the connection says that nothing is held and nothing      *)
(* moves, in that order.                                                   *)
NothingIsHeld(id) == Request(id, RequestFor["Keyboard"], <<KEYBOARD_REPORT_ID>> \o Zeros(66))
NothingIsMoving(id) == Request(id, RequestFor["Pointing"], Zeros(8))
LetsGo(id) == NothingIsHeld(id) \o NothingIsMoving(id + 1)

(* One frame off a stream, and the rest of it; and what goes back for it.  *)
ReadFrame(stream) ==
  LET size == FromBe(SubSeq(stream, 1, LENGTH))
  IN [body |-> SubSeq(stream, LENGTH + 1, LENGTH + size),
      rest |-> SubSeq(stream, LENGTH + size + 1, Len(stream))]
AnswerTo(body) ==
  CASE body # <<>> /\ Head(body) = HEALTH_CHECK -> Framed(HEALTH_CHECK_RESPONSE, <<>>)
    [] body # <<>> /\ Head(body) = REQUEST /\ Len(body) >= 1 + ID ->
         Framed(RESPONSE, SubSeq(body, 2, 1 + ID))
    [] OTHER -> <<>>

(* The service: which report each of its requests posts, and what it makes *)
(* of a request of the version it expects.                                 *)
Posts == 6 :> "Keyboard" @@ 7 :> "Consumer" @@ 8 :> "AppleVendorKeyboard"
         @@ 9 :> "AppleVendorTopCase" @@ 10 :> "GenericDesktop" @@ 11 :> "Pointing"
ReportFrom(kind, bytes) ==
  CASE kind = "Keyboard" -> KeyboardFrom(bytes)
    [] kind = "Pointing" -> PointingFrom(bytes)
    [] OTHER -> ControlFrom(kind, bytes)
Heard(body) ==
  IF Head(body) # REQUEST \/ Unsigned(SubSeq(body, 10, 11)) # CLIENT_PROTOCOL_VERSION THEN Unread
  ELSE [id |-> FromBe(SubSeq(body, 2, 9)),
        told |-> IF body[12] \in DOMAIN Posts
                 THEN ReportFrom(Posts[body[12]], SubSeq(body, 13, Len(body)))
                 ELSE [report |-> body[12], bytes |-> SubSeq(body, 13, Len(body))]]

-----------------------------------------------------------------------------
(* What a run that injects nothing shows of a keyboard report: the keys    *)
(* and the modifiers that changed since the one before, by their names.    *)
NamedUsage(usage) == Named(KEYBOARD_OR_KEYPAD, usage)
DownIn(r) == {NamedUsage(usage) : usage \in Usages(r.keys)} \cup r.modifiers
ShownAgain(before, after) == [down |-> DownIn(after), up |-> {}]  \* mutant: nothing comes up
KeyboardDiff(before, after) ==
  [down |-> (after.modifiers \ before.modifiers)
              \cup {NamedUsage(u) : u \in Usages(after.keys) \ Usages(before.keys)},
   up |-> (before.modifiers \ after.modifiers)
            \cup {NamedUsage(u) : u \in Usages(before.keys) \ Usages(after.keys)}]

(* Of a pointer's report its buttons and whether a wheel turned, of a      *)
(* page's its length; and a report that cannot be read is not shown, and   *)
(* is not what the next one is compared with.                              *)
Shown(last, kind, bytes) ==
  CASE kind = "Keyboard" /\ KeyboardFrom(bytes) # Unread ->
         [said |-> KeyboardDiff(last, KeyboardFrom(bytes)), last |-> KeyboardFrom(bytes)]
    [] kind = "Pointing" /\ PointingFrom(bytes) # Unread ->
         LET report == PointingFrom(bytes)
         IN [said |-> [buttons |-> report.buttons,
                       wheel |-> \E axis \in {"vertical_wheel", "horizontal_wheel"} : report.axes[axis] # 0],
             last |-> last]
    [] kind \in {"Keyboard", "Pointing"} -> [said |-> Unread, last |-> last]
    [] OTHER -> [said |-> Len(bytes), last |-> last]

-----------------------------------------------------------------------------
(* The cases: reports that hold nothing, one key, two, one in the place    *)
(* behind an empty one, every slot; on each of the device's reports.       *)
Slotted(usages) == FoldLeft(Press, NoKeys, usages)
HeldKeys == {NoKeys, Slotted(<<4>>), Slotted(<<4, 138>>), Release(Slotted(<<4, 135>>), 4)}
Full == Slotted([n \in 1..SLOTS + 1 |-> 255 + n])
HeldModifiers == {{}, {"LeftShift"}, {"LeftControl", "RightCommand"}, ToSet(MODIFIER_BITS)}
KeyboardReports == {KeyboardReport(held, keys) : held \in HeldModifiers, keys \in HeldKeys}
ControlReports == {ControlReport(page, keys) : page \in ControlPage, keys \in HeldKeys \cup {Full}}
Motions == {[axis \in ToSet(PointerAxes) |-> IF axis = moved THEN far ELSE 0]
              : moved \in ToSet(PointerAxes), far \in {-128, -1, 0, 127}}
PointerReports == {PointerReport(held, axes) : held \in {Zeros(4), <<1, 0, 0, 16>>}, axes \in Motions}
Sent == KeyboardReports \cup ControlReports \cup PointerReports

(* The slots are a set with room for so many: which is what the Converter  *)
(* takes them for.                                                         *)
ASetWithRoom ==
  LET added(used, usage) == IF Cardinality(used) < 2 THEN used \cup {usage} ELSE used IN
  \A keys \in {k \in [1..2 -> 0..3] : k[1] = k[2] => k[1] = 0} : \A usage, next \in 1..3 :
    /\ Usages(Press(Press(keys, usage), next)) = added(added(Usages(keys), usage), next)
    /\ Usages(Release(Press(keys, usage), usage)) = Usages(keys) \ {usage}

(* Every report that is posted is the report the service takes in, under   *)
(* the request it posts that report by, whatever is behind it on the       *)
(* stream; letting go says nothing is held; and the keyboard asked for is  *)
(* the one capture leaves alone.                                           *)
PostedIsHeard ==
  /\ \A r \in Sent :
       LET first == ReadFrame(Post(300, r) \o LetsGo(301))
           second == ReadFrame(first.rest)
           third == ReadFrame(second.rest)
       IN /\ Heard(first.body) = [id |-> 300, told |-> r]
          /\ Heard(second.body) = [id |-> 301, told |-> KeyboardReport({}, NoKeys)]
          /\ Heard(third.body).told.buttons = Zeros(4)
          /\ third.rest = <<>>
  /\ LET asked == Heard(ReadFrame(Request(1, VIRTUAL_HID_KEYBOARD_INITIALIZE, KeyboardParameters)).body)
     IN /\ asked.told.report = VIRTUAL_HID_KEYBOARD_INITIALIZE
        /\ [vendor |-> Unsigned(SubSeq(asked.told.bytes, 1, 8)),
            product |-> Unsigned(SubSeq(asked.told.bytes, 9, 16))] \in IGNORE
  /\ \A key \in Keys : Of(key)[1] \notin {KEYBOARD_OR_KEYPAD, NoUsage[1]} =>
       PageOf(Of(key)[1]) \in ControlPage

(* A question of the service's is answered under its own id, and a run     *)
(* that shows what it would send shows every key that went down or came up. *)
AnsweredAndShown ==
  /\ \A id \in {1, 70000} :
       LET answer == ReadFrame(AnswerTo(ReadFrame(Request(id, 0, <<>>)).body))
       IN answer.body = <<RESPONSE>> \o ToBe(id, ID) /\ answer.rest = <<>>
  /\ ReadFrame(AnswerTo(ReadFrame(Framed(HEALTH_CHECK, <<>>)).body)).body = <<HEALTH_CHECK_RESPONSE>>
  /\ AnswerTo(ReadFrame(Framed(HEARTBEAT, <<>>)).body) = <<>>
  /\ \A before, after \in KeyboardReports :
       LET shown == Shown(before, "Keyboard", KeyboardBytes(after))
       IN /\ (DownIn(before) \ shown.said.up) \cup shown.said.down = DownIn(after)
          /\ shown.last = after
  /\ \A r \in PointerReports :
       Shown(NoKeys, r.report, PointingBytes(r)).said.wheel
         <=> {r.axes.vertical_wheel, r.axes.horizontal_wheel} # {0}
  /\ \A held \in SUBSET ToSet(ORDER) : FromKept(Kept(held)) = held

ReportsAreRead == ASetWithRoom /\ PostedIsHeard /\ AnsweredAndShown
=============================================================================
