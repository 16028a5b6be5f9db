------------------------------ MODULE Pointing ------------------------------
(***************************************************************************)
(* A pointer, from the reports of the device under the hand to the report  *)
(* the output device is sent, and how far the OS is told to carry it.      *)
(*                                                                         *)
(* The forwarding machine is given transitions and fractions of a click    *)
(* (hid/src/rawmouse.rs); the converting one is given the values of a      *)
(* report one by one (engine/src/sink.rs).  Both make reports of motion    *)
(* and of every button that is down.                                       *)
(***************************************************************************)
EXTENDS Integers, Sequences, FiniteSets, SequencesExt, Functions

None == -1
Clamped(n, low, high) == IF n < low THEN low ELSE IF n > high THEN high ELSE n

Axis == {"dx", "dy", "vertical_wheel", "horizontal_wheel"}
Motion(dx, dy, vertical, horizontal) ==
  [dx |-> dx, dy |-> dy, vertical_wheel |-> vertical, horizontal_wheel |-> horizontal]
Buttons == {"left", "right"}
NoMotion == [axis \in Axis |-> 0]
IsStill(motion) == \A axis \in Axis : motion[axis] = 0
Reported(motion, buttons) == [motion |-> motion, buttons |-> buttons]
News(report, last) == ~IsStill(report.motion) \/ report.buttons # last

-----------------------------------------------------------------------------
(* The forwarding machine: one raw report of a mouse.                      *)
WHEEL_DELTA == 120
AsI16(data) == IF data >= 32768 THEN data - 65536 ELSE data
RawMouse(absolute, down, up, wheels, data, dx, dy) ==
  [absolute |-> absolute, down |-> down, up |-> up, wheels |-> wheels,
   data |-> data, dx |-> dx, dy |-> dy]

(* What a wheel has turned since its last whole click is kept for the next *)
(* one.                                                                    *)
NothingKept(accumulated) == 0   \* mutant: each report rounded on its own
Kept(accumulated) ==
  IF accumulated >= 0 THEN accumulated % WHEEL_DELTA ELSE -((-accumulated) % WHEEL_DELTA)
Clicks(accumulated) ==
  IF accumulated >= 0 THEN accumulated \div WHEEL_DELTA ELSE -((-accumulated) \div WHEEL_DELTA)

UpBeforeDown(buttons, mouse) == (buttons \ mouse.up) \cup mouse.down   \* mutant
Transitions(buttons, mouse) == (buttons \cup mouse.down) \ mouse.up

AtRest == [buttons |-> {}, vertical |-> 0, horizontal |-> 0]
TurnOf(wheel, mouse) == IF wheel \in mouse.wheels THEN AsI16(mouse.data) ELSE 0
Report(pointing, mouse) ==
  LET vertical == pointing.vertical + TurnOf("vertical", mouse)
      horizontal == pointing.horizontal + TurnOf("horizontal", mouse)
      buttons == Transitions(pointing.buttons, mouse)
      moved(d) == IF mouse.absolute THEN 0 ELSE d
  IN [pointing |-> [buttons |-> buttons, vertical |-> Kept(vertical),
                    horizontal |-> Kept(horizontal)],
      report |-> Reported(Motion(moved(mouse.dx), moved(mouse.dy),
                                 Clicks(vertical), Clicks(horizontal)), buttons)]

(* And back: the raw reports that say it, two where both wheels turn,      *)
(* since one report has room for the turn of one.                          *)
Encode(held, target) ==
  LET data(clicks) == (clicks * WHEEL_DELTA) % 65536
      vertical == target.motion.vertical_wheel
      horizontal == target.motion.horizontal_wheel
      first == RawMouse(FALSE, target.buttons \ held, held \ target.buttons,
                        IF vertical = 0 THEN {} ELSE {"vertical"}, data(vertical),
                        target.motion.dx, target.motion.dy)
  IN IF horizontal = 0 THEN <<first>>
     ELSE <<first, RawMouse(FALSE, {}, {}, {"horizontal"}, data(horizontal), 0, 0)>>

(* What crosses: a report that says something its device's last one did not. *)
Relay(told, mouse) ==
  LET made == Report(told.pointing, mouse)
  IN [pointing |-> made.pointing, last |-> made.report.buttons,
      out |-> told.out \o (IF News(made.report, told.last) THEN <<made.report>> ELSE <<>>)]
Unplugged == [pointing |-> AtRest, last |-> {}, out |-> <<>>]
Relaying(mice) ==
  LET told[n \in 0..Len(mice)] == IF n = 0 THEN Unplugged ELSE Relay(told[n - 1], mice[n])
  IN told
Relayed(mice) == Relaying(mice)[Len(mice)].out

-----------------------------------------------------------------------------
(* The converting machine: the values of a report share a stamp, and the   *)
(* queue running dry ends the last one.                                    *)
Value(element, stamp, value) ==
  [kind |-> "value", element |-> element, stamp |-> stamp, value |-> value]
ValuesDone == [kind |-> "done", stamp |-> None]

Shut == [buttons |-> {}, pending |-> NoMotion, stamp |-> None, open |-> FALSE]
Taken(p) == IF p.open THEN <<Reported(p.pending, p.buttons)>> ELSE <<>>
Emptied(p) == [p EXCEPT !.pending = NoMotion, !.open = FALSE]
Set(p, v) ==
  LET opened == [p EXCEPT !.stamp = v.stamp, !.open = TRUE]
  IN IF v.element \in Axis THEN [opened EXCEPT !.pending[v.element] = v.value]
     ELSE [opened EXCEPT !.buttons = IF v.value # 0 THEN @ \cup {v.element} ELSE @ \ {v.element}]

Closes(p, v) == v.kind = "done" \/ (p.open /\ v.stamp # p.stamp)
SetThenClosed(state, v) ==   \* mutant: a report closed by the value after it
  LET after == IF v.kind = "done" THEN state.p ELSE Set(state.p, v)
  IN IF Closes(state.p, v) THEN [p |-> Emptied(after), out |-> state.out \o Taken(after)]
     ELSE [p |-> after, out |-> state.out]
Resolve(state, v) ==
  LET closed == IF Closes(state.p, v) THEN Emptied(state.p) ELSE state.p
      out == IF Closes(state.p, v) THEN state.out \o Taken(state.p) ELSE state.out
  IN [p |-> IF v.kind = "done" THEN closed ELSE Set(closed, v), out |-> out]
NothingSaid == [p |-> Shut, out |-> <<>>]
Assembling(values) ==
  LET state[n \in 0..Len(values)] ==
        IF n = 0 THEN NothingSaid ELSE Resolve(state[n - 1], values[n])
  IN state
Assembled(values) == Assembling(values)[Len(values)].out

-----------------------------------------------------------------------------
(* The output: turned over where the run was told to, and as wide as a     *)
(* byte.                                                                   *)
Apply(inverted, motion) ==
  [axis \in Axis |-> IF axis \in inverted THEN -motion[axis] ELSE motion[axis]]
Saturate(n) == Clamped(n, -128, 127)
PointingReport(report) ==
  Reported([axis \in Axis |-> Saturate(report.motion[axis])], report.buttons)

Inject(inverted, state, report) ==
  LET tuned == Reported(Apply(inverted, report.motion), report.buttons)
  IN IF News(tuned, state.buttons)
     THEN [buttons |-> tuned.buttons, out |-> Append(state.out, PointingReport(tuned))]
     ELSE state
Fresh == [buttons |-> {}, out |-> <<>>]
Injecting(inverted, seen) ==
  LET state[n \in 0..Len(seen)] ==
        IF n = 0 THEN Fresh ELSE Inject(inverted, state[n - 1], seen[n])
  IN state
Injected(inverted, seen) == Injecting(inverted, seen)[Len(seen)].out

-----------------------------------------------------------------------------
(* How far the OS carries it.  Accelerations are in tenths.                *)
POINTER_RESOLUTION == 80
POINTER_ACCELERATION == 8
Wanted(resolution, acceleration) ==
  [resolution |-> IF resolution = None THEN None ELSE Clamped(resolution, 10, 1995),
   acceleration |-> IF acceleration = None THEN None ELSE Clamped(acceleration, 0, 400)]
PointerWanted(resolution, acceleration) ==
  Wanted(IF resolution = None THEN POINTER_RESOLUTION ELSE resolution,
         IF acceleration = None THEN POINTER_ACCELERATION ELSE acceleration)
DryRun == Wanted(None, None)

RESOLUTION == "HIDPointerResolution"
ACCELERATION == "HIDPointerAcceleration"
MOUSE_ACCELERATION == "HIDMouseAcceleration"
Unnamed == "unnamed"

(* A pointing device as the event system has it: which property its factor *)
(* is really in, and the resolution its motion is really scaled by, which  *)
(* is the one that was set when a factor was last written.  A write of     *)
(* another factor's name is accepted and ignored; a simple view writes     *)
(* nothing.                                                                *)
Device ==
  [mine : BOOLEAN, keeps : {ACCELERATION, MOUSE_ACCELERATION}, named : BOOLEAN,
   resolution : {None, 400}, scaled : {400}, factor : {None, 7}]
Type(device) == IF device.named THEN device.keeps ELSE Unnamed
Fixed(device, property) ==
  CASE property = RESOLUTION -> device.resolution
    [] property = device.keeps -> device.factor
    [] OTHER -> None
SetFixed(writable, device, property, value) ==
  CASE writable /\ property = RESOLUTION -> [device EXCEPT !.resolution = value]
    [] writable /\ property = device.keeps ->
         [device EXCEPT !.factor = value, !.scaled = device.resolution]
    [] OTHER -> device

AccelerationProperty(device) ==
  IF Type(device) \in {ACCELERATION, MOUSE_ACCELERATION} THEN Type(device)
  ELSE IF Fixed(device, ACCELERATION) # None THEN ACCELERATION ELSE MOUSE_ACCELERATION

OnlyAsAsked(wanted, was) == wanted.acceleration   \* mutant: nothing after a resolution alone
Factor(wanted, was) == IF wanted.acceleration # None THEN wanted.acceleration ELSE was
Tuned(wanted, writable, device) ==
  LET key == AccelerationProperty(device)
      factor == Factor(wanted, Fixed(device, key))
      resolved == IF wanted.resolution = None THEN device
                  ELSE SetFixed(writable, device, RESOLUTION, wanted.resolution)
  IN IF factor = None THEN resolved ELSE SetFixed(writable, resolved, key, factor)
Tune(wanted, writable, device) ==
  IF wanted = DryRun \/ ~device.mine \/ Fixed(device, RESOLUTION) = None THEN device
  ELSE Tuned(wanted, writable, device)
Accepted(wanted, writable, device) ==
  writable \/ (wanted.resolution = None
               /\ Factor(wanted, Fixed(device, AccelerationProperty(device))) = None)

-----------------------------------------------------------------------------
(* What the hand did, from the reports of its mouse.                       *)
Downs(mice, b) == {i \in DOMAIN mice : b \in mice[i].down}
Ups(mice, b) == {i \in DOMAIN mice : b \in mice[i].up}
Held(mice) == {b \in Buttons : \E i \in Downs(mice, b) : \A j \in Ups(mice, b) : j < i}
Summing(numbers) ==
  LET sum[n \in 0..Len(numbers)] == IF n = 0 THEN 0 ELSE sum[n - 1] + numbers[n] IN sum
SumUp(numbers) == Summing(numbers)[Len(numbers)]
Travelled(out, axis) == SumUp([i \in DOMAIN out |-> out[i].motion[axis]])
Turned(mice, wheel) == SumUp([i \in DOMAIN mice |-> TurnOf(wheel, mice[i])])
Moved(mice) ==
  SumUp([i \in DOMAIN mice |-> IF mice[i].absolute THEN 0 ELSE Saturate(mice[i].dx)])
Size(n) == IF n < 0 THEN -n ELSE n

Clicking(down, up) == RawMouse(FALSE, down, up, {}, 0, 0, 0)
Rolling(wheels, data) == RawMouse(FALSE, {}, {}, wheels, data, 0, 0)
Pushing(absolute, dx) == RawMouse(absolute, {"right"}, {}, {}, 0, dx, 1)
RawMice ==
  {Clicking(down, up) : down \in {{}, {"left"}}, up \in {{}, {"left"}, {"right"}}}
  \cup {Rolling(wheels, data) : wheels \in (SUBSET {"vertical", "horizontal"}) \ {{}},
                                data \in {50, 170, 65536 - 50, 65536 - 120}}
  \cup {Pushing(absolute, dx) : absolute \in BOOLEAN, dx \in {-300, 1}}
Inversions == {{}, {"vertical_wheel", "horizontal_wheel"}}

(* Whatever a mouse at the other machine does, the OS is told the buttons  *)
(* that are down, the motion up to what a report holds, and every whole    *)
(* click of either wheel, the way round the run was told; and no report it *)
(* is sent is without news.                                                *)
CarriesTheHand(inverted, mice) ==
  LET out == Injected(inverted, Relayed(mice))
      clicks(wheel, axis) ==
        IF axis \in inverted THEN -Travelled(out, axis) ELSE Travelled(out, axis)
  IN /\ (IF out = <<>> THEN {} ELSE Last(out).buttons) = Held(mice)
     /\ Travelled(out, "dx") = Moved(mice)
     /\ \A w \in {<<"vertical", "vertical_wheel">>, <<"horizontal", "horizontal_wheel">>} :
          Size(Turned(mice, w[1]) - WHEEL_DELTA * clicks(w[1], w[2])) < WHEEL_DELTA
     /\ \A i \in DOMAIN out : News(out[i], IF i = 1 THEN {} ELSE out[i - 1].buttons)

(* A report taken apart into raw ones is put together again from them,     *)
(* whatever was held, up to what a wheel's turn has room for.              *)
Decoded(held, mice) ==
  LET first == Report([AtRest EXCEPT !.buttons = held], mice[1])
  IN IF Len(mice) = 1 THEN <<first.report>>
     ELSE <<first.report, Report(first.pointing, mice[2]).report>>
EncodedIsDecoded(held, target) ==
  LET out == Decoded(held, Encode(held, target))
  IN /\ \A axis \in Axis : Travelled(out, axis) = target.motion[axis]
     /\ Last(out).buttons = target.buttons

(* The values between two ends are one report: its motion is the last said *)
(* of each axis, its buttons those down when it ended.                     *)
Ends(values, i) ==
  \/ values[i + 1].kind = "done"
  \/ values[i + 1].stamp # values[i].stamp
Ending(values) == {i \in DOMAIN values : values[i].kind = "value" /\ Ends(values, i)}
InReport(values, i) ==
  {j \in 1..i : \A k \in j..i : values[k].kind = "value" /\ (k < i => ~Ends(values, k))}
LastOf(values, where, element, otherwise) ==
  LET at == {j \in where : values[j].kind = "value" /\ values[j].element = element}
  IN IF at = {} THEN otherwise ELSE values[CHOOSE j \in at : \A k \in at : k <= j].value
ReportEnding(values, i) ==
  Reported([axis \in Axis |-> LastOf(values, InReport(values, i), axis, 0)],
           {b \in Buttons : LastOf(values, 1..i, b, 0) # 0})
Values ==
  {Value(e, stamp, v) : e \in {"dx"}, stamp \in 1..2, v \in {5, -3}}
  \cup {Value(b, stamp, v) : b \in Buttons, stamp \in 1..2, v \in 0..1}
  \cup {Value("vertical_wheel", 2, 1), ValuesDone}
AssemblesReports(said) ==
  LET values == Append(said, ValuesDone)
      nth(i) == Cardinality({j \in Ending(values) : j <= i})
  IN /\ Len(Assembled(values)) = Cardinality(Ending(values))
     /\ \A i \in Ending(values) : Assembled(values)[nth(i)] = ReportEnding(values, i)

(* Favjit's own pointer, and no other, is carried as far as the run was    *)
(* told, and where its writes are refused they are said to have been.  Not *)
(* so a pointer that has no factor and does not say where one would be, or *)
(* is given none: its resolution would wait for one.                       *)
Tunable(device) == device.mine /\ device.resolution # None
KnowsWhere(device) == device.named \/ device.factor # None
TunedAsAsked(device, writable, wanted) ==
  LET after == Tune(wanted, writable, device)
      asked(n, was) == IF n = None THEN was ELSE n
      given == wanted.acceleration # None \/ device.factor # None
  IN /\ Tunable(device) /\ KnowsWhere(device) /\ given /\ (writable \/ wanted = DryRun)
          => /\ after.scaled = asked(wanted.resolution, device.scaled)
             /\ after.factor = asked(wanted.acceleration, device.factor)
     /\ Tunable(device) /\ ~writable /\ wanted # DryRun /\ given
          => ~Accepted(wanted, writable, device)
     /\ ~Tunable(device) \/ ~writable => after = device

(* The hand, the values and the feel, for everything there is to be told.  *)
Resolutions == {None, 5, 120, 3000}
Accelerations == {None, 0, 11, 500}
Wishes ==
  {DryRun} \cup {PointerWanted(r, a) : r \in Resolutions, a \in Accelerations}
  \cup {Wanted(r, a) : r \in Resolutions, a \in Accelerations}
WheelTurns == {-273, -1, 0, 2, 273}
Targets ==
  {Reported(Motion(dx, -1, v, h), buttons)
     : dx \in {0, 300}, v \in WheelTurns, h \in WheelTurns, buttons \in SUBSET Buttons}
EveryPointerFollows ==
  /\ \A held \in SUBSET Buttons, target \in Targets : EncodedIsDecoded(held, target)
  /\ \A inverted \in Inversions, mice \in BoundedSeq(RawMice, 3) : CarriesTheHand(inverted, mice)
  /\ \A said \in BoundedSeq(Values, 4) : AssemblesReports(said)
  /\ \A device \in Device, writable \in BOOLEAN, wanted \in Wishes :
       TunedAsAsked(device, writable, wanted)
=============================================================================
