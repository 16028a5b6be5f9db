SPECIFICATION Spec
CONSTANTS
  Keyboard = {kbd}
  Mouse = {mouse}
  Key = {a}
  Room = 2
  Idle = 2
CHECK_DEADLOCK FALSE
INVARIANTS NothingLeftHeld Agreement SaidIsRead
PROPERTIES FingerComesOff
