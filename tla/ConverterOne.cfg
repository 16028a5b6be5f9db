SPECIFICATION HSpec
CONSTANTS
  Device = {"kbd"}
  Info = {"builtin"}
  Key = {"space", "layer", "a", "shift", "control"}
  ModifierKey <- MCModifierKey
  LockKey = {}
  Unsayable = {}
  Page = {"keyboard"}
  PageOf <- MCPageOf
  Slots = 2
  Kind <- MCKind
  KindOf <- MCKindOf
  LeftOf <- MCLeftOf
  Button = {"left"}
  Layout <- MCLayout
  Repeats = TRUE
  MaxFingers = 3
VIEW WithoutInjected
CONSTRAINT FewFingers
CHECK_DEADLOCK FALSE
INVARIANTS ModifiersAccountedFor
PROPERTIES ReleasedAsTaken TapMeansAlone HoldsReachTheOsFirst
