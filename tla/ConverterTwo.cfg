SPECIFICATION HSpec
CONSTANTS
  Device = {"kbd", "usb"}
  Info = {"builtin", "external"}
  Key = {"a", "b", "shift", "caps", "fn"}
  ModifierKey <- MCModifierKey
  LockKey = {"caps"}
  Unsayable = {"fn"}
  Page = {"keyboard"}
  PageOf <- MCPageOf
  Slots = 1
  Kind <- MCKind
  KindOf <- MCKindOf
  LeftOf <- MCLeftOf
  Button = {"left"}
  Layout <- MCLayout
  Repeats = TRUE
  MaxFingers = 2
VIEW WithoutInjected
CONSTRAINT FewFingers
CHECK_DEADLOCK FALSE
INVARIANTS NothingGoesOnAlone EndsClean TypesItsLabels
PROPERTIES LatestFirst
