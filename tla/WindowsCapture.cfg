SPECIFICATION Spec
CONSTANTS
  Mouse = {m1}
  Strokes = 2
  Reports = 1
  Handles = 1
  Asks = 1
  Probes = 2
  Room = 2
CHECK_DEADLOCK FALSE
INVARIANTS BothHooksOrNeither HandedOn PointerFollows
PROPERTIES ProbesAreAnswered
