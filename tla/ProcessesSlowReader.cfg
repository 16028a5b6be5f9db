SPECIFICATION HSpec
CONSTANTS
  Silence = 8
  ProbeEvery = 1
  Grace = 1
  BeatWithin = 4
  HandOver = 4
  Stall = 0
  Arrivals = 2
  Pipe = 1
  Faults = 0
CHECK_DEADLOCK FALSE
INVARIANTS WorkingIsLeftAlone
