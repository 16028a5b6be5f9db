SPECIFICATION OutputSpec
CONSTANTS
  BeatEvery = 3
  Shortest = 1
  Wait = 5
  BeatWithin = 2
  ServiceBeats = 3
  Silence = 5
  Sayings = 2
  Room = 1
CHECK_DEADLOCK FALSE
INVARIANTS StatusIsTheServices BeatsInTime
PROPERTIES GoneIsNoticed
