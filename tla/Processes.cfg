SPECIFICATION HSpec
CONSTANTS
  Silence = 8
  ProbeEvery = 1
  Grace = 1
  BeatWithin = 4
  HandOver = 8
  Stall = 4
  Arrivals = 2
  Pipe = 1
  Faults = 1
CHECK_DEADLOCK FALSE
INVARIANTS EndedInTime EndedForCause OneVersion FilesNameTheirRun
PROPERTIES OffGivesThemBack
