SPECIFICATION Spec
CONSTANTS
  Keyboards = {kb}
  Keys = {a}
  ForReadingAlone = {"Served"}
  Capacity = 8
  RecordsPerSegment = 2
  Burst = 1
  MaxWritten = 17
INVARIANTS
  ReplayReproduces
  CopyMissesTheNewest
PROPERTIES
  IsARecording
CHECK_DEADLOCK FALSE
