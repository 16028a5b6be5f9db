SPECIFICATION ServingSpec
CONSTANTS
  Attempts = 2
  Runs = {"Convert"}
  Made = 2
  Deaths = 1
  Unsaid = Unsaid
  IDLE = 15
  FAILURES = 16
  Outages = 1
  Scans = 1
CHECK_DEADLOCK FALSE
INVARIANTS VouchedFor PairedCanLink FoundByName
PROPERTIES PairingEnds LinkComesUp
