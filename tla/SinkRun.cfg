SPECIFICATION HSpec
CONSTANTS
  Devices = {k1, k2}
  Lively = {k1}
  Backlog = 1
  Wanted = {k1, k2}
  Requests = {"Watch", "DryRun", "Injecting"}
  EventsPerLook = 1
  Causes = {"SwitchedOff", "AskedToStop", "LinkGone", "Wedges"}
  MaxCauses = 1
CHECK_DEADLOCK FALSE
INVARIANTS WhatIsTakenIsKept NeverTypedTwice NothingStranded
PROPERTIES StopIsHeeded
