SPECIFICATION FairSpec
CONSTANTS
  Absent = Absent
  ZoneNames = {"a"}
  Foreign = {}
  Unrenderable = {}
  Specs <- GrowingZones
  UserSecret = FALSE
  Failing = {"a"}
  ReadFails = FALSE
  Lagging = {"a"}
  MaxTries = 2
  MaxFaults = 1
  MaxEdits = 1
  MaxTime = 0
PROPERTIES ReachesDesiredState
CHECK_DEADLOCK FALSE
