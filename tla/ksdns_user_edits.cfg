SPECIFICATION Spec
CONSTANTS
  Absent = Absent
  ZoneNames = {"a", "b"}
  Foreign = {"b"}
  Unrenderable = {"b"}
  Specs <- TwoTypes
  UserSecret = TRUE
  Failing = {"secret", "a", "corednsSA", "corednsSvc", "zupdSvc", "zupdCM"}
  ReadFails = TRUE
  Lagging = {"secret", "a"}
  MaxTries = 2
  MaxFaults = 1
  MaxEdits = 2
  MaxTime = 1
PROPERTIES OnlyNewerKeysAreMounted
CHECK_DEADLOCK FALSE
