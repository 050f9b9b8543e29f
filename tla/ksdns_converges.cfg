SPECIFICATION FairSpec
CONSTANTS
  Absent = Absent
  ZoneNames = {"a"}
  Foreign = {}
  Unrenderable = {}
  Specs <- GrowingZones
  UserSecret = FALSE
  Failing = {"secret", "corednsCM", "corednsSA", "corednsSvc", "corednsDep", "zupdSA", "role", "binding", "zupdDep"}
  ReadFails = FALSE
  Lagging = {"secret", "corednsCM", "zupdSvc", "a"}
  MaxTries = 2
  MaxFaults = 1
  MaxEdits = 1
  MaxTime = 1
INVARIANTS TypeOK KeysAgree RestsOnlyWhenDone
PROPERTIES DeploymentsComeLast ReachesDesiredState 
CHECK_DEADLOCK FALSE
