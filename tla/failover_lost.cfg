SPECIFICATION Spec
CONSTANTS
  p1 = p1
  p2 = p2
  o1 = o1
  Nobody = Nobody
  None = None
  Pods = {p1, p2}
  Reloading = {}
  Others = {o1}
  RRs = {"a"}
  MaxEdits = 1
  MaxUpdates = 2
  MaxFaults = 2
INVARIANTS AckedRecordsSaved
