SPECIFICATION FairSpec
CONSTANTS
  p1 = p1
  p2 = p2
  o1 = o1
  Nobody = Nobody
  None = None
  Pods = {p1, p2}
  Reloading = {p1, p2}
  Others = {o1}
  RRs = {"a"}
  MaxEdits = 1
  MaxUpdates = 2
  MaxFaults = 2
INVARIANTS TypeOK OnlyLateSavesLose LateUnlessServed RepliesAreBacked NoLossWithoutFault
PROPERTIES SpecIsServed
