SPECIFICATION FairSpec
CONSTANTS
  u1 = u1
  u2 = u2
  r1 = r1
  n1 = n1
  n2 = n2
  NoProc = NoProc
  NoNS = NoNS
  Updaters = {u1, u2}
  Readers = {r1}
  Procs <- MCProcs
  RRs <- MCRRs
  Supported <- MCSupported
  RRsetOf <- MCRRsetOf
  Messages <- MCMessages
  Namespaces = {n1}
INVARIANTS TypeOK LocksBalanced ListIsCurrent AckBacked NoCircularWait AckedRecordsDurable AckedRemovalsDurable
PROPERTIES StatusWritesAreCurrent StuckInMergeForGood PromiseKept ReturnsUnlessMergeBlocks
