SPECIFICATION FairSpec
CONSTANTS
  u1 = u1
  u2 = u2
  r1 = r1
  n1 = n1
  n2 = n2
  NoProc = NoProc
  NoNS = NoNS
  Updaters = {u1, u2}
  Readers = {r1}
  Procs <- MCProcs
  RRs <- MCRRs
  Supported <- MCSupported
  RRsetOf <- MCRRsetOf
  Messages <- FewMessages
  Namespaces = {n1}
PROPERTIES MergeReturns
