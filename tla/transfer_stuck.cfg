SPECIFICATION FairSpec
CONSTANTS
  h1 = h1
  h2 = h2
  s1 = s1
  s2 = s2
  NoCopy = NoCopy
  Handlers = {h1}
  Secondaries = {s1}
  Targets = {s1}
  Modulus = 8
  Delays = {1}
  SpecSerials = {0}
  MaxUpdates = 1
  MaxEdits = 0
  MaxLoads = 0
  MaxFaults = 0
PROPERTIES AnsweredUpdatesSpread
CHECK_DEADLOCK FALSE
