SPECIFICATION FairSpec
CONSTANTS
  h1 = h1
  h2 = h2
  s1 = s1
  s2 = s2
  NoCopy = NoCopy
  Handlers = {h1, h2}
  Secondaries = {s1}
  Targets = {s1}
  Modulus = 8
  Delays = {1, 5}
  SpecSerials = {0, 6}
  MaxUpdates = 2
  MaxEdits = 1
  MaxLoads = 1
  MaxFaults = 1
INVARIANTS TypeOK SeesChanges
PROPERTIES CopiesMoveOn SecondariesFollow
CHECK_DEADLOCK FALSE
