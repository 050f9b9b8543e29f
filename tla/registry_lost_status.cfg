SPECIFICATION FairSpec
CONSTANTS
  Nothing = Nothing
  a = a
  b = b
  c = c
  ZoneNames = {a}
  Specs = {"s1", "bad"}
  Unreadable = {"bad"}
  RRs = {"r"}
  Queries = {"q1"}
  Updated = {a}
  MaxChanges = 2
  MaxRestarts = 1
PROPERTIES StatusIsLoaded
CHECK_DEADLOCK FALSE
