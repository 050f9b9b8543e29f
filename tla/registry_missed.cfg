SPECIFICATION Spec
CONSTANTS
  Nothing = Nothing
  a = a
  b = b
  c = c
  ZoneNames = {a, b, c}
  Specs = {"s1"}
  Unreadable = {}
  RRs = {}
  Queries = {"q1"}
  Updated = {}
  MaxChanges = 2
  MaxRestarts = 0
INVARIANTS SteadyZonesMatch
