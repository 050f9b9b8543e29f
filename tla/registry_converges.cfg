SPECIFICATION FairSpec
CONSTANTS
  Nothing = Nothing
  a = a
  b = b
  c = c
  ZoneNames = {a, b}
  Specs = {"s1", "s2", "bad"}
  Unreadable = {"bad"}
  RRs = {"r"}
  Queries = {"q1"}
  Updated = {a}
  MaxChanges = 2
  MaxRestarts = 1
INVARIANTS TypeOK RegistryCoherent SettledIsServed OnlyVanishingZonesFail
PROPERTIES ServesLatest PromiseKept
CHECK_DEADLOCK FALSE
