SPECIFICATION Spec
CONSTANTS
  Threads = {t1, t2}
  Users = {"u1", "u2"}
  Agents = {"a1"}
  Patches <- SomePatches
  Grants <- TwoGrants
  Asks <- NoneOrMore
  OwnedDrives = {"d1", "d2"}
  Mixes <- RevokeMix
  Seeds <- OldSeed
  MaxFail = 2
  MaxTokens = 4
  MaxRequests = 4
INVARIANTS
  RevokeAllEnds
CHECK_DEADLOCK FALSE
