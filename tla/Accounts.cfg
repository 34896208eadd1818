SPECIFICATION Spec
CONSTANTS
  Threads = {t1, t2}
  Users = {"u1", "u2"}
  Agents = {"a1"}
  Patches <- SomePatches
  Grants <- TwoGrants
  Asks <- NoneOrMore
  OwnedDrives = {"d1", "d2"}
  Mixes <- AllMixes
  Seeds <- BothSeeds
  MaxFail = 2
  MaxTokens = 4
  MaxRequests = 5
INVARIANTS
  RefreshSpentOnce
  RevokedForGood
  AdminRemains
  OneFounder
  AgentWithinGrant
  LockoutBound
PROPERTY RejectedForGood
SYMMETRY ThreadSymmetry
CHECK_DEADLOCK FALSE
