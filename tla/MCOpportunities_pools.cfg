\* One Runtime with two adapters, three Packages, a rival collector.
SPECIFICATION FairPoolSpec
CONSTANTS
  p1 = p1
  p2 = p2
  p3 = p3
  h1 = h1
  g1 = g1
  None = None
  Packages = {p1, p2, p3}
  Hosts = {h1, g1}
  Rivals = {g1}
  Interest <- MCInterest
  Policies <- MCPolicies
  BatchSize = 3
  MaxOffers = 2
  MaxCrashes = 1
  MaxFailures = 1
INVARIANTS
  PoolInv
  UnreturnedIsBounded
PROPERTIES
  NoRetryIsInvented
  SelectionIsFresh
  AttentionIsServed
