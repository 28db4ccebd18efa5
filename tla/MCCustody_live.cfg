\* Fair scheduling, two crashes; no symmetry, which is unsound for liveness.
SPECIFICATION FairSpec
CONSTANTS
  None = None
  Porter = Porter
  p1 = p1
  p2 = p2
  t1 = t1
  t2 = t2
  h1 = h1
  h2 = h2
  r1 = r1
  Packages = {p1}
  AcceptanceIds = {a1}
  CollectionIds = {c1, c2}
  Relationships = {r1}
  Relationship <- MCIntroduced
  Handlers = {t1}
  Hosts = {h1}
  Callers = {c}
  FaultyDisk = FALSE
  FaultyProjection = FALSE
  PowerCuts = FALSE
  MaxCrashes = 2
PROPERTIES
  AcceptedIsCollected
  LocksAreReleased
  DepositsAreAnswered
