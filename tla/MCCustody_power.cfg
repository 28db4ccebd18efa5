\* Two Packages, power cuts, and projection writes that raise.
SPECIFICATION Spec
CONSTANTS
  None = None
  Porter = Porter
  p1 = p1
  p2 = p2
  t1 = t1
  t2 = t2
  h1 = h1
  h2 = h2
  r1 = r1
  Packages = {p1, p2}
  AcceptanceIds = {a1, a2}
  CollectionIds = {c1, c2}
  Relationships = {r1}
  Relationship <- MCIntroduced
  Handlers = {t1}
  Hosts = {h1}
  Callers = {}
  FaultyDisk = TRUE
  FaultyProjection = FALSE
  PowerCuts = TRUE
  MaxCrashes = 2
INVARIANTS
  CollectionInv
  AssociationSufficesAfterRecovery
SYMMETRY MCSymmetry
