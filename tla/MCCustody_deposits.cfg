\* Two request threads, one Host, one caller of a Collection Ticket, one Package.
SPECIFICATION Spec
CONSTANTS
  None = None
  Porter = Porter
  p1 = p1
  p2 = p2
  t1 = t1
  t2 = t2
  h1 = h1
  h2 = h2
  r1 = r1
  Packages = {p1}
  AcceptanceIds = {a1, a2}
  CollectionIds = {c1, c2}
  Relationships = {r1}
  Relationship <- MCIntroduced
  Handlers = {t1, t2}
  Hosts = {h1}
  Callers = {c}
  FaultyDisk = FALSE
  FaultyProjection = TRUE
  PowerCuts = FALSE
  MaxCrashes = 1
INVARIANTS
  TypeOK
  OneCollectionPerPackage
  HeldInv
  CandidateInv
  AcceptanceInv
PROPERTIES
  AcceptanceIsImmutable
  CustodyPromise
SYMMETRY MCSymmetry
