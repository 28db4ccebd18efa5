\* Two Hosts share a Package; every batch has room.
SPECIFICATION FairSpec
CONSTANTS
  None = None
  p1 = p1
  p2 = p2
  p3 = p3
  h1 = h1
  Packages = {p1, p2}
  Hosts = {h1, h2}
  Interest <- MCInterest
  BatchSize = 2
  MaxCrashes = 2
INVARIANT
  VisitInv
PROPERTIES
  OnlyAmbiguousIsReoffered
  AcceptedIsOffered
