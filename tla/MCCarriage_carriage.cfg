\* One Package lodged once or twice, every outcome of a deposit, two crashes, fair scheduling.
SPECIFICATION FairSpec
CONSTANTS
  None = None
  Carrier = Carrier
  p1 = p1
  l1 = l1
  l2 = l2
  Packages = {p1}
  Lodgements = {l1, l2}
  PackageOf <- MCOnePackage
  AcceptanceIds = {a1}
  Lodgers = {h1}
  MaxCrashes = 2
  MayExpire = TRUE
  MayRefuse = TRUE
  MayRaise = TRUE
INVARIANT
  CarriageInv
PROPERTIES
  StagedIsKept
  LodgedIsSettled
