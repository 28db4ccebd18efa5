\* One Package, two custodians, two receive threads; a carry thread that died ends
\* the system.
SPECIFICATION Spec
CONSTANTS
  None = None
  Carrier = Carrier
  p1 = p1
  Packages = {p1}
  Lodgements = {l1}
  PackageOf <- MCOnePackage
  AcceptanceIds = {a1, a2}
  Lodgers = {}
  Custodians = {c1, c2}
  Receivers = {r1, r2}
  Reasons = {no}
  MayChangeProof = TRUE
  InFlight = 1
INVARIANT
  NativeInv
PROPERTIES
  SettledWithEvidence
  RefusalIsUnanimous
SYMMETRY MCSymmetry
CHECK_DEADLOCK FALSE
