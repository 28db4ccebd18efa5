\* The same, of a sender whose outbound proof does not change.
SPECIFICATION Spec
CONSTANTS
  None = None
  Carrier = Carrier
  p1 = p1
  Packages = {p1}
  Lodgements = {l1}
  PackageOf <- MCOnePackage
  AcceptanceIds = {a1, a2}
  Lodgers = {}
  Custodians = {c1, c2}
  Receivers = {r1, r2}
  Reasons = {no}
  MayChangeProof = FALSE
  InFlight = 1
INVARIANT
  CarryLoopSurvives
SYMMETRY MCSymmetry
CHECK_DEADLOCK FALSE
