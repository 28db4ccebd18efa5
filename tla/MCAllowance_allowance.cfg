\* Four Packages, an allowance of two that a renewal lowers to one; the system stops when
\* everything is accepted or refused for good.
SPECIFICATION Spec
CONSTANTS
  i0 = i0
  i1 = i1
  p0 = p0
  p1 = p1
  p2 = p2
  p3 = p3
  t1 = t1
  t2 = t2
  None = None
  Introductions = {i0, i1}
  First = i0
  Ceremonies = {}
  Predecessor <- MCNoCeremony
  Successor <- MCNoCeremony
  Packages = {p0, p1, p2, p3}
  Proof <- MCProof
  Local = {i1}
  Threads = {t1, t2}
  Required = FALSE
  Unproven = Unproven
  Outstanding <- MCOutstanding
  MayRaise = TRUE
  MaxCrashes = 1
INVARIANTS
  AccountInv
  AllowanceIsExact
PROPERTY
  AllowanceHolds
SYMMETRY MCSymmetry
CHECK_DEADLOCK FALSE
