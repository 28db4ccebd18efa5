\* Two request threads, two ceremonies, a deposit, a renewal by another process; the
\* system stops when everything lodged has been answered.
SPECIFICATION Spec
CONSTANTS
  i0 = i0
  i1 = i1
  i2 = i2
  c1 = c1
  c2 = c2
  p0 = p0
  p1 = p1
  t1 = t1
  t2 = t2
  None = None
  Introductions = {i0, i1, i2}
  First = i0
  Ceremonies = {c1, c2}
  Predecessor <- MCPredecessor
  Successor <- MCSuccessor
  Packages = {p0}
  Proof <- MCProof
  Local = {i2}
  Threads = {t1, t2}
  Required = FALSE
  Unproven = Unproven
  MaxChanges = 2
  MaxPending = 2
  MaxCrashes = 1
INVARIANTS
  CeremonyInv
  ResultsAreTrue
  CandidatesAreInert
PROPERTIES
  StandingNeverForks
  OutboundNeverRewinds
SYMMETRY MCSymmetry
CHECK_DEADLOCK FALSE
