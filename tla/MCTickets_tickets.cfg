\* Two Returns and two callers, one of whom may die; Hosts collect at any time.
SPECIFICATION Spec
CONSTANTS
  None = None
  Returns = {1, 2}
  c1 = c1
  c2 = c2
  Callers = {c1, c2}
  MaxCrashes = 1
INVARIANTS
  TicketInv
  OneReturnInTurn
PROPERTY
  TicketOnlyGrows
SYMMETRY MCSymmetry
