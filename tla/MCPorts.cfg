SPECIFICATION Spec
CONSTANTS
  None = None
  e1 = e1  e2 = e2
  w1 = w1  w2 = w2
  Element = {e1, e2}
  Window = {w1, w2}
  Owner <- MCOwner
  MaxPairs = 2
  MaxDead = 1
  MaxPending = 2
INVARIANTS NoSelfConnection 

SYMMETRY Symmetry

PROPERTY ImplementsBoard
