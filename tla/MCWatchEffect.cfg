SPECIFICATION Spec
CONSTANTS
  None = None
  ElementId = {e1, e2}
  Handle = {h1}
  Task = {t1, t2}
  Context = {c1, c2, c3}
  OsMayFail = FALSE
  Sweeps = FALSE
INVARIANT WatchTakesEffect
SYMMETRY Symmetry
