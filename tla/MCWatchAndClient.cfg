SPECIFICATION SideBySide
CONSTANTS
  None = None
  ElementId = {e1, e2, e3}
  Handle = {h1, h2}
  Task = {t1, t2}
  Context = {c1, c2}
  OsMayFail = TRUE
  Sweeps = TRUE
  list = list
  item = item
INVARIANTS OneWatchPerHandle RegistrationsOwned ContextsOwned DescendantsOnce MatchesMeanTheSelector FindAndExtract ClipsShowWhatIsNotCovered
PROPERTY SandKept
SYMMETRY Symmetry
