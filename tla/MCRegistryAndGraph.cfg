SPECIFICATION SideBySide
CONSTANTS
  None = None
  ElementId = {e1, e2, e3}
  Handle = {h1, h2, h3}
  RootHandle = {h1}
  WindowId = {w1}
  Value = {0}
  StableRoots = TRUE
  Node = {n1, n2}
  MaxRequests = 2
INVARIANTS TypeOK IndexesInverse LinkedChildIsListed OrphansLinkable SubscriberKnowsElements LinkedUnlessRefreshed RestShowsNodes OverlayFollowsPointer
PROPERTY IdentityIsStable
SYMMETRY Symmetry
CHECK_DEADLOCK FALSE
