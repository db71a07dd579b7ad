SPECIFICATION FairSpec
CONSTANTS
  None = None
  w0 = w0  w1 = w1  w2 = w2
  p0 = p0  p1 = p1
  h1 = h1  h2 = h2
  WindowId <- MCWindowId
  ProcessId = {p0, p1}
  Handle = {h1, h2}
  ElementId = {}
  Client = {}
  Owner <- MCOwner
  Excluded = p0
  Matches <- MCDistinct
  Screens <- MCScreens
  Unobservable = {p1}
PROPERTIES CatchesUp HandleIsRetried
