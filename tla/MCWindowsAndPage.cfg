SPECIFICATION SideBySide
CONSTANTS
  None = None
  w0 = w0  w1 = w1  w2 = w2
  p0 = p0  p1 = p1
  h1 = h1  h2 = h2
  WindowId <- MCWindowId
  ProcessId = {p0, p1}
  Handle = {h1, h2}
  ElementId = {e1}
  Client = {c1}
  Owner <- MCOwner
  Excluded = p0
  Matches <- MCDistinct
  Screens <- MCScreens
  Unobservable = {p1}
  Null = Null
  MaxSent = 3
  MaxThreads = 3
  s = s  t = t  u = u  d = d  e = e
  Plain = {s, d, e}
  Transform = {t, u}
  Color = {d}
  Entered <- MCEntered
  ColorValue <- MCColorValue
  Code <- MCCode
  BadCode <- MCBadCode
  Wiring <- MCWiring
  Edited = {s, u}
  MaxEdits = 2
INVARIANTS
  TypeOK ZOrderIsFrontToBack ProcessesMatchWindows WindowIndexInverse FocusIsCached SubscriberKnowsWindows
  SettlesAsDecided 
