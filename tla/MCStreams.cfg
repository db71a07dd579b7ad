SPECIFICATION FairSideBySide
CONSTANTS
  None = None
  Client = {c1}
  ElementId = {e1}
  Value = {1, 2}
  EventCapacity = 2
  ClientCapacity = 2
  s = s
  t = t
  u = u
  d = d
 
PROPERTIES  ComesToRest
