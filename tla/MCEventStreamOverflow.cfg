SPECIFICATION Spec
CONSTANTS
  None = None
  Client = {c1}
  ElementId = {e1}
  Value = {1, 2}
  EventCapacity = 1
  ClientCapacity = 1
INVARIANT ReconnectingHelps
