SPECIFICATION Spec
CONSTANTS
  None = None
  Client = {c1}
  ElementId = {e1}
  Value = {1, 2}
  EventCapacity = 3
  ClientCapacity = 3
INVARIANT SnapshotResyncs
