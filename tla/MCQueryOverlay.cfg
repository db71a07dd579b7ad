SPECIFICATION Spec
CONSTANTS
  None = None
  Element = {"r", "a"}
  Window = {"w"}
  Owner <- MCOwner
  Root <- MCRoot
  Shape <- MCShape
  TextAreas = {"a"}
  Writable = {"a"}
  Role = {"group", "textarea"}
  Queries <- MCQueries
  MaxPorts = 3
  MaxPending = 2
INVARIANTS QueriedIsObserved OpaqueOnlyWhileNeeded
PROPERTY ImplementsBoard
CHECK_DEADLOCK FALSE
