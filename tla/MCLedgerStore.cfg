SPECIFICATION Spec
CONSTANTS
  Writer = {"a", "b"}
  Batch <- Contested
  Stamp = {1, 2}
  MaxFaults = 1
INVARIANTS
  AckedIsDurable
  InsertOnly
PROPERTIES
  ForwardOnly
  EventuallySettled
CHECK_DEADLOCK FALSE
