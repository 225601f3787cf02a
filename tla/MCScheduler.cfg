SPECIFICATION Spec
CONSTANTS
  Job = {j1, j2}
  Once = {j1}
  Overlapping = {j1}
  MaxPasses = 3
  MaxRuns = 4
  MaxFaults = 2
CHECK_DEADLOCK FALSE
INVARIANTS TypeOK OnceRunsOnce OverlapNeedsCancel
