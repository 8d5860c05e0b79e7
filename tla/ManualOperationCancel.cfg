\* A cancel while the pipeline is running.
SPECIFICATION Spec
CONSTANTS
  Operations = {o1}
  LastStep = 2
  LockKey = LockKey
  None = None
  MaxFaults = 0
  MaxCrashes = 0
INVARIANTS
  CancelledMeansStopped
