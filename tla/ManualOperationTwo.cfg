\* Two operations that compete for the lock.
SPECIFICATION Spec
CONSTANTS
  Operations = {o1, o2}
  LastStep = 1
  LockKey = LockKey
  None = None
  MaxFaults = 0
  MaxCrashes = 1
SYMMETRY Symmetry
INVARIANTS
  NothingLeftBehind
PROPERTIES
  LeaseKept
