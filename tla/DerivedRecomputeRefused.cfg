\* The lock is released in another session than it was taken in.
SPECIFICATION Spec
CONSTANTS
  Runs = {r1, r2}
  Sessions = {s1, s2}
  None = None
  MaxFaults = 0
  MaxLostAcks = 0
  MaxCrashes = 0
SYMMETRY Symmetry
CHECK_DEADLOCK FALSE
PROPERTIES
  RefusedWhileRunning
