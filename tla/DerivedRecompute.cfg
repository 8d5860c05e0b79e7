\* Three requests, two sessions.  They are a finite number: once all are answered nothing happens.
SPECIFICATION Spec
CONSTANTS
  Runs = {r1, r2, r3}
  Sessions = {s1, s2}
  None = None
  MaxFaults = 1
  MaxLostAcks = 1
  MaxCrashes = 1
SYMMETRY Symmetry
CHECK_DEADLOCK FALSE
INVARIANTS
  OneSnapshotUnlessOverlap
PROPERTIES
  SnapshotKept
