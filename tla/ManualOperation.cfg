\* One operation of three steps: its rows, its pipeline, cancel and sweep, failures and crashes.
SPECIFICATION FairSpec
CONSTANTS
  Operations = {o1}
  LastStep = 3
  LockKey = LockKey
  None = None
  MaxFaults = 1
  MaxCrashes = 1
INVARIANTS
  FinishedHonestly
  StepsInOrder
PROPERTIES
  LedgerKept
  VerdictKept
  EventuallySettled
