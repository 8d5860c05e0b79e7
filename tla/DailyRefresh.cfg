\* Two workers whose schedules fire the same run, a manual run, two runs at a time.
SPECIFICATION FairSpec
CONSTANTS
  Clients = {w1, w2}
  Keys = {key}
  Key = key
  None = None
  Slots = {s1, s2}
  powens = powens
  categorization = categorization
  advisor = advisor
  JobList <- SomeJobs
  Deps <- SomeDeps
  Enablings <- SomeEnablings
  Raced = {advisor}
  Days = 1
  MaxFaults = 1
INVARIANTS
  HeldUnlessLapsed
  OneScheduledRunAtATime
  OneRunPerWorkerAndDay
  DependenciesHold
  OkMeansDone
PROPERTIES
  RegistryKept
  WaitEnds
