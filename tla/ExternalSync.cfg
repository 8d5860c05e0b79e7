\* Two workers, two providers, one request that may come twice.
SPECIFICATION FairSpec
CONSTANTS
  Workers = {w1, w2}
  ibkr = ibkr
  binance = binance
  q1 = q1
  Connections = {ibkr, binance}
  Requests = {q1}
  None = None
  Jobs <- SyncJobs
  MaxQueue = 1
  MaxRuns = 2
  MaxFaults = 1
INVARIANTS
  OncePerRequest
  ClaimedMeansRun
  NothingLeftBehind
  EveryProviderTried
PROPERTIES
  RequestKept
  LeaseKept
  SyncingEnds
