\* One worker under its fairness: what must eventually happen.
SPECIFICATION FairSpec
CONSTANTS
  Workers = {w1}
  Connections <- OneConnection
  Accounts <- OneAccount
  Owner <- OneOwner
  Iban <- OneIban
  Ibans = {i1}
  SyncAll = SyncAll
  None = None
  c1 = c1
  c2 = c2
  a1 = a1
  a2 = a2
  a3 = a3
  i1 = i1
  MaxQueue = 2
  MaxGrant = 2
  MaxFaults = 1
  MaxCrashes = 1
INVARIANTS
  NothingLeftBehind
PROPERTIES
  FreshTokenSynced
  SyncingEnds
