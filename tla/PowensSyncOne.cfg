\* One worker, as in production; two connections that list the same bank account.
SPECIFICATION Spec
CONSTANTS
  Workers = {w1}
  Connections <- TwoConnections
  Accounts <- PartlySharedAccounts
  Owner <- PartlySharedOwner
  Iban <- PartlySharedIban
  Ibans = {i1}
  SyncAll = SyncAll
  None = None
  c1 = c1
  c2 = c2
  a1 = a1
  a2 = a2
  a3 = a3
  i1 = i1
  MaxQueue = 1
  MaxGrant = 1
  MaxFaults = 0
  MaxCrashes = 1
INVARIANTS
  AssetFollowsAccount
  IbanCountedOnce
  DisconnectKept
