CONSTANTS
  t1 = t1  t2 = t2  t3 = t3
  Relay = {r1, r2}
  Tenant <- OneTenant
  Message <- OneTenantRows
  TenantOf <- OneTenantOf
  Nobody = Nobody
  BatchLimit = 2
  PruneLimit = 1
  Concurrency = 1
  Retain = TRUE
  MaxFaults = 2
SPECIFICATION HistorySpec
SYMMETRY RelaySymmetry
CHECK_DEADLOCK FALSE
INVARIANTS
  DeliveredInOrder
  RepeatsOnlyAfterFaults
PROPERTIES
  ImplementsLog
