CONSTANTS
  t1 = t1  t2 = t2  t3 = t3
  Relay = {r1}
  Tenant <- ThreeTenants
  Message <- ThreeTenantRows
  TenantOf <- ThreeTenantOf
  Nobody = Nobody
  BatchLimit = 1
  PruneLimit = 1
  Concurrency = 1
  Retain = TRUE
  MaxFaults = 1
SPECIFICATION FairSpec
CHECK_DEADLOCK FALSE
INVARIANTS
  SlotsAccountedFor
PROPERTIES
  StopFinishes
  EveryFactGoesOut
