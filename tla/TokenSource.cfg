CONSTANTS
  alice = alice
  bob = bob
  service = service
  delegated = delegated
  own = own
  Request = {alice, bob, service}
  Pair = {delegated, own}
  PairOf <- MCPairOf
  Lifetimes = {2, 6}
  Skew = 2
  Capacity = 1
  None = None
  MaxFetches = 3
  MaxTime = 4
SYMMETRY Subjects
SPECIFICATION Spec
INVARIANTS OneFetchPerRequest ToldTheNewest
CHECK_DEADLOCK FALSE
