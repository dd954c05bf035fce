CONSTANTS
  p1 = p1
  p2 = p2
  tenant = tenant
  g1 = g1
  g2 = g2
  Process = {p1, p2}
  Owner = {tenant}
  Generation = {g1, g2}
  OwnerOf <- MCOwnerOf
  Ttl = 2
  None = None
  MaxTime = 3
SYMMETRY Alike
SPECIFICATION Spec
INVARIANTS ErasureTakesHold
CHECK_DEADLOCK FALSE
