CONSTANTS
  t1 = t1
  t2 = t2
  k1 = k1
  k2 = k2
  Tls = {t1, t2}
  Key = {k1, k2}
  MaxConnections = 4
SYMMETRY Alike
SPECIFICATION Spec
INVARIANTS ReloadsInPlace
CHECK_DEADLOCK FALSE
