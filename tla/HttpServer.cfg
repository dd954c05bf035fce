SPECIFICATION Spec
CONSTANTS
  Unit = {r1, r2, r3}
  Socket = {c1, c2}
  NoSocket = NoSocket
SYMMETRY Symmetry
INVARIANTS
  UnitsAreOpenResponses
  NoConnectionKeptWhileDraining
CHECK_DEADLOCK FALSE
