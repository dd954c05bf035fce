CONSTANTS
  Unit = {u1}
  MaxFinalisers = 1
SPECIFICATION Spec
CHECK_DEADLOCK FALSE
INVARIANT StartFailedOnlyBeforeServing
