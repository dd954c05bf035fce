CONSTANTS
  Unit = {u1, u2}
  MaxFinalisers = 1
SPECIFICATION FairSpec
CHECK_DEADLOCK FALSE
INVARIANTS
  ExitCodeTells
  ToldAlike
  WaysOutLeaveNothing
  DrainReportIsTrue
  UnitsToldInTime
PROPERTIES
  ImplementsLifecycle
  ForcedExit
  EndsWithinDeadlines
