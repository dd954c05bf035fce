CONSTANTS
  Provider <- ThreeProviders
  Port <- Ports
  ScopePort = "Scope"
  Wirings <- AllWirings
  Releasing <- ThreeProviders
  Stopping = {1}
  Starting = {1, 2, 3}
SPECIFICATION Spec
CHECK_DEADLOCK FALSE
INVARIANTS
  PlanIsExact
  ScopesComeAndGoInOrder
