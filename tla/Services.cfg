CONSTANTS
  Tls = {t1, t2}
  Key = {k1, k2}
  MaxConnections = 4
  Gating = {database}
  Other = {mail}
  Probe = {p1, p2}
  Unit = {u1, u2}
  Caller = {c1, c2}
  MaxVersion = 2
  Handler = {h1, h2}
  MaxEvents = 4
  Delivery = {m1, m2}
  Writer = {w1, w2}
  Reader = {r1}
  Nobody = Nobody
  MaxSockets = 2
  MaxResponse = 2
  Task = {q1, q2, q3}
  Pooled = {x1, x2}
  Tenant = {alpha, beta}
  NoTenant = NoTenant
  Scheme = {jwt, apiKey}
  Scope = {reading, writing}
  MaxAlternatives = 2
SPECIFICATION ServicesSpec
INVARIANTS
  FacadeFollowsAndCloses
  OneEvaluationPerCheck
  UnitsEndInOrder
  StaleOnlyFromOvertaken
  OneHistory
  StreamsSettle
  AnswersLeaveNothing
  QueriesRunAsTheirTenant
  VerdictIsTheRequirements
PROPERTIES
  NeverReadyAgain
  EveryProbeAnswers
  ClosedInTime
  StoresWholeObjects
  EveryExchangeAnswers
CHECK_DEADLOCK FALSE
