------------------------------ MODULE MCServices ------------------------------
(***************************************************************************)
(* The smaller parts of a process, one of them at a time: the first state  *)
(* chooses which, and the others stand still in one of their initial       *)
(* states.  The Temporal client is the one this module extends.            *)
(***************************************************************************)
EXTENDS TemporalClient, Sequences, FiniteSets

CONSTANTS
  Gating, Other, Probe,             \* Probes
  Unit,                             \* UnitFork
  Caller, MaxVersion,               \* CacheReadThrough
  Handler, MaxEvents,               \* Aggregate
  Delivery,                         \* AmqpConsumer
  Writer, Reader, Nobody, MaxSockets,   \* StreamedObjects
  MaxResponse,                      \* HttpExchange
  Task, Pooled, Tenant, NoTenant,             \* TenantPin
  Scheme, Scope, MaxAlternatives    \* AuthWalk

ASSUME ServicesAssumption ==
  /\ IsFiniteSet(Writer) /\ IsFiniteSet(Reader) /\ Nobody \notin Writer
  /\ MaxResponse \in Nat /\ MaxAlternatives \in Nat
  /\ NoTenant \notin Tenant
  /\ Scheme \cap {"pending", "unavailable", "defect", "underScoped", "unauthenticated"} = {}

VARIABLES
  subject,
  phase, ready, outcome, refused, monitored, cached, recent, pending, running, probe,
  open, seen, closedCount, aborted, idle, work, settled, forked, forker, told,
  truth, entry, call, known, overtaken, late,
  style, decided, held, log, version, row, ended,
  queued, handling, acked, close, closes, deadline, answer,
  object, upload, ifAbsent, genuine, at, streamEnded, stream, result, wrote, unheard,
  body, slots,
  wire, reached, size, timer, listening, signalled, reply,
  wants, mode, stage, on, session, local, read,
  alternatives, says, bearer, turn, underScoped, scopes, verdict

Listener == INSTANCE Probes
Fork == INSTANCE UnitFork
Cache == INSTANCE CacheReadThrough
Root == INSTANCE Aggregate
Consumer == INSTANCE AmqpConsumer
Streams == INSTANCE StreamedObjects WITH
  ended <- streamEnded, source <- stream, answer <- result, held <- slots
Exchange == INSTANCE HttpExchange
Pinned == INSTANCE TenantPin
Auth == INSTANCE AuthWalk

probesVars == <<phase, ready, outcome, refused, monitored, cached, recent, pending, running, probe>>
forkVars == <<open, seen, closedCount, aborted, idle, work, settled, forked, forker, told>>
cacheVars == <<truth, entry, call, known, overtaken, late>>
aggregateVars == <<style, decided, held, log, version, row, ended>>
amqpVars == <<queued, handling, acked, close, closes, deadline, answer>>
storageVars == <<object, upload, ifAbsent, genuine, at, streamEnded, stream, result,
                 wrote, unheard, body, slots>>
httpVars == <<wire, reached, size, timer, listening, signalled, reply>>
tenantVars == <<wants, mode, stage, on, session, local, read>>
authVars == <<alternatives, says, bearer, turn, underScoped, scopes, verdict>>
servicesVars == <<subject, vars, probesVars, forkVars, cacheVars, aggregateVars, amqpVars,
                  storageVars, httpVars, tenantVars, authVars>>

ServicesInit ==
  /\ subject \in {"client", "probes", "fork", "cache", "aggregate", "amqp", "storage", "http",
                  "tenant", "auth"}
  \* What does not move starts in one of its initial states.
  /\ subject # "client" => source = TRUE /\ current = CHOOSE c \in Credentials : TRUE
  /\ subject # "probes" => refused = {}
  /\ subject # "aggregate" => style = "state"
  /\ subject # "storage" => ifAbsent = {} /\ genuine = {}
  \* The writers are alike: one of them may be the one whose content is not what it declared.
  /\ subject = "storage" => genuine \in {Writer, Writer \ {CHOOSE w \in Writer : TRUE}}
  /\ subject # "http" => signalled = FALSE
  /\ subject # "tenant" => /\ wants = [t \in Task |-> NoTenant]
                           /\ mode = [t \in Task |-> "default"]
  /\ subject # "auth" => /\ alternatives = <<[scheme |-> CHOOSE s \in Scheme : TRUE,
                                              required |-> {}]>>
                         /\ says = [s \in Scheme |-> [granted |-> {}]]
                         /\ bearer = {}
  /\ Init /\ Listener!Init /\ Fork!Init /\ Cache!Init /\ Root!Init /\ Consumer!Init
  /\ Streams!Init /\ Exchange!Init /\ Pinned!Init /\ Auth!Init

ClientNext ==
  /\ subject = "client" /\ Next
  /\ UNCHANGED <<subject, probesVars, forkVars, cacheVars, aggregateVars, amqpVars,
                 storageVars, httpVars, tenantVars, authVars>>

ProbesNext ==
  /\ subject = "probes" /\ Listener!Next
  /\ UNCHANGED <<subject, vars, forkVars, cacheVars, aggregateVars, amqpVars,
                 storageVars, httpVars, tenantVars, authVars>>

ForkNext ==
  /\ subject = "fork" /\ Fork!Next
  /\ UNCHANGED <<subject, vars, probesVars, cacheVars, aggregateVars, amqpVars,
                 storageVars, httpVars, tenantVars, authVars>>

CacheNext ==
  /\ subject = "cache" /\ Cache!Next
  /\ UNCHANGED <<subject, vars, probesVars, forkVars, aggregateVars, amqpVars,
                 storageVars, httpVars, tenantVars, authVars>>

AggregateNext ==
  /\ subject = "aggregate" /\ Root!Next
  /\ UNCHANGED <<subject, vars, probesVars, forkVars, cacheVars, amqpVars,
                 storageVars, httpVars, tenantVars, authVars>>

AmqpNext ==
  /\ subject = "amqp" /\ Consumer!Next
  /\ UNCHANGED <<subject, vars, probesVars, forkVars, cacheVars, aggregateVars,
                 storageVars, httpVars, tenantVars, authVars>>

StorageNext ==
  /\ subject = "storage" /\ Streams!Next
  /\ UNCHANGED <<subject, vars, probesVars, forkVars, cacheVars, aggregateVars, amqpVars,
                 httpVars, tenantVars, authVars>>

HttpNext ==
  /\ subject = "http" /\ Exchange!Next
  /\ UNCHANGED <<subject, vars, probesVars, forkVars, cacheVars, aggregateVars, amqpVars,
                 storageVars, tenantVars, authVars>>

TenantNext ==
  /\ subject = "tenant" /\ Pinned!Next
  /\ UNCHANGED <<subject, vars, probesVars, forkVars, cacheVars, aggregateVars, amqpVars,
                 storageVars, httpVars, authVars>>

AuthNext ==
  /\ subject = "auth" /\ Auth!Next
  /\ UNCHANGED <<subject, vars, probesVars, forkVars, cacheVars, aggregateVars, amqpVars,
                 storageVars, httpVars, tenantVars>>

ServicesNext ==
  \/ ClientNext \/ ProbesNext \/ ForkNext \/ CacheNext \/ AggregateNext \/ AmqpNext
  \/ StorageNext \/ HttpNext \/ TenantNext \/ AuthNext

\* A module that stands still owes no step: in its initial states none of its fair actions
\* is enabled.
ServicesSpec ==
  /\ ServicesInit /\ [][ServicesNext]_servicesVars
  /\ Listener!Fairness /\ Consumer!Fairness /\ Exchange!Fairness

OneEvaluationPerCheck == Listener!OneEvaluationPerCheck
NeverReadyAgain == Listener!NeverReadyAgain
EveryProbeAnswers == Listener!EveryProbeAnswers
UnitsEndInOrder == Fork!UnitsEndInOrder
StaleOnlyFromOvertaken == Cache!StaleOnlyFromOvertaken
OneHistory == Root!OneHistory
ClosedInTime == Consumer!ClosedInTime
StoresWholeObjects == Streams!StoresWholeObjects
StreamsSettle == Streams!StreamsSettle
AnswersLeaveNothing == Exchange!AnswersLeaveNothing
EveryExchangeAnswers == Exchange!EveryExchangeAnswers
QueriesRunAsTheirTenant == Pinned!QueriesRunAsTheirTenant
VerdictIsTheRequirements == Auth!VerdictIsTheRequirements
=============================================================================
