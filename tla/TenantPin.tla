------------------------------- MODULE TenantPin -------------------------------
(***************************************************************************)
(* tenantPinned (packages/prisma/src/rls.ts) over a pool of connections    *)
(* that other work shares: a transaction whose settings are set on its     *)
(* connection first, the tenant that row security reads among them.        *)
(*                                                                         *)
(* The database and the client's pool are outside: BEGIN, COMMIT and       *)
(* ROLLBACK bound what a transaction sets locally, a statement that fails  *)
(* rolls its transaction back, and a lost connection is replaced.          *)
(***************************************************************************)
CONSTANTS Task, Pooled, Tenant, NoTenant

VARIABLES
  wants,    \* the tenant a task is pinned to, NoTenant for one that queries outside
  mode,     \* the access mode it asks for: default or read only
  stage,    \* none, begun, characterised, pinned, ended
  on,       \* its connection
  session,  \* what a connection's session is set to
  local,    \* what its open transaction is set to
  read      \* history: the settings a task's last query ran under

tenantVars == <<wants, mode, stage, on, session, local, read>>

Fresh == [tenant |-> NoTenant, mode |-> "default"]
Modes == {"default", "readOnly"}

Init ==
  /\ wants \in [Task -> Tenant \cup {NoTenant}]
  /\ mode \in [Task -> Modes]
  /\ \A t \in Task : wants[t] = NoTenant => mode[t] = "default"
  /\ stage = [t \in Task |-> "none"]
  /\ on = [t \in Task |-> {}]
  /\ session = [c \in Pooled |-> Fresh]
  /\ local = session
  /\ read = [t \in Task |-> {}]

Free(c) == \A t \in Task : c \notin on[t]
Goto(t, where) == stage' = [stage EXCEPT ![t] = where]

\* db.transaction, or one statement of the same client: whichever connection is free.
Begin(t, c) ==
  /\ stage[t] = "none" /\ Free(c)
  /\ on' = [on EXCEPT ![t] = {c}]
  /\ local' = [local EXCEPT ![c] = session[c]]
  /\ Goto(t, IF wants[t] = NoTenant THEN "pinned" ELSE "begun")
  /\ UNCHANGED <<wants, mode, session, read>>

\* SET TRANSACTION, before the transaction's first query.
Characterise(t, c) ==
  /\ stage[t] = "begun" /\ c \in on[t]
  /\ local' = [local EXCEPT ![c].mode = IF mode[t] = "default" THEN @ ELSE mode[t]]
  /\ Goto(t, "characterised")
  /\ UNCHANGED <<wants, mode, on, session, read>>

\* Wrong: the session is pinned, beyond the transaction.
PinSession(t, c) ==
  /\ stage[t] = "characterised" /\ c \in on[t]
  /\ local' = [local EXCEPT ![c].tenant = wants[t]]
  /\ session' = [session EXCEPT ![c].tenant = wants[t]]
  /\ Goto(t, "pinned")
  /\ UNCHANGED <<wants, mode, on, read>>

\* set_config(setting, tenant, true).
Pin(t, c) ==
  /\ stage[t] = "characterised" /\ c \in on[t]
  /\ local' = [local EXCEPT ![c].tenant = wants[t]]
  /\ Goto(t, "pinned")
  /\ UNCHANGED <<wants, mode, on, session, read>>

\* Wrong: the work does not wait for the pin.
QueryEarly(t, c) ==
  /\ stage[t] \in {"characterised", "pinned"} /\ c \in on[t]
  /\ read' = [read EXCEPT ![t] = {local[c]}]
  /\ UNCHANGED <<wants, mode, stage, on, session, local>>

\* A query of `work`, on the transaction it was handed.
Query(t, c) ==
  /\ stage[t] = "pinned" /\ c \in on[t]
  /\ read' = [read EXCEPT ![t] = {local[c]}]
  /\ UNCHANGED <<wants, mode, stage, on, session, local>>

\* The transaction commits, or a step of it failed and it rolls back.
Over(t, c) ==
  /\ c \in on[t]
  /\ on' = [on EXCEPT ![t] = {}]
  /\ local' = [local EXCEPT ![c] = session[c]]
  /\ Goto(t, "ended")
  /\ UNCHANGED <<wants, mode, session, read>>

\* The connection is lost, and the pool opens another in its place.
Lost(t, c) ==
  /\ c \in on[t]
  /\ on' = [on EXCEPT ![t] = {}]
  /\ session' = [session EXCEPT ![c] = Fresh] /\ local' = [local EXCEPT ![c] = Fresh]
  /\ Goto(t, "ended")
  /\ UNCHANGED <<wants, mode, read>>

Next ==
  \E t \in Task, c \in Pooled :
    Begin(t, c) \/ Characterise(t, c) \/ Pin(t, c) \/ Query(t, c) \/ Over(t, c) \/ Lost(t, c)

Spec == Init /\ [][Next]_tenantVars

-----------------------------------------------------------------------------

\* A query runs under exactly the tenant and the mode its own call asked for, and one outside
\* a pin under none, on whichever connection of the shared pool it comes to run, after commits,
\* failures and reconnections of the tasks that had the connection before.
QueriesRunAsTheirTenant ==
  \A t \in Task : read[t] \subseteq {[tenant |-> wants[t], mode |-> mode[t]]}
=============================================================================
