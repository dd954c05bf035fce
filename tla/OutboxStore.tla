----------------------------- MODULE OutboxStore -----------------------------
(***************************************************************************)
(* The outbox table behind packages/outbox/src/prisma.ts: rows that an     *)
(* application's transactions commit, and the advisory lock per tenant     *)
(* under which one relay at a time reads, marks or prunes them.  The lock  *)
(* belongs to the claiming session: it goes with the transaction, whether  *)
(* that commits, the relay crashes or the server ends the session.         *)
(***************************************************************************)
EXTENDS Naturals, FiniteSets

CONSTANTS
  Relay,        \* the processes that run a relay over the table
  Tenant,
  Message,      \* the ids the rows get, in outbox order
  TenantOf,     \* whose row each is
  BatchLimit,   \* BATCH
  PruneLimit,   \* PRUNE_BATCH
  Nobody        \* the holder of a free lock

ASSUME OutboxAssumption ==
  /\ Message \subseteq Nat /\ IsFiniteSet(Message) /\ IsFiniteSet(Tenant)
  /\ TenantOf \in [Message -> Tenant]
  /\ BatchLimit \in Nat \ {0} /\ PruneLimit \in Nat \ {0}
  /\ Nobody \notin Relay

VARIABLES
  committed,    \* rows whose transaction has committed
  marked,       \* rows with a publishedAt
  deleted,      \* rows that retention removed
  holder        \* whose session holds each tenant's lock

storeVars == <<committed, marked, deleted, holder>>

StoreTypeOK ==
  /\ committed \subseteq Message /\ marked \subseteq Message /\ deleted \subseteq Message
  /\ holder \in [Tenant -> Relay \cup {Nobody}]

StoreInit ==
  /\ committed = {} /\ marked = {} /\ deleted = {}
  /\ holder = [t \in Tenant |-> Nobody]

\* ORDER BY id LIMIT n.
Oldest(S, n) == {m \in S : Cardinality({k \in S : k < m}) < n}

Pending(t) == {m \in committed \ (marked \cup deleted) : TenantOf[m] = t}

-----------------------------------------------------------------------------

\* An application's transaction commits its row.  Ids are drawn before the commit, so a
\* lower id may surface after a higher one.
Commit(m) ==
  /\ m \in Message \ committed
  /\ committed' = committed \cup {m}
  /\ UNCHANGED <<marked, deleted, holder>>

\* Wrong: a lock that does not exclude.
TryLockShared(r, t) ==
  /\ holder' = [holder EXCEPT ![t] = r]
  /\ UNCHANGED <<committed, marked, deleted>>

\* pg_try_advisory_xact_lock: granted, or answered without waiting.
TryLock(r, t) ==
  /\ holder' = IF holder[t] = Nobody THEN [holder EXCEPT ![t] = r] ELSE holder
  /\ UNCHANGED <<committed, marked, deleted>>

\* The mark commits with the transaction that holds the lock, or not at all.
Mark(r, t, ids) ==
  /\ IF holder[t] = r
     THEN marked' = marked \cup ids /\ holder' = [holder EXCEPT ![t] = Nobody]
     ELSE UNCHANGED <<marked, holder>>
  /\ UNCHANGED <<committed, deleted>>

\* The delete of one prune.  Which marked rows are old enough is the clock's affair.
Purge(r, t) ==
  \E aged \in SUBSET {m \in marked \ deleted : TenantOf[m] = t} :
    /\ deleted' = IF holder[t] = r THEN deleted \cup Oldest(aged, PruneLimit) ELSE deleted
    /\ holder' = [holder EXCEPT ![t] = IF @ = r THEN Nobody ELSE @]
    /\ UNCHANGED <<committed, marked>>

\* The server ends a session: a terminated backend, a failover.
EndSession(t) ==
  /\ holder[t] # Nobody
  /\ holder' = [holder EXCEPT ![t] = Nobody]
  /\ UNCHANGED <<committed, marked, deleted>>

\* A process dies, and every session of it.
DropSessions(r) ==
  /\ holder' = [t \in Tenant |-> IF holder[t] = r THEN Nobody ELSE holder[t]]
  /\ UNCHANGED <<committed, marked, deleted>>
=============================================================================
