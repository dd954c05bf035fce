----------------------------- MODULE OutboxRelay -----------------------------
(***************************************************************************)
(* The outbox relay (packages/outbox/src/relay.ts) run by several          *)
(* processes over one table.  In each, one loop per tenant sleeps, takes a *)
(* slot, sweeps the tenant (claim, publish in order, mark) and prunes it.  *)
(*                                                                         *)
(* An action is what a loop does between two awaits.  Time is what wakes a *)
(* loop and decides whether its sweep or its prune is due; a publisher may *)
(* refuse, and what it refused may have gone out all the same.  Crashes,   *)
(* ended sessions and lost answers are counted against MaxFaults.          *)
(***************************************************************************)
EXTENDS OutboxStore, Sequences

CONSTANTS
  Concurrency,  \* slots of a relay: OUTBOX_CONCURRENCY
  Retain,       \* whether retention is on: OUTBOX_RETAIN_MS > 0
  MaxFaults     \* a bound on the faults of a behaviour

ASSUME RelayAssumption ==
  /\ Concurrency \in Nat \ {0} /\ MaxFaults \in Nat /\ Retain \in BOOLEAN

VARIABLES
  pc,           \* where each loop is
  swept,        \* what its last sweep answered
  batch, sent,  \* the claim's batch, and what of it has been published
  visible,      \* history: what was pending as the batch was read
  free,         \* slots nobody has
  waiting,      \* the queue for a slot, longest waiter first
  stopping,     \* the relay's AbortController
  deliveries,   \* how often each message has gone out
  faults

loopVars == <<pc, swept, batch, sent, visible>>
slotVars == <<free, waiting>>
worldVars == <<deliveries, faults>>
vars == <<storeVars, loopVars, slotVars, stopping, worldVars>>

\* Points at which a loop holds a slot.
Turning == {"turn", "claiming", "reading", "publishing", "marking", "swept", "pruning", "purging"}
Points == Turning \cup {"asleep", "queued", "done"}

Loop == Relay \X Tenant

Holding(r) == {t \in Tenant : pc[<<r, t>>] \in Turning}

TypeOK ==
  /\ StoreTypeOK
  /\ pc \in [Loop -> Points] /\ swept \in [Loop -> {"idle", "full", "failed"}]
  /\ batch \in [Loop -> SUBSET Message] /\ sent \in [Loop -> SUBSET Message]
  /\ visible \in [Loop -> SUBSET Message]
  /\ free \in [Relay -> 0..Concurrency] /\ waiting \in [Relay -> Seq(Tenant)]
  /\ stopping \in [Relay -> BOOLEAN]
  /\ deliveries \in [Message -> Nat] /\ faults \in 0..MaxFaults

Init ==
  /\ StoreInit
  /\ pc = [l \in Loop |-> "asleep"] /\ swept = [l \in Loop |-> "idle"]
  /\ batch = [l \in Loop |-> {}] /\ sent = [l \in Loop |-> {}]
  /\ visible = [l \in Loop |-> {}]
  /\ free = [r \in Relay |-> Concurrency] /\ waiting = [r \in Relay |-> <<>>]
  /\ stopping = [r \in Relay |-> FALSE]
  /\ deliveries = [m \in Message |-> 0] /\ faults = 0

Goto(r, t, p) == pc' = [pc EXCEPT ![<<r, t>>] = p]

-----------------------------------------------------------------------------
(* Slots: take and give.                                                    *)

\* take: a free slot, or the end of the queue.
Take(r, t) ==
  IF free[r] = 0
  THEN /\ waiting' = [waiting EXCEPT ![r] = Append(@, t)]
       /\ Goto(r, t, "queued")
       /\ UNCHANGED free
  ELSE /\ free' = [free EXCEPT ![r] = @ - 1]
       /\ Goto(r, t, "turn")
       /\ UNCHANGED waiting

\* Wrong: the slot goes back to the pool, for whoever comes next.
GiveToPool(r, t, p) ==
  /\ Goto(r, t, p)
  /\ free' = [free EXCEPT ![r] = @ + 1]
  /\ UNCHANGED waiting

\* give, as the loop of t goes to p: the slot passes straight to the longest waiter.
Give(r, t, p) ==
  IF waiting[r] = <<>>
  THEN /\ Goto(r, t, p)
       /\ free' = [free EXCEPT ![r] = @ + 1]
       /\ UNCHANGED waiting
  ELSE /\ pc' = [pc EXCEPT ![<<r, t>>] = p, ![<<r, Head(waiting[r])>>] = "turn"]
       /\ waiting' = [waiting EXCEPT ![r] = Tail(@)]
       /\ UNCHANGED free

-----------------------------------------------------------------------------
(* One loop.                                                                *)

\* The sleep is over, by the clock or by the stop: leave, or ask for a slot.
Wake(r, t) ==
  /\ pc[<<r, t>>] = "asleep"
  /\ IF stopping[r]
     THEN Goto(r, t, "done") /\ UNCHANGED slotVars
     ELSE Take(r, t)
  /\ UNCHANGED <<storeVars, swept, batch, sent, visible, stopping, worldVars>>

\* Wrong: a loop that leaves as the stop lands keeps the slot it was handed.
TurnStoppedKeeping(r, t) ==
  /\ pc[<<r, t>>] = "turn" /\ stopping[r]
  /\ Goto(r, t, "done")
  /\ UNCHANGED <<slotVars, storeVars, swept, batch, sent, visible, stopping, worldVars>>

\* A slot handed over as the stop landed goes back unused.
TurnStopped(r, t) ==
  /\ pc[<<r, t>>] = "turn" /\ stopping[r]
  /\ Give(r, t, "done")
  /\ UNCHANGED <<storeVars, swept, batch, sent, visible, stopping, worldVars>>

\* The sweep is due: open the claim's transaction.
TurnSweeps(r, t) ==
  /\ pc[<<r, t>>] = "turn" /\ ~stopping[r]
  /\ Goto(r, t, "claiming")
  /\ UNCHANGED <<storeVars, swept, batch, sent, visible, slotVars, stopping, worldVars>>

\* The loop woke for its prune, and a back-off still holds the sweep.
TurnOnlyPrunes(r, t) ==
  /\ pc[<<r, t>>] = "turn" /\ ~stopping[r]
  /\ Retain /\ swept[<<r, t>>] # "full"
  /\ Goto(r, t, "pruning")
  /\ UNCHANGED <<storeVars, swept, batch, sent, visible, slotVars, stopping, worldVars>>

\* A tenant another relay holds is skipped: the sweep answers idle.
ClaimLocks(r, t) ==
  /\ pc[<<r, t>>] = "claiming"
  /\ TryLock(r, t)
  /\ IF holder'[t] = r
     THEN Goto(r, t, "reading") /\ UNCHANGED swept
     ELSE Goto(r, t, "swept") /\ swept' = [swept EXCEPT ![<<r, t>>] = "idle"]
  /\ UNCHANGED <<batch, sent, visible, slotVars, stopping, worldVars>>

\* The batch is read in the transaction that holds the lock.
ClaimReads(r, t) ==
  /\ pc[<<r, t>>] = "reading" /\ holder[t] = r
  /\ batch' = [batch EXCEPT ![<<r, t>>] = Oldest(Pending(t), BatchLimit)]
  /\ sent' = [sent EXCEPT ![<<r, t>>] = {}]
  /\ visible' = [visible EXCEPT ![<<r, t>>] = Pending(t)]
  /\ Goto(r, t, IF Pending(t) = {} THEN "marking" ELSE "publishing")
  /\ UNCHANGED <<storeVars, swept, slotVars, stopping, worldVars>>

\* The session went before the batch was read: the claim is a defect.
ClaimFails(r, t) ==
  /\ pc[<<r, t>>] = "reading" /\ holder[t] # r
  /\ Goto(r, t, "swept")
  /\ swept' = [swept EXCEPT ![<<r, t>>] = "failed"]
  /\ UNCHANGED <<storeVars, batch, sent, visible, slotVars, stopping, worldVars>>

\* What publishInOrder publishes next.
NextToSend(r, t, m) ==
  /\ pc[<<r, t>>] = "publishing"
  /\ m \in batch[<<r, t>>] \ sent[<<r, t>>]
  /\ \A k \in batch[<<r, t>>] \ sent[<<r, t>>] : m <= k

\* The publisher answers Ok.
PublishOk(r, t) ==
  \E m \in Message :
    /\ NextToSend(r, t, m)
    /\ deliveries' = [deliveries EXCEPT ![m] = @ + 1]
    /\ sent' = [sent EXCEPT ![<<r, t>>] = @ \cup {m}]
    /\ IF sent'[<<r, t>>] = batch[<<r, t>>] THEN Goto(r, t, "marking") ELSE UNCHANGED pc
    /\ UNCHANGED <<storeVars, swept, batch, visible, slotVars, stopping, faults>>

\* Wrong: a refused message is left behind, and the rest of the batch goes out.
PublishSkipping(r, t, out) ==
  \E m \in Message :
    /\ NextToSend(r, t, m) /\ faults < MaxFaults
    /\ batch' = [batch EXCEPT ![<<r, t>>] = @ \ {m}]
    /\ IF sent[<<r, t>>] = batch'[<<r, t>>] THEN Goto(r, t, "marking") ELSE UNCHANGED pc
    /\ faults' = faults + 1
    /\ UNCHANGED <<storeVars, swept, sent, visible, slotVars, stopping, deliveries>>

\* It refuses, or its answer is lost (`out`): the batch stops there.
PublishRefused(r, t, out) ==
  \E m \in Message :
    /\ NextToSend(r, t, m) /\ faults < MaxFaults
    /\ deliveries' = IF out THEN [deliveries EXCEPT ![m] = @ + 1] ELSE deliveries
    /\ Goto(r, t, "marking")
    /\ faults' = faults + 1
    /\ UNCHANGED <<storeVars, swept, batch, sent, visible, slotVars, stopping>>

\* What the sweep answers when its claim ended as it should.
SweptAs(r, t) ==
  IF sent[<<r, t>>] # batch[<<r, t>>] THEN "failed"
  ELSE IF Cardinality(batch[<<r, t>>]) = BatchLimit THEN "full" ELSE "idle"

\* Wrong: marks the whole batch, whatever the publisher refused of it.
ClaimMarksBatch(r, t) ==
  /\ pc[<<r, t>>] = "marking"
  /\ Mark(r, t, batch[<<r, t>>])
  /\ swept' = [swept EXCEPT ![<<r, t>>] = IF holder[t] = r THEN SweptAs(r, t) ELSE "failed"]
  /\ Goto(r, t, "swept")
  /\ UNCHANGED <<batch, sent, visible, slotVars, stopping, worldVars>>

\* The mark and the commit; a session that has gone takes them with it.
ClaimMarks(r, t) ==
  /\ pc[<<r, t>>] = "marking"
  /\ Mark(r, t, sent[<<r, t>>])
  /\ swept' = [swept EXCEPT ![<<r, t>>] = IF holder[t] = r THEN SweptAs(r, t) ELSE "failed"]
  /\ Goto(r, t, "swept")
  /\ batch' = [batch EXCEPT ![<<r, t>>] = {}] /\ sent' = [sent EXCEPT ![<<r, t>>] = {}]
  /\ visible' = [visible EXCEPT ![<<r, t>>] = {}]
  /\ UNCHANGED <<slotVars, stopping, worldVars>>

\* A prune is due: not after a full batch, and not once the stop has landed.
TurnPrunes(r, t) ==
  /\ pc[<<r, t>>] = "swept" /\ ~stopping[r] /\ Retain /\ swept[<<r, t>>] # "full"
  /\ Goto(r, t, "pruning")
  /\ UNCHANGED <<storeVars, swept, batch, sent, visible, slotVars, stopping, worldVars>>

\* A prune skips a tenant that is held, and gives the slot back.
PruneLocks(r, t) ==
  /\ pc[<<r, t>>] = "pruning"
  /\ TryLock(r, t)
  /\ IF holder'[t] = r
     THEN Goto(r, t, "purging") /\ UNCHANGED slotVars
     ELSE Give(r, t, "asleep")
  /\ UNCHANGED <<swept, batch, sent, visible, stopping, worldVars>>

PruneDeletes(r, t) ==
  /\ pc[<<r, t>>] = "purging"
  /\ Purge(r, t)
  /\ Give(r, t, "asleep")
  /\ UNCHANGED <<swept, batch, sent, visible, stopping, worldVars>>

\* No prune is due: the turn ends.
TurnEnds(r, t) ==
  /\ pc[<<r, t>>] = "swept"
  /\ Give(r, t, "asleep")
  /\ UNCHANGED <<storeVars, swept, batch, sent, visible, stopping, worldVars>>

-----------------------------------------------------------------------------
(* Around the loops.                                                        *)

\* Wrong: the queue is emptied and nobody in it is told.
StopForgettingWaiters(r) ==
  /\ ~stopping[r]
  /\ stopping' = [stopping EXCEPT ![r] = TRUE]
  /\ waiting' = [waiting EXCEPT ![r] = <<>>]
  /\ UNCHANGED <<storeVars, loopVars, free, worldVars>>

\* stop(): every waiter is answered false and leaves its loop without a slot.
Stop(r) ==
  /\ ~stopping[r]
  /\ stopping' = [stopping EXCEPT ![r] = TRUE]
  /\ waiting' = [waiting EXCEPT ![r] = <<>>]
  /\ pc' = [l \in Loop |-> IF l[1] = r /\ pc[l] = "queued" THEN "done" ELSE pc[l]]
  /\ UNCHANGED <<storeVars, swept, batch, sent, visible, free, worldVars>>

\* The process dies and another takes its place.
Crash(r) ==
  /\ faults < MaxFaults /\ faults' = faults + 1
  /\ DropSessions(r)
  /\ pc' = [l \in Loop |-> IF l[1] = r THEN "asleep" ELSE pc[l]]
  /\ swept' = [l \in Loop |-> IF l[1] = r THEN "idle" ELSE swept[l]]
  /\ batch' = [l \in Loop |-> IF l[1] = r THEN {} ELSE batch[l]]
  /\ sent' = [l \in Loop |-> IF l[1] = r THEN {} ELSE sent[l]]
  /\ visible' = [l \in Loop |-> IF l[1] = r THEN {} ELSE visible[l]]
  /\ free' = [free EXCEPT ![r] = Concurrency]
  /\ waiting' = [waiting EXCEPT ![r] = <<>>]
  /\ stopping' = [stopping EXCEPT ![r] = FALSE]
  /\ UNCHANGED deliveries

SessionEnds(t) ==
  /\ faults < MaxFaults /\ faults' = faults + 1
  /\ EndSession(t)
  /\ UNCHANGED <<loopVars, slotVars, stopping, deliveries>>

Committed(m) ==
  /\ Commit(m)
  /\ UNCHANGED <<loopVars, slotVars, stopping, worldVars>>

\* What a loop does by itself.
Step(r, t) ==
  \/ Wake(r, t)
  \/ TurnStopped(r, t)
  \/ TurnSweeps(r, t)
  \/ TurnOnlyPrunes(r, t)
  \/ ClaimLocks(r, t)
  \/ ClaimReads(r, t)
  \/ ClaimFails(r, t)
  \/ PublishOk(r, t)
  \/ ClaimMarks(r, t)
  \/ TurnPrunes(r, t)
  \/ PruneLocks(r, t)
  \/ PruneDeletes(r, t)
  \/ TurnEnds(r, t)

Next ==
  \/ \E r \in Relay, t \in Tenant : Step(r, t)
  \/ \E r \in Relay, t \in Tenant, out \in BOOLEAN : PublishRefused(r, t, out)
  \/ \E r \in Relay : Stop(r) \/ Crash(r)
  \/ \E t \in Tenant : SessionEnds(t)
  \/ \E m \in Message : Committed(m)

Spec == Init /\ [][Next]_vars

\* Timers fire, the store answers and a publisher that is not refusing answers; a back-off
\* and a prune both end, so a loop that keeps getting turns sweeps in one of them.
Fairness ==
  \A r \in Relay, t \in Tenant : WF_vars(Step(r, t)) /\ SF_vars(TurnSweeps(r, t))

FairSpec == Spec /\ Fairness

-----------------------------------------------------------------------------
(* Properties.                                                              *)

Delivered == {m \in Message : deliveries[m] > 0}

\* A row is marked published, and retention deletes it, only when it has gone out: no crash,
\* ended session or refusal loses a fact.
NothingLost == marked \cup deleted \subseteq Delivered

\* A fact never overtakes an earlier one of its tenant that was pending when its batch was
\* read, whatever was refused and whoever else held the tenant since.
NeverOvertaken ==
  \A l \in Loop : \A j \in sent[l], i \in visible[l] : i < j => i \in Delivered

\* Every committed fact goes out before it counts as published, and in its tenant's order.
DeliveredInOrder == NothingLost /\ NeverOvertaken

\* Replicas take turns: without a fault nothing goes out twice, and each fault repeats a
\* message at most once.
RepeatsOnlyAfterFaults == \A m \in Message : deliveries[m] <= 1 + faults

\* Every slot is free or with a loop in its turn: a relay holds at most `concurrency`
\* connections, and none leaks, also through a stop that lands as a slot is handed over.
SlotsConserved == \A r \in Relay : free[r] + Cardinality(Holding(r)) = Concurrency

\* No slot idles while a loop waits for one, and no loop waits on a relay that has stopped.
NoSlotIdlesWhileWaited ==
  \A r \in Relay :
    /\ waiting[r] # <<>> => free[r] = 0 /\ ~stopping[r]
    /\ Cardinality({t \in Tenant : pc[<<r, t>>] = "queued"}) = Len(waiting[r])

\* Slots, the loops that hold one and the queue for one account for each other.
SlotsAccountedFor == SlotsConserved /\ NoSlotIdlesWhileWaited

\* stop() settles: every loop leaves, unless the process is replaced meanwhile.
StopFinishes ==
  \A r \in Relay : stopping[r] ~> (\A t \in Tenant : pc[<<r, t>>] = "done") \/ ~stopping[r]

\* A committed fact goes out while some relay keeps running, whatever other tenants have
\* queued: none of them keeps the slots to itself.
EveryFactGoesOut ==
  \A m \in Message : m \in committed ~> m \in Delivered \/ \A r \in Relay : stopping[r]
=============================================================================
