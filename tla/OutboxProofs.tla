----------------------------- MODULE OutboxProofs -----------------------------
(***************************************************************************)
(* What holds of the outbox relay for every number of relays, tenants,     *)
(* rows, slots and faults.                                                 *)
(*                                                                         *)
(* Two invariants, each about its own part of the state.  PublishInv: what *)
(* a loop has sent is a prefix of its batch, its batch a prefix of what    *)
(* was pending, and both sides of the store only hold what went out.       *)
(* SlotInv: the slots of a relay, the loops in a turn and the queue for a  *)
(* slot account for each other; the types of the slots follow from it.     *)
(***************************************************************************)
EXTENDS OutboxHistory, FiniteSetTheorems, SequenceTheorems, TLAPS

-----------------------------------------------------------------------------
(* What has gone out, and in which order.                                   *)

\* Everything of `upper` that comes before something of `lower` is in `lower` too.
PrefixOf(lower, upper) ==
  /\ lower \subseteq upper
  /\ \A j \in lower, i \in upper : i < j => i \in lower

PublishInv ==
  /\ marked \cup deleted \subseteq Delivered
  /\ \A l \in Loop :
       /\ sent[l] \subseteq Delivered
       /\ PrefixOf(sent[l], batch[l])
       /\ PrefixOf(batch[l], visible[l])

\* What publishing reads and writes of the loops and the store, with its types.
PublishTypeOK ==
  /\ committed \subseteq Message
  /\ batch \in [Loop -> SUBSET Message] /\ sent \in [Loop -> SUBSET Message]
  /\ visible \in [Loop -> SUBSET Message]
  /\ deliveries \in [Message -> Nat]

publishVars == <<marked, deleted, batch, sent, visible, deliveries>>

\* ORDER BY id LIMIT n answers a prefix of the rows it selects from.
LEMMA OldestIsPrefix ==
  ASSUME NEW S \in SUBSET Message, NEW n \in Nat
  PROVE  PrefixOf(Oldest(S, n), S)
<1>1. IsFiniteSet(S)  BY OutboxAssumption, FS_Subset
<1>2. SUFFICES ASSUME NEW j \in Oldest(S, n), NEW i \in S, i < j
               PROVE  i \in Oldest(S, n)
  BY DEF PrefixOf, Oldest
<1> DEFINE Before(m) == {k \in S : k < m}
<1>3. j \in S /\ Cardinality(Before(j)) < n  BY <1>2 DEF Oldest
<1>4. S \subseteq Nat  BY OutboxAssumption
<1>5. Before(i) \subseteq Before(j)
  <2>1. ASSUME NEW k \in S, k < i PROVE k < j  BY <1>2, <1>3, <1>4, <2>1
  <2>2. QED  BY <2>1
<1>6. IsFiniteSet(Before(j))  BY <1>1, FS_Subset
<1>7. IsFiniteSet(Before(i)) /\ Cardinality(Before(i)) <= Cardinality(Before(j))
  BY <1>5, <1>6, FS_Subset
<1>8. Cardinality(Before(i)) \in Nat /\ Cardinality(Before(j)) \in Nat
  BY <1>6, <1>7, FS_CardinalityType
<1>9. Cardinality(Before(i)) < n  BY <1>3, <1>7, <1>8
<1>10. QED  BY <1>2, <1>9 DEF Oldest

\* A message that goes out adds to what has gone out, and takes nothing away.
LEMMA SendingDelivers ==
  ASSUME PublishTypeOK, NEW m \in Message,
         deliveries' = [deliveries EXCEPT ![m] = @ + 1]
  PROVE  Delivered' = Delivered \cup {m}
<1>1. \A k \in Message : deliveries[k] \in Nat  BY DEF PublishTypeOK
<1>2. \A k \in Message : deliveries'[k] = IF k = m THEN deliveries[k] + 1 ELSE deliveries[k]
  BY DEF PublishTypeOK
<1>3. QED  BY <1>1, <1>2 DEF Delivered

LEMMA PublishInit == Init => PublishInv
<1>1. ASSUME Init PROVE PublishInv
  <2>1. marked \cup deleted = {}  BY <1>1 DEF Init, StoreInit
  <2>2. \A l \in Loop : sent[l] = {} /\ batch[l] = {} /\ visible[l] = {}  BY <1>1 DEF Init
  <2>3. QED  BY <2>1, <2>2 DEF PublishInv, PrefixOf
<1>2. QED  BY <1>1

LEMMA PublishReads ==
  ASSUME PublishTypeOK, PublishInv, NEW r \in Relay, NEW t \in Tenant, ClaimReads(r, t)
  PROVE  PublishInv'
<1>1. Pending(t) \in SUBSET Message  BY DEF Pending, PublishTypeOK
<1>2. PrefixOf(Oldest(Pending(t), BatchLimit), Pending(t))
  <2>1. BatchLimit \in Nat  BY OutboxAssumption
  <2>2. QED  BY <1>1, <2>1, OldestIsPrefix
<1>3. Delivered' = Delivered /\ marked' = marked /\ deleted' = deleted
  BY DEF ClaimReads, Delivered, worldVars, storeVars
<1>4. ASSUME NEW l \in Loop
      PROVE  /\ sent'[l] \subseteq Delivered'
             /\ PrefixOf(sent'[l], batch'[l])
             /\ PrefixOf(batch'[l], visible'[l])
  <2>1. CASE l = <<r, t>>
    <3>1. sent'[l] = {} /\ batch'[l] = Oldest(Pending(t), BatchLimit) /\ visible'[l] = Pending(t)
      BY <1>4, <2>1 DEF ClaimReads, PublishTypeOK
    <3>2. QED  BY <3>1, <1>2 DEF PrefixOf
  <2>2. CASE l # <<r, t>>
    <3>1. sent'[l] = sent[l] /\ batch'[l] = batch[l] /\ visible'[l] = visible[l]
      BY <1>4, <2>2 DEF ClaimReads, PublishTypeOK
    <3>2. QED  BY <3>1, <1>3, <1>4 DEF PublishInv
  <2>3. QED  BY <2>1, <2>2
<1>5. QED  BY <1>3, <1>4 DEF PublishInv

LEMMA PublishSends ==
  ASSUME PublishTypeOK, PublishInv, NEW r \in Relay, NEW t \in Tenant, PublishOk(r, t)
  PROVE  PublishInv'
<1>1. PICK m \in Message :
        /\ NextToSend(r, t, m)
        /\ deliveries' = [deliveries EXCEPT ![m] = @ + 1]
        /\ sent' = [sent EXCEPT ![<<r, t>>] = @ \cup {m}]
        /\ UNCHANGED <<marked, deleted, batch, visible>>
  BY DEF PublishOk, storeVars
<1>2. Delivered' = Delivered \cup {m}  BY <1>1, SendingDelivers
<1>3. ASSUME NEW l \in Loop
      PROVE  sent'[l] \subseteq Delivered' /\ PrefixOf(sent'[l], batch[l])
  <2>1. sent[l] \subseteq Delivered /\ PrefixOf(sent[l], batch[l])  BY <1>3 DEF PublishInv
  <2>2. CASE l = <<r, t>>
    <3>1. sent'[l] = sent[l] \cup {m}  BY <1>1, <1>3, <2>2 DEF PublishTypeOK
    <3>2. m \in batch[l] /\ \A k \in batch[l] \ sent[l] : m <= k  BY <1>1, <2>2 DEF NextToSend
    <3>3. batch[l] \subseteq Nat  BY <1>3, OutboxAssumption DEF PublishTypeOK
    <3>4. \A i \in batch[l] : i < m => i \in sent[l]  BY <3>2, <3>3
    <3>5. QED  BY <2>1, <3>1, <3>2, <3>4, <1>2 DEF PrefixOf
  <2>3. CASE l # <<r, t>>
    <3>1. sent'[l] = sent[l]  BY <1>1, <1>3, <2>3 DEF PublishTypeOK
    <3>2. QED  BY <2>1, <3>1, <1>2
  <2>4. QED  BY <2>2, <2>3
<1>4. QED  BY <1>1, <1>2, <1>3 DEF PublishInv

LEMMA PublishStops ==
  ASSUME PublishTypeOK, PublishInv, NEW r \in Relay, NEW t \in Tenant, NEW out \in BOOLEAN,
         PublishRefused(r, t, out)
  PROVE  PublishInv'
<1>1. PICK m \in Message :
        /\ deliveries' = IF out THEN [deliveries EXCEPT ![m] = @ + 1] ELSE deliveries
        /\ UNCHANGED <<marked, deleted, batch, sent, visible>>
  BY DEF PublishRefused, storeVars
<1>2. Delivered \subseteq Delivered'
  <2>1. CASE out  BY <2>1, <1>1, SendingDelivers
  <2>2. CASE ~out  BY <2>2, <1>1 DEF Delivered
  <2>3. QED  BY <2>1, <2>2
<1>3. QED  BY <1>1, <1>2 DEF PublishInv

LEMMA PublishMarks ==
  ASSUME PublishTypeOK, PublishInv, NEW r \in Relay, NEW t \in Tenant, ClaimMarks(r, t)
  PROVE  PublishInv'
<1>1. <<r, t>> \in Loop  BY DEF Loop
<1>2. Delivered' = Delivered /\ deleted' = deleted
  BY DEF ClaimMarks, Mark, Delivered, worldVars
<1>3. marked' \subseteq marked \cup sent[<<r, t>>]  BY DEF ClaimMarks, Mark
<1>4. ASSUME NEW l \in Loop
      PROVE  /\ sent'[l] \subseteq Delivered'
             /\ PrefixOf(sent'[l], batch'[l])
             /\ PrefixOf(batch'[l], visible'[l])
  <2>1. CASE l = <<r, t>>
    <3>1. sent'[l] = {} /\ batch'[l] = {} /\ visible'[l] = {}
      BY <1>4, <2>1 DEF ClaimMarks, PublishTypeOK
    <3>2. QED  BY <3>1 DEF PrefixOf
  <2>2. CASE l # <<r, t>>
    <3>1. sent'[l] = sent[l] /\ batch'[l] = batch[l] /\ visible'[l] = visible[l]
      BY <1>4, <2>2 DEF ClaimMarks, PublishTypeOK
    <3>2. QED  BY <3>1, <1>2, <1>4 DEF PublishInv
  <2>3. QED  BY <2>1, <2>2
<1>5. QED  BY <1>1, <1>2, <1>3, <1>4 DEF PublishInv

LEMMA PublishPrunes ==
  ASSUME PublishInv, NEW r \in Relay, NEW t \in Tenant, PruneDeletes(r, t)
  PROVE  PublishInv'
<1>1. deleted' \subseteq deleted \cup marked /\ marked' = marked
  BY DEF PruneDeletes, Purge, Oldest
<1>2. Delivered' = Delivered /\ UNCHANGED <<batch, sent, visible>>
  BY DEF PruneDeletes, worldVars, Delivered
<1>3. QED  BY <1>1, <1>2 DEF PublishInv

LEMMA PublishCrashes ==
  ASSUME PublishTypeOK, PublishInv, NEW r \in Relay, Crash(r)
  PROVE  PublishInv'
<1>1. Delivered' = Delivered /\ marked' = marked /\ deleted' = deleted
  BY DEF Crash, DropSessions, Delivered
<1>2. ASSUME NEW l \in Loop
      PROVE  /\ sent'[l] \subseteq Delivered'
             /\ PrefixOf(sent'[l], batch'[l])
             /\ PrefixOf(batch'[l], visible'[l])
  <2>1. \/ sent'[l] = {} /\ batch'[l] = {} /\ visible'[l] = {}
        \/ sent'[l] = sent[l] /\ batch'[l] = batch[l] /\ visible'[l] = visible[l]
    BY <1>2 DEF Crash
  <2>2. QED  BY <2>1, <1>1, <1>2 DEF PublishInv, PrefixOf
<1>3. QED  BY <1>1, <1>2 DEF PublishInv

LEMMA PublishStep == PublishTypeOK /\ PublishInv /\ [Next]_vars => PublishInv'
<1> SUFFICES ASSUME PublishTypeOK, PublishInv, [Next]_vars PROVE PublishInv'
  OBVIOUS
<1>1. ASSUME UNCHANGED publishVars PROVE PublishInv'
  BY <1>1 DEF publishVars, PublishInv, Delivered
<1> USE DEF storeVars, loopVars, worldVars
<1>2. ASSUME NEW r \in Relay, NEW t \in Tenant, Step(r, t) PROVE PublishInv'
  <2>1. CASE ClaimReads(r, t)  BY <2>1, PublishReads
  <2>2. CASE PublishOk(r, t)  BY <2>2, PublishSends
  <2>3. CASE ClaimMarks(r, t)  BY <2>3, PublishMarks
  <2>4. CASE PruneDeletes(r, t)  BY <2>4, PublishPrunes
  <2>5. CASE Wake(r, t) \/ TurnStopped(r, t) \/ TurnSweeps(r, t) \/ TurnOnlyPrunes(r, t)
    BY <1>1, <2>5 DEF Wake, TurnStopped, TurnSweeps, TurnOnlyPrunes, publishVars
  <2>6. CASE ClaimLocks(r, t) \/ ClaimFails(r, t) \/ TurnPrunes(r, t) \/ PruneLocks(r, t) \/ TurnEnds(r, t)
    BY <1>1, <2>6 DEF ClaimLocks, ClaimFails, TurnPrunes, PruneLocks, TurnEnds, TryLock, publishVars
  <2>7. QED  BY <1>2, <2>1, <2>2, <2>3, <2>4, <2>5, <2>6 DEF Step
<1>3. ASSUME NEW r \in Relay, NEW t \in Tenant, NEW out \in BOOLEAN, PublishRefused(r, t, out)
      PROVE  PublishInv'
  BY <1>3, PublishStops
<1>4. ASSUME NEW r \in Relay, Stop(r) PROVE PublishInv'
  BY <1>1, <1>4 DEF Stop, publishVars
<1>5. ASSUME NEW r \in Relay, Crash(r) PROVE PublishInv'
  BY <1>5, PublishCrashes
<1>6. ASSUME NEW t \in Tenant, SessionEnds(t) PROVE PublishInv'
  BY <1>1, <1>6 DEF SessionEnds, EndSession, publishVars
<1>7. ASSUME NEW m \in Message, Committed(m) PROVE PublishInv'
  BY <1>1, <1>7 DEF Committed, Commit, publishVars
<1>8. CASE UNCHANGED vars
  BY <1>1, <1>8 DEF vars, publishVars
<1>9. QED  BY <1>2, <1>3, <1>4, <1>5, <1>6, <1>7, <1>8 DEF Next
-----------------------------------------------------------------------------
(* The slots of a relay, and the queue for them.                            *)

QueuedOn(r) == {t \in Tenant : pc[<<r, t>>] = "queued"}

SlotsOf(r) ==
  /\ free[r] + Cardinality(Holding(r)) = Concurrency
  /\ waiting[r] # <<>> => free[r] = 0 /\ ~stopping[r]
  /\ Cardinality(QueuedOn(r)) = Len(waiting[r])
  /\ \A i \in 1..Len(waiting[r]) : waiting[r][i] \in QueuedOn(r)
  /\ \A i, j \in 1..Len(waiting[r]) : i # j => waiting[r][i] # waiting[r][j]

SlotInv == \A r \in Relay : SlotsOf(r)

\* The types of what the slots are made of.
SlotTypeOK ==
  /\ pc \in [Loop -> Points]
  /\ free \in [Relay -> 0..Concurrency] /\ waiting \in [Relay -> Seq(Tenant)]
  /\ stopping \in [Relay -> BOOLEAN]

\* A relay whose slots, queue and loops a step leaves alone.
Untouched(r) ==
  /\ free'[r] = free[r] /\ waiting'[r] = waiting[r] /\ stopping'[r] = stopping[r]
  /\ Holding(r)' = Holding(r) /\ QueuedOn(r)' = QueuedOn(r)

LEMMA UntouchedKeeps ==
  ASSUME NEW r \in Relay, SlotsOf(r), Untouched(r)
  PROVE  SlotsOf(r)'
BY DEF SlotsOf, Untouched

LEMMA LoopsFinite ==
  ASSUME NEW r
  PROVE  IsFiniteSet(Holding(r)) /\ IsFiniteSet(QueuedOn(r))
BY OutboxAssumption, FS_Subset DEF Holding, QueuedOn

\* A step of one loop within its turn, or outside it.
LEMMA MoveWithin ==
  ASSUME SlotTypeOK, SlotInv, NEW r \in Relay, NEW t \in Tenant, NEW p \in Points,
         Goto(r, t, p), UNCHANGED <<free, waiting, stopping>>,
         pc[<<r, t>>] \in Turning <=> p \in Turning, pc[<<r, t>>] # "queued", p # "queued"
  PROVE  SlotTypeOK' /\ SlotInv'
<1>1. \A l \in Loop : pc'[l] = IF l = <<r, t>> THEN p ELSE pc[l]
  BY DEF Goto, SlotTypeOK
<1>2. SlotTypeOK'
  BY DEF SlotTypeOK, Goto
<1>3. ASSUME NEW s \in Relay PROVE Untouched(s)
  <2>1. \A u \in Tenant : <<s, u>> \in Loop  BY DEF Loop
  <2>2. Holding(s)' = Holding(s)  BY <1>1, <2>1 DEF Holding
  <2>3. QueuedOn(s)' = QueuedOn(s)  BY <1>1, <2>1 DEF QueuedOn
  <2>4. QED  BY <2>2, <2>3 DEF Untouched
<1>4. QED  BY <1>2, <1>3, UntouchedKeeps DEF SlotInv

LEMMA TakeKeeps ==
  ASSUME SlotTypeOK, SlotInv, NEW r \in Relay, NEW t \in Tenant,
         pc[<<r, t>>] = "asleep", ~stopping[r], Take(r, t), UNCHANGED stopping
  PROVE  SlotTypeOK' /\ SlotInv'
<1> DEFINE p == IF free[r] = 0 THEN "queued" ELSE "turn"
<1>1. \A l \in Loop : pc'[l] = IF l = <<r, t>> THEN p ELSE pc[l]
  BY DEF Take, Goto, SlotTypeOK
<1>2. \A u \in Tenant, s \in Relay : <<s, u>> \in Loop  BY DEF Loop
<1>3. pc' \in [Loop -> Points]  BY DEF Take, Goto, SlotTypeOK, Points, Turning
<1>4. ASSUME NEW s \in Relay, s # r PROVE SlotsOf(s)'
  <2>1. free'[s] = free[s] /\ waiting'[s] = waiting[s]  BY <1>4 DEF Take, SlotTypeOK
  <2>2. Holding(s)' = Holding(s) /\ QueuedOn(s)' = QueuedOn(s)
    BY <1>1, <1>2, <1>4 DEF Holding, QueuedOn
  <2>3. QED  BY <1>4, <2>1, <2>2, UntouchedKeeps DEF Untouched, SlotInv
<1>5. SlotsOf(r)  BY DEF SlotInv
<1>6. waiting[r] \in Seq(Tenant) /\ free[r] \in 0..Concurrency /\ Concurrency \in Nat
  BY RelayAssumption DEF SlotTypeOK
<1>7. t \notin Holding(r) /\ t \notin QueuedOn(r)
  BY DEF Holding, QueuedOn, Turning
<1>8. IsFiniteSet(Holding(r)) /\ IsFiniteSet(QueuedOn(r))  BY LoopsFinite
<1>9. Cardinality(Holding(r)) \in Nat /\ Cardinality(QueuedOn(r)) \in Nat
  BY <1>8, FS_CardinalityType
<1>10. CASE free[r] = 0
  <2>1. free' = free /\ waiting' = [waiting EXCEPT ![r] = Append(waiting[r], t)]
    BY <1>10 DEF Take
  <2>2. waiting'[r] = Append(waiting[r], t)  BY <2>1 DEF SlotTypeOK
  <2>3. Holding(r)' = Holding(r)  BY <1>1, <1>2, <1>7, <1>10 DEF Holding, Turning
  <2>4. QueuedOn(r)' = QueuedOn(r) \cup {t}  BY <1>1, <1>2, <1>10 DEF QueuedOn
  <2>5. Cardinality(QueuedOn(r)') = Cardinality(QueuedOn(r)) + 1
    BY <1>7, <1>8, <2>4, FS_AddElement
  <2>6. /\ Len(waiting'[r]) = Len(waiting[r]) + 1
        /\ waiting'[r] \in Seq(Tenant)
        /\ \A i \in 1..Len(waiting[r]) : waiting'[r][i] = waiting[r][i]
        /\ waiting'[r][Len(waiting[r]) + 1] = t
    BY <1>6, <2>2
  <2>7. \A i \in 1..Len(waiting'[r]) :
          i \in 1..Len(waiting[r]) \/ i = Len(waiting[r]) + 1
    BY <1>6, <2>6
  <2>8. SlotsOf(r)'
    <3>1. \A i \in 1..Len(waiting'[r]) : waiting'[r][i] \in QueuedOn(r)'
      BY <1>5, <2>4, <2>6, <2>7 DEF SlotsOf
    <3>2. \A i, j \in 1..Len(waiting'[r]) : i # j => waiting'[r][i] # waiting'[r][j]
      BY <1>5, <1>7, <2>6, <2>7 DEF SlotsOf
    <3>3. free'[r] + Cardinality(Holding(r)') = Concurrency  BY <1>5, <2>1, <2>3 DEF SlotsOf
    <3>4. free'[r] = 0 /\ ~stopping'[r]  BY <1>10, <2>1
    <3>5. Cardinality(QueuedOn(r)') = Len(waiting'[r])  BY <1>5, <2>5, <2>6 DEF SlotsOf
    <3>6. QED  BY <3>1, <3>2, <3>3, <3>4, <3>5 DEF SlotsOf
  <2>9. SlotTypeOK'  BY <1>3, <2>1, <2>2, <2>6 DEF SlotTypeOK
  <2>10. QED  BY <1>4, <2>8, <2>9 DEF SlotInv
<1>11. CASE free[r] # 0
  <2>1. free' = [free EXCEPT ![r] = free[r] - 1] /\ waiting' = waiting
    BY <1>11 DEF Take
  <2>2. free'[r] = free[r] - 1 /\ waiting'[r] = <<>>
    BY <1>5, <1>11, <2>1 DEF SlotTypeOK, SlotsOf
  <2>3. Holding(r)' = Holding(r) \cup {t}  BY <1>1, <1>2, <1>11 DEF Holding, Turning
  <2>4. QueuedOn(r)' = QueuedOn(r)  BY <1>1, <1>2, <1>7, <1>11 DEF QueuedOn
  <2>5. Cardinality(Holding(r)') = Cardinality(Holding(r)) + 1
    BY <1>7, <1>8, <2>3, FS_AddElement
  <2>6. free'[r] + Cardinality(Holding(r)') = Concurrency
    BY <1>5, <1>6, <1>9, <2>2, <2>5 DEF SlotsOf
  <2>7. SlotsOf(r)'  BY <1>5, <1>6, <2>1, <2>2, <2>4, <2>6 DEF SlotsOf
  <2>8. SlotTypeOK'  BY <1>3, <1>6, <1>11, <2>1 DEF SlotTypeOK
  <2>9. QED  BY <1>4, <2>7, <2>8 DEF SlotInv
<1>12. QED  BY <1>10, <1>11

\* give: to the longest waiter, or back to the pool.
LEMMA GiveKeeps ==
  ASSUME SlotTypeOK, SlotInv, NEW r \in Relay, NEW t \in Tenant, NEW p \in {"asleep", "done"},
         pc[<<r, t>>] \in Turning, Give(r, t, p), UNCHANGED stopping
  PROVE  SlotTypeOK' /\ SlotInv'
<1>1. \A u \in Tenant, s \in Relay : <<s, u>> \in Loop  BY DEF Loop
<1>2. p \in Points /\ "turn" \in Points /\ p \notin Turning /\ p # "queued"
  BY DEF Points, Turning
<1>3. SlotsOf(r)  BY DEF SlotInv
<1>4. waiting[r] \in Seq(Tenant) /\ free[r] \in 0..Concurrency /\ Concurrency \in Nat
  BY RelayAssumption DEF SlotTypeOK
<1>5. t \in Holding(r) /\ t \notin QueuedOn(r)  BY DEF Holding, QueuedOn, Turning
<1>6. IsFiniteSet(Holding(r)) /\ IsFiniteSet(QueuedOn(r))  BY LoopsFinite
<1>7. Cardinality(Holding(r)) \in Nat /\ Cardinality(QueuedOn(r)) \in Nat
  BY <1>6, FS_CardinalityType
<1>8. IsFiniteSet(Holding(r) \ {t}) /\ Cardinality(Holding(r) \ {t}) = Cardinality(Holding(r)) - 1
  BY <1>5, <1>6, FS_RemoveElement
<1>9. CASE waiting[r] = <<>>
  <2>1. /\ pc' = [pc EXCEPT ![<<r, t>>] = p] /\ waiting' = waiting
        /\ free' = [free EXCEPT ![r] = free[r] + 1]
    BY <1>9 DEF Give, Goto
  <2>2. \A l \in Loop : pc'[l] = IF l = <<r, t>> THEN p ELSE pc[l]  BY <2>1 DEF SlotTypeOK
  <2>3. Holding(r)' = Holding(r) \ {t}  BY <1>1, <1>2, <2>2 DEF Holding
  <2>4. QueuedOn(r)' = QueuedOn(r)  BY <1>1, <1>2, <1>5, <2>2 DEF QueuedOn
  <2>5. free'[r] = free[r] + 1  BY <2>1 DEF SlotTypeOK
  <2>6. free'[r] + Cardinality(Holding(r)') = Concurrency
    BY <1>3, <1>4, <1>7, <1>8, <2>3, <2>5 DEF SlotsOf
  <2>7. free'[r] \in 0..Concurrency
    <3>1. Cardinality(Holding(r)') \in Nat  BY <1>8, <2>3, FS_CardinalityType
    <3>2. QED  BY <1>4, <2>5, <2>6, <3>1
  <2>8. SlotsOf(r)'  BY <1>3, <1>9, <2>1, <2>4, <2>6 DEF SlotsOf
  <2>9. ASSUME NEW s \in Relay, s # r PROVE SlotsOf(s)'
    <3>1. free'[s] = free[s] /\ waiting'[s] = waiting[s]  BY <2>1, <2>9 DEF SlotTypeOK
    <3>2. Holding(s)' = Holding(s) /\ QueuedOn(s)' = QueuedOn(s)
      BY <1>1, <2>2, <2>9 DEF Holding, QueuedOn
    <3>3. QED  BY <2>9, <3>1, <3>2, UntouchedKeeps DEF Untouched, SlotInv
  <2>10. SlotTypeOK'  BY <1>2, <2>1, <2>5, <2>7 DEF SlotTypeOK
  <2>11. QED  BY <2>8, <2>9, <2>10 DEF SlotInv
<1>10. CASE waiting[r] # <<>>
  <2> DEFINE next == Head(waiting[r])
  <2>1. /\ pc' = [pc EXCEPT ![<<r, t>>] = p, ![<<r, next>>] = "turn"] /\ free' = free
        /\ waiting' = [waiting EXCEPT ![r] = Tail(waiting[r])]
    BY <1>10 DEF Give
  <2>2. next = waiting[r][1] /\ 1 \in 1..Len(waiting[r]) /\ next \in Tenant
    BY <1>4, <1>10
  <2>3. next \in QueuedOn(r) /\ next # t  BY <1>3, <1>5, <2>2 DEF SlotsOf
  <2>4. <<r, next>> \in Loop /\ <<r, next>> # <<r, t>>  BY <1>1, <2>2, <2>3
  <2>5. \A l \in Loop : pc'[l] = IF l = <<r, next>> THEN "turn" ELSE IF l = <<r, t>> THEN p ELSE pc[l]
    BY <2>1, <2>4 DEF SlotTypeOK
  <2>6. next \notin Holding(r)  BY <2>3 DEF Holding, QueuedOn, Turning
  <2>7. Holding(r)' = (Holding(r) \ {t}) \cup {next}
    BY <1>1, <1>2, <2>2, <2>3, <2>5 DEF Holding, Turning
  <2>8. QueuedOn(r)' = QueuedOn(r) \ {next}
    BY <1>1, <1>2, <1>5, <2>2, <2>5 DEF QueuedOn
  <2>9. Cardinality(Holding(r)') = Cardinality(Holding(r))
    <3>1. next \notin Holding(r) \ {t}  BY <2>6
    <3>2. Cardinality((Holding(r) \ {t}) \cup {next}) = Cardinality(Holding(r) \ {t}) + 1
      BY <1>8, <3>1, FS_AddElement
    <3>3. QED  BY <1>7, <1>8, <2>7, <3>2
  <2>10. Cardinality(QueuedOn(r)') = Cardinality(QueuedOn(r)) - 1
    BY <1>6, <2>3, <2>8, FS_RemoveElement
  <2>11. waiting'[r] = Tail(waiting[r])  BY <2>1 DEF SlotTypeOK
  <2>12. /\ waiting'[r] \in Seq(Tenant) /\ Len(waiting'[r]) = Len(waiting[r]) - 1
         /\ \A i \in 1..Len(waiting'[r]) : waiting'[r][i] = waiting[r][i + 1]
    BY <1>4, <1>10, <2>11
  <2>13. \A i \in 1..Len(waiting'[r]) : i + 1 \in 1..Len(waiting[r]) /\ i + 1 # 1
    BY <1>4, <2>12
  <2>14. SlotsOf(r)'
    <3>1. free'[r] + Cardinality(Holding(r)') = Concurrency  BY <1>3, <2>1, <2>9 DEF SlotsOf
    <3>2. free'[r] = 0 /\ ~stopping'[r]  BY <1>3, <1>10, <2>1 DEF SlotsOf
    <3>3. Cardinality(QueuedOn(r)') = Len(waiting'[r])  BY <1>3, <2>10, <2>12 DEF SlotsOf
    <3>4. \A i \in 1..Len(waiting'[r]) : waiting'[r][i] \in QueuedOn(r)'
      BY <1>3, <2>2, <2>8, <2>12, <2>13 DEF SlotsOf
    <3>5. ASSUME NEW i \in 1..Len(waiting'[r]), NEW j \in 1..Len(waiting'[r]), i # j
          PROVE  waiting'[r][i] # waiting'[r][j]
      <4>1. i + 1 # j + 1  BY <3>5
      <4>2. QED  BY <1>3, <2>12, <2>13, <4>1 DEF SlotsOf
    <3>6. QED  BY <3>1, <3>2, <3>3, <3>4, <3>5 DEF SlotsOf
  <2>15. ASSUME NEW s \in Relay, s # r PROVE SlotsOf(s)'
    <3>1. free'[s] = free[s] /\ waiting'[s] = waiting[s]  BY <2>1, <2>15 DEF SlotTypeOK
    <3>2. Holding(s)' = Holding(s) /\ QueuedOn(s)' = QueuedOn(s)
      BY <1>1, <2>5, <2>15 DEF Holding, QueuedOn
    <3>3. QED  BY <2>15, <3>1, <3>2, UntouchedKeeps DEF Untouched, SlotInv
  <2>16. SlotTypeOK'
    <3>1. pc' \in [Loop -> Points]  BY <1>2, <2>1 DEF SlotTypeOK
    <3>2. QED  BY <2>1, <2>11, <2>12, <3>1 DEF SlotTypeOK
  <2>17. QED  BY <2>14, <2>15, <2>16 DEF SlotInv
<1>11. QED  BY <1>9, <1>10

\* stop(): the queue is emptied, and everyone in it leaves.
LEMMA StopKeeps ==
  ASSUME SlotTypeOK, SlotInv, NEW r \in Relay, Stop(r)
  PROVE  SlotTypeOK' /\ SlotInv'
<1>1. \A u \in Tenant, s \in Relay : <<s, u>> \in Loop /\ <<s, u>>[1] = s  BY DEF Loop
<1>2. /\ stopping' = [stopping EXCEPT ![r] = TRUE] /\ waiting' = [waiting EXCEPT ![r] = <<>>]
      /\ free' = free
      /\ pc' = [l \in Loop |-> IF l[1] = r /\ pc[l] = "queued" THEN "done" ELSE pc[l]]
  BY DEF Stop
<1>3. SlotTypeOK'  BY <1>2 DEF SlotTypeOK, Points
<1>4. ASSUME NEW s \in Relay PROVE Holding(s)' = Holding(s)
  BY <1>1, <1>2, <1>4 DEF Holding, Turning
<1>5. SlotsOf(r)'
  <2>1. waiting'[r] = <<>>  BY <1>2 DEF SlotTypeOK
  <2>2. QueuedOn(r)' = {}  BY <1>1, <1>2 DEF QueuedOn
  <2>3. Cardinality(QueuedOn(r)') = Len(waiting'[r])  BY <2>1, <2>2, FS_EmptySet
  <2>4. free'[r] + Cardinality(Holding(r)') = Concurrency  BY <1>2, <1>4 DEF SlotInv, SlotsOf
  <2>5. QED  BY <2>1, <2>3, <2>4 DEF SlotsOf
<1>6. ASSUME NEW s \in Relay, s # r PROVE SlotsOf(s)'
  <2>1. free'[s] = free[s] /\ waiting'[s] = waiting[s] /\ stopping'[s] = stopping[s]
    BY <1>2, <1>6 DEF SlotTypeOK
  <2>2. QueuedOn(s)' = QueuedOn(s)  BY <1>1, <1>2, <1>6 DEF QueuedOn
  <2>3. QED  BY <1>4, <1>6, <2>1, <2>2, UntouchedKeeps DEF Untouched, SlotInv
<1>7. QED  BY <1>3, <1>5, <1>6 DEF SlotInv

\* The process that takes over starts with every slot free and nobody queued.
LEMMA CrashKeeps ==
  ASSUME SlotTypeOK, SlotInv, NEW r \in Relay, Crash(r)
  PROVE  SlotTypeOK' /\ SlotInv'
<1>1. \A u \in Tenant, s \in Relay : <<s, u>> \in Loop /\ <<s, u>>[1] = s  BY DEF Loop
<1>2. /\ stopping' = [stopping EXCEPT ![r] = FALSE] /\ waiting' = [waiting EXCEPT ![r] = <<>>]
      /\ free' = [free EXCEPT ![r] = Concurrency]
      /\ pc' = [l \in Loop |-> IF l[1] = r THEN "asleep" ELSE pc[l]]
  BY DEF Crash
<1>3. SlotTypeOK'  BY <1>2, RelayAssumption DEF SlotTypeOK, Points
<1>4. SlotsOf(r)'
  <2>1. waiting'[r] = <<>> /\ free'[r] = Concurrency  BY <1>2 DEF SlotTypeOK
  <2>2. QueuedOn(r)' = {} /\ Holding(r)' = {}  BY <1>1, <1>2 DEF QueuedOn, Holding, Turning
  <2>3. QED  BY <2>1, <2>2, FS_EmptySet, RelayAssumption DEF SlotsOf
<1>5. ASSUME NEW s \in Relay, s # r PROVE SlotsOf(s)'
  <2>1. free'[s] = free[s] /\ waiting'[s] = waiting[s] /\ stopping'[s] = stopping[s]
    BY <1>2, <1>5 DEF SlotTypeOK
  <2>2. QueuedOn(s)' = QueuedOn(s) /\ Holding(s)' = Holding(s)
    BY <1>1, <1>2, <1>5 DEF QueuedOn, Holding
  <2>3. QED  BY <1>5, <2>1, <2>2, UntouchedKeeps DEF Untouched, SlotInv
<1>6. QED  BY <1>3, <1>4, <1>5 DEF SlotInv

LEMMA SlotsInit == Init => SlotTypeOK /\ SlotInv
<1> SUFFICES ASSUME Init PROVE SlotTypeOK /\ SlotInv
  OBVIOUS
<1>1. SlotTypeOK  BY RelayAssumption DEF Init, SlotTypeOK, Points
<1>2. ASSUME NEW r \in Relay PROVE SlotsOf(r)
  <2>1. \A u \in Tenant : <<r, u>> \in Loop  BY DEF Loop
  <2>2. Holding(r) = {} /\ QueuedOn(r) = {}  BY <2>1 DEF Init, Holding, QueuedOn, Turning
  <2>3. waiting[r] = <<>> /\ free[r] = Concurrency  BY DEF Init
  <2>4. QED  BY <2>2, <2>3, FS_EmptySet, RelayAssumption DEF SlotsOf
<1>3. QED  BY <1>1, <1>2 DEF SlotInv

LEMMA SlotsStep == SlotTypeOK /\ SlotInv /\ [Next]_vars => SlotTypeOK' /\ SlotInv'
<1> SUFFICES ASSUME SlotTypeOK, SlotInv, [Next]_vars PROVE SlotTypeOK' /\ SlotInv'
  OBVIOUS
<1> USE DEF slotVars
<1>1. ASSUME UNCHANGED <<pc, slotVars, stopping>> PROVE SlotTypeOK' /\ SlotInv'
  <2>1. SlotTypeOK'  BY <1>1 DEF SlotTypeOK
  <2>2. ASSUME NEW s \in Relay PROVE Untouched(s)
    BY <1>1, <2>2 DEF Untouched, Holding, QueuedOn
  <2>3. QED  BY <2>1, <2>2, UntouchedKeeps DEF SlotInv
<1>2. ASSUME NEW r \in Relay, NEW t \in Tenant, NEW p \in Points \ {"queued"},
             Goto(r, t, p), UNCHANGED <<slotVars, stopping>>, pc[<<r, t>>] # "queued",
             pc[<<r, t>>] \in Turning <=> p \in Turning
      PROVE  SlotTypeOK' /\ SlotInv'
  BY <1>2, MoveWithin
<1> USE DEF Turning, Points
<1>3. ASSUME NEW r \in Relay, NEW t \in Tenant, Step(r, t) PROVE SlotTypeOK' /\ SlotInv'
  <2>1. CASE Wake(r, t) /\ stopping[r]
    BY <2>1, <1>2 DEF Wake
  <2>2. CASE Wake(r, t) /\ ~stopping[r]
    BY <2>2, TakeKeeps DEF Wake
  <2>3. CASE TurnStopped(r, t)  BY <2>3, GiveKeeps DEF TurnStopped
  <2>4. CASE TurnSweeps(r, t)  BY <2>4, <1>2 DEF TurnSweeps
  <2>5. CASE TurnOnlyPrunes(r, t)  BY <2>5, <1>2 DEF TurnOnlyPrunes
  <2>6. CASE ClaimLocks(r, t)
    <3>1. \E p \in {"reading", "swept"} : Goto(r, t, p)  BY <2>6 DEF ClaimLocks
    <3>2. QED  BY <2>6, <3>1, <1>2 DEF ClaimLocks
  <2>7. CASE ClaimReads(r, t)
    <3>1. \E p \in {"marking", "publishing"} : Goto(r, t, p)  BY <2>7 DEF ClaimReads
    <3>2. QED  BY <2>7, <3>1, <1>2 DEF ClaimReads
  <2>8. CASE ClaimFails(r, t)  BY <2>8, <1>2 DEF ClaimFails
  <2>9. CASE PublishOk(r, t)
    <3>1. UNCHANGED <<slotVars, stopping>> /\ pc[<<r, t>>] = "publishing"
      BY <2>9 DEF PublishOk, NextToSend
    <3>2. Goto(r, t, "marking") \/ pc' = pc  BY <2>9 DEF PublishOk
    <3>3. QED  BY <3>1, <3>2, <1>1, <1>2
  <2>10. CASE ClaimMarks(r, t)  BY <2>10, <1>2 DEF ClaimMarks
  <2>11. CASE TurnPrunes(r, t)  BY <2>11, <1>2 DEF TurnPrunes
  <2>12. CASE PruneLocks(r, t)
    <3>1. UNCHANGED stopping /\ pc[<<r, t>>] = "pruning"  BY <2>12 DEF PruneLocks
    <3>2. (Goto(r, t, "purging") /\ UNCHANGED slotVars) \/ Give(r, t, "asleep")
      BY <2>12 DEF PruneLocks
    <3>3. QED  BY <3>1, <3>2, <1>2, GiveKeeps
  <2>13. CASE PruneDeletes(r, t)  BY <2>13, GiveKeeps DEF PruneDeletes
  <2>14. CASE TurnEnds(r, t)  BY <2>14, GiveKeeps DEF TurnEnds
  <2>15. QED
    BY <1>3, <2>1, <2>2, <2>3, <2>4, <2>5, <2>6, <2>7, <2>8, <2>9, <2>10, <2>11, <2>12, <2>13, <2>14
    DEF Step
<1>4. ASSUME NEW r \in Relay, NEW t \in Tenant, NEW out \in BOOLEAN, PublishRefused(r, t, out)
      PROVE  SlotTypeOK' /\ SlotInv'
  <2>1. pc[<<r, t>>] = "publishing" /\ Goto(r, t, "marking") /\ UNCHANGED <<slotVars, stopping>>
    BY <1>4 DEF PublishRefused, NextToSend
  <2>2. QED  BY <2>1, <1>2
<1>5. ASSUME NEW r \in Relay, Stop(r) PROVE SlotTypeOK' /\ SlotInv'
  BY <1>5, StopKeeps
<1>6. ASSUME NEW r \in Relay, Crash(r) PROVE SlotTypeOK' /\ SlotInv'
  BY <1>6, CrashKeeps
<1>7. ASSUME NEW t \in Tenant, SessionEnds(t) PROVE SlotTypeOK' /\ SlotInv'
  BY <1>1, <1>7 DEF SessionEnds, loopVars
<1>8. ASSUME NEW m \in Message, Committed(m) PROVE SlotTypeOK' /\ SlotInv'
  BY <1>1, <1>8 DEF Committed, loopVars
<1>9. CASE UNCHANGED vars
  BY <1>1, <1>9 DEF vars, loopVars
<1>10. QED  BY <1>3, <1>4, <1>5, <1>6, <1>7, <1>8, <1>9 DEF Next

-----------------------------------------------------------------------------
(* The rest of the types, and the theorems.                                 *)

LoopTypeOK ==
  /\ swept \in [Loop -> {"idle", "full", "failed"}]
  /\ batch \in [Loop -> SUBSET Message] /\ sent \in [Loop -> SUBSET Message]
  /\ visible \in [Loop -> SUBSET Message]

WorldTypeOK ==
  /\ StoreTypeOK
  /\ deliveries \in [Message -> Nat] /\ faults \in 0..MaxFaults

LEMMA TypesSplit ==
  /\ TypeOK <=> SlotTypeOK /\ LoopTypeOK /\ WorldTypeOK
  /\ TypeOK => PublishTypeOK
<1>1. TypeOK <=> SlotTypeOK /\ LoopTypeOK /\ WorldTypeOK
  BY DEF TypeOK, SlotTypeOK, LoopTypeOK, WorldTypeOK
<1>2. TypeOK => PublishTypeOK
  BY DEF TypeOK, StoreTypeOK, PublishTypeOK
<1>3. QED  BY <1>1, <1>2

LEMMA TypesInit == Init => LoopTypeOK /\ WorldTypeOK
BY RelayAssumption DEF Init, StoreInit, LoopTypeOK, WorldTypeOK, StoreTypeOK

LEMMA LoopTypesStep ==
  ASSUME LoopTypeOK, WorldTypeOK, [Next]_vars
  PROVE  LoopTypeOK'
<1> USE DEF LoopTypeOK
<1>1. ASSUME NEW r \in Relay, NEW t \in Tenant, Step(r, t) PROVE LoopTypeOK'
  <2>1. CASE Wake(r, t) \/ TurnStopped(r, t) \/ TurnSweeps(r, t) \/ TurnOnlyPrunes(r, t)
    BY <2>1 DEF Wake, TurnStopped, TurnSweeps, TurnOnlyPrunes
  <2>2. CASE ClaimLocks(r, t) \/ ClaimFails(r, t)
    BY <2>2 DEF ClaimLocks, ClaimFails
  <2>3. CASE ClaimReads(r, t)
    <3>1. Pending(t) \subseteq Message /\ Oldest(Pending(t), BatchLimit) \subseteq Message
      BY DEF Pending, Oldest, WorldTypeOK, StoreTypeOK
    <3>2. QED  BY <2>3, <3>1 DEF ClaimReads
  <2>4. CASE PublishOk(r, t)
    <3>1. PICK m \in Message : sent' = [sent EXCEPT ![<<r, t>>] = sent[<<r, t>>] \cup {m}]
      BY <2>4 DEF PublishOk
    <3>2. sent' \in [Loop -> SUBSET Message]  BY <3>1
    <3>3. QED  BY <2>4, <3>2 DEF PublishOk
  <2>5. CASE ClaimMarks(r, t)
    <3>1. SweptAs(r, t) \in {"idle", "full", "failed"}  BY DEF SweptAs
    <3>2. swept' \in [Loop -> {"idle", "full", "failed"}]  BY <2>5, <3>1 DEF ClaimMarks
    <3>3. /\ batch' \in [Loop -> SUBSET Message] /\ sent' \in [Loop -> SUBSET Message]
          /\ visible' \in [Loop -> SUBSET Message]
      BY <2>5 DEF ClaimMarks
    <3>4. QED  BY <3>2, <3>3
  <2>6. CASE TurnPrunes(r, t) \/ PruneLocks(r, t) \/ PruneDeletes(r, t) \/ TurnEnds(r, t)
    BY <2>6 DEF TurnPrunes, PruneLocks, PruneDeletes, TurnEnds
  <2>7. QED  BY <1>1, <2>1, <2>2, <2>3, <2>4, <2>5, <2>6 DEF Step
<1>2. ASSUME NEW r \in Relay, NEW t \in Tenant, NEW out \in BOOLEAN, PublishRefused(r, t, out)
      PROVE  LoopTypeOK'
  BY <1>2 DEF PublishRefused
<1>3. ASSUME NEW r \in Relay, Stop(r) \/ Crash(r) PROVE LoopTypeOK'
  <2>1. CASE Stop(r)  BY <2>1 DEF Stop
  <2>2. CASE Crash(r)
    <3>1. swept' \in [Loop -> {"idle", "full", "failed"}]  BY <2>2 DEF Crash
    <3>2. batch' \in [Loop -> SUBSET Message]  BY <2>2 DEF Crash
    <3>3. sent' \in [Loop -> SUBSET Message]  BY <2>2 DEF Crash
    <3>4. visible' \in [Loop -> SUBSET Message]  BY <2>2 DEF Crash
    <3>5. QED  BY <3>1, <3>2, <3>3, <3>4
  <2>3. QED  BY <1>3, <2>1, <2>2
<1>4. ASSUME NEW t \in Tenant, SessionEnds(t) PROVE LoopTypeOK'
  BY <1>4 DEF SessionEnds, loopVars
<1>5. ASSUME NEW m \in Message, Committed(m) PROVE LoopTypeOK'
  BY <1>5 DEF Committed, loopVars
<1>6. CASE UNCHANGED vars  BY <1>6 DEF vars, loopVars
<1>7. QED  BY <1>1, <1>2, <1>3, <1>4, <1>5, <1>6 DEF Next

LEMMA WorldTypesStep ==
  ASSUME LoopTypeOK, WorldTypeOK, [Next]_vars
  PROVE  WorldTypeOK'
<1>1. ASSUME UNCHANGED <<storeVars, worldVars>> PROVE WorldTypeOK'
  BY <1>1 DEF WorldTypeOK, StoreTypeOK, storeVars, worldVars
<1> USE DEF WorldTypeOK, StoreTypeOK, worldVars
<1>2. ASSUME NEW r \in Relay, NEW t \in Tenant, Step(r, t) PROVE WorldTypeOK'
  <2>1. CASE Wake(r, t) \/ TurnStopped(r, t) \/ TurnSweeps(r, t) \/ TurnOnlyPrunes(r, t)
    BY <1>1, <2>1 DEF Wake, TurnStopped, TurnSweeps, TurnOnlyPrunes
  <2>2. CASE ClaimReads(r, t) \/ ClaimFails(r, t) \/ TurnPrunes(r, t) \/ TurnEnds(r, t)
    BY <1>1, <2>2 DEF ClaimReads, ClaimFails, TurnPrunes, TurnEnds
  <2>3. CASE ClaimLocks(r, t) \/ PruneLocks(r, t)
    BY <2>3 DEF ClaimLocks, PruneLocks, TryLock
  <2>4. CASE PublishOk(r, t)
    BY <2>4 DEF PublishOk, storeVars
  <2>5. CASE ClaimMarks(r, t)
    <3>1. sent[<<r, t>>] \subseteq Message  BY DEF LoopTypeOK, Loop
    <3>2. QED  BY <2>5, <3>1 DEF ClaimMarks, Mark
  <2>6. CASE PruneDeletes(r, t)
    BY <2>6 DEF PruneDeletes, Purge, Oldest
  <2>7. QED  BY <1>2, <2>1, <2>2, <2>3, <2>4, <2>5, <2>6 DEF Step
<1>3. ASSUME NEW r \in Relay, NEW t \in Tenant, NEW out \in BOOLEAN, PublishRefused(r, t, out)
      PROVE  WorldTypeOK'
  BY <1>3, RelayAssumption DEF PublishRefused, storeVars
<1>4. ASSUME NEW r \in Relay, Stop(r) PROVE WorldTypeOK'
  BY <1>1, <1>4 DEF Stop
<1>5. ASSUME NEW r \in Relay, Crash(r) PROVE WorldTypeOK'
  BY <1>5, RelayAssumption DEF Crash, DropSessions
<1>6. ASSUME NEW t \in Tenant, SessionEnds(t) PROVE WorldTypeOK'
  BY <1>6, RelayAssumption DEF SessionEnds, EndSession
<1>7. ASSUME NEW m \in Message, Committed(m) PROVE WorldTypeOK'
  BY <1>7 DEF Committed, Commit
<1>8. CASE UNCHANGED vars  BY <1>1, <1>8 DEF vars
<1>9. QED  BY <1>2, <1>3, <1>4, <1>5, <1>6, <1>7, <1>8 DEF Next

IInv == TypeOK /\ PublishInv /\ SlotInv

LEMMA Inductive == Spec => []IInv
<1>1. Init => IInv
  BY PublishInit, SlotsInit, TypesInit, TypesSplit DEF IInv
<1>2. IInv /\ [Next]_vars => IInv'
  <2> SUFFICES ASSUME IInv, [Next]_vars PROVE IInv'
    OBVIOUS
  <2>1. SlotTypeOK /\ LoopTypeOK /\ WorldTypeOK /\ PublishTypeOK  BY TypesSplit DEF IInv
  <2>2. PublishInv'  BY <2>1, PublishStep DEF IInv
  <2>3. SlotTypeOK' /\ SlotInv'  BY <2>1, SlotsStep DEF IInv
  <2>4. LoopTypeOK' /\ WorldTypeOK'  BY <2>1, LoopTypesStep, WorldTypesStep
  <2>5. TypeOK'  BY <2>3, <2>4 DEF TypeOK, SlotTypeOK, LoopTypeOK, WorldTypeOK
  <2>6. QED  BY <2>2, <2>3, <2>5 DEF IInv
<1>3. QED  BY <1>1, <1>2, PTL DEF Spec

\* Types: in particular no relay ever has more free slots than it was given.
THEOREM TypeCorrect == Spec => []TypeOK
BY Inductive, PTL DEF IInv

\* Nothing is marked published, and nothing deleted, that has not gone out (relay.ts 171-193,
\* prisma.ts 237-252), however the relays crash and their sessions end.
THEOREM NothingIsLost == Spec => []NothingLost
<1>1. IInv => NothingLost  BY DEF IInv, PublishInv, NothingLost
<1>2. QED  BY <1>1, Inductive, PTL

\* A fact follows every earlier one of its tenant that was pending with it (relay.ts 159-169).
THEOREM FactsKeepTheirOrder == Spec => []NeverOvertaken
<1>1. ASSUME IInv PROVE NeverOvertaken
  <2> SUFFICES ASSUME NEW l \in Loop, NEW j \in sent[l], NEW i \in visible[l], i < j
               PROVE  i \in Delivered
    BY DEF NeverOvertaken
  <2>1. j \in batch[l]  BY <1>1 DEF IInv, PublishInv, PrefixOf
  <2>2. i \in batch[l]  BY <1>1, <2>1 DEF IInv, PublishInv, PrefixOf
  <2>3. i \in sent[l]  BY <1>1, <2>2 DEF IInv, PublishInv, PrefixOf
  <2>4. QED  BY <1>1, <2>3 DEF IInv, PublishInv
<1>2. QED  BY <1>1, Inductive, PTL

\* take and give conserve the slots of a relay (relay.ts 137-157).
THEOREM SlotsAreConserved == Spec => []SlotsConserved
<1>1. IInv => SlotsConserved  BY DEF IInv, SlotInv, SlotsOf, SlotsConserved
<1>2. QED  BY <1>1, Inductive, PTL

\* The queue for a slot holds exactly the loops that wait, only while no slot is free, and
\* nobody once the relay stops (relay.ts 144-157).
THEOREM NoSlotIdles == Spec => []NoSlotIdlesWhileWaited
<1>1. IInv => NoSlotIdlesWhileWaited
  BY DEF IInv, SlotInv, SlotsOf, NoSlotIdlesWhileWaited, QueuedOn
<1>2. QED  BY <1>1, Inductive, PTL

\* Slots, loops and queue account for each other (relay.ts 137-157, 222): none leaks, none idles.
THEOREM SlotsAlwaysAccountedFor == Spec => []SlotsAccountedFor
<1>1. SlotsConserved /\ NoSlotIdlesWhileWaited => SlotsAccountedFor  BY DEF SlotsAccountedFor
<1>2. QED  BY <1>1, SlotsAreConserved, NoSlotIdles, PTL

\* A committed fact goes out before it counts as published, and never after a later one of its
\* tenant (relay.ts: claim, publish, mark).
THEOREM FactsGoOutInOrder == Spec => []DeliveredInOrder
<1>1. NothingLost /\ NeverOvertaken => DeliveredInOrder  BY DEF DeliveredInOrder
<1>2. QED  BY <1>1, NothingIsLost, FactsKeepTheirOrder, PTL

-----------------------------------------------------------------------------
(* How often a fact goes out.                                               *)

\* Points at which a loop uses its session, and those at which it has a batch.
Using == {"reading", "publishing", "marking", "purging"}
Batched == {"publishing", "marking"}

Holds(l) == holder[l[2]] = l[1]

HoldInv ==
  \A l \in Loop :
    /\ Holds(l) => pc[l] \in Using
    /\ \A m \in batch[l] : TenantOf[m] = l[2]
    /\ sent[l] \subseteq batch[l]
    /\ Holds(l) /\ pc[l] = "publishing" =>
         \A m \in batch[l] \ sent[l] : m \notin marked \cup deleted

\* Loops that will publish m although their session has gone.
Stale(m) == {l \in Loop : pc[l] = "publishing" /\ ~Holds(l) /\ m \in batch[l] \ sent[l]}

\* No claim will read m again, unless a fault takes back what was sent.
Settled(m) ==
  \/ m \in marked \cup deleted
  \/ \E l \in Loop : Holds(l) /\ pc[l] \in Batched /\ m \in sent[l]

\* d times sent, by each of S once more, and once more unless settled: a first time, and one
\* for each of f faults.
Paid(d, S, settled, f) ==
  /\ IsFiniteSet(S)
  /\ d + Cardinality(S) + (IF settled THEN 0 ELSE 1) <= 1 + f

RepeatInv == \A m \in Message : Paid(deliveries[m], Stale(m), Settled(m), faults)

HoldTypeOK ==
  /\ pc \in [Loop -> Points] /\ holder \in [Tenant -> Relay \cup {Nobody}]
  /\ batch \in [Loop -> SUBSET Message] /\ sent \in [Loop -> SUBSET Message]
  /\ deliveries \in [Message -> Nat] /\ faults \in Nat

LEMMA PaidKept ==
  ASSUME NEW d \in Nat, NEW e \in Nat, NEW f \in Nat, NEW g \in Nat, NEW S, NEW T,
         NEW s \in BOOLEAN, NEW u \in BOOLEAN, Paid(d, S, s, f), T \subseteq S, s => u,
         e + f <= d + g
  PROVE  Paid(e, T, u, g)
<1>1. IsFiniteSet(T) /\ Cardinality(T) <= Cardinality(S)  BY FS_Subset DEF Paid
<1>2. Cardinality(S) \in Nat /\ Cardinality(T) \in Nat  BY <1>1, FS_CardinalityType DEF Paid
<1>3. d + Cardinality(S) + (IF s THEN 0 ELSE 1) <= 1 + f  BY DEF Paid
<1>4. e + Cardinality(T) + (IF u THEN 0 ELSE 1) <= 1 + g  BY <1>1, <1>2, <1>3
<1>5. QED  BY <1>1, <1>4 DEF Paid

LEMMA PaidUnsettled ==
  ASSUME NEW d \in Nat, NEW e \in Nat, NEW f \in Nat, NEW g \in Nat, NEW S, NEW T,
         NEW s \in BOOLEAN, NEW u \in BOOLEAN, Paid(d, S, s, f), T \subseteq S,
         (e = d /\ g = f + 1) \/ (e = d + 1 /\ g = f /\ ~s /\ u)
  PROVE  Paid(e, T, u, g)
<1>1. IsFiniteSet(T) /\ Cardinality(T) <= Cardinality(S)  BY FS_Subset DEF Paid
<1>2. Cardinality(S) \in Nat /\ Cardinality(T) \in Nat  BY <1>1, FS_CardinalityType DEF Paid
<1>3. d + Cardinality(S) + (IF s THEN 0 ELSE 1) <= 1 + f  BY DEF Paid
<1>4. e + Cardinality(T) + (IF u THEN 0 ELSE 1) <= 1 + g  BY <1>1, <1>2, <1>3
<1>5. QED  BY <1>1, <1>4 DEF Paid

\* A step with no more deliveries than faults more keeps each fact paid for.
LEMMA StillPaid ==
  ASSUME NEW m \in Message, RepeatInv, deliveries[m] \in Nat, faults \in Nat, faults' \in Nat,
         deliveries'[m] \in Nat, Stale(m)' \subseteq Stale(m), Settled(m) => Settled(m)',
         deliveries'[m] + faults <= deliveries[m] + faults'
  PROVE  Paid(deliveries'[m], Stale(m)', Settled(m)', faults')
<1>1. Settled(m) \in BOOLEAN /\ Settled(m)' \in BOOLEAN  BY DEF Settled
<1>2. Paid(deliveries[m], Stale(m), Settled(m), faults)  BY DEF RepeatInv
<1>3. QED  BY <1>1, <1>2, PaidKept

\* What unsettles a fact, or settles it as it goes out, is paid for as well.
LEMMA PaidAsUnsettled ==
  ASSUME NEW m \in Message, RepeatInv, deliveries[m] \in Nat, faults \in Nat, faults' \in Nat,
         deliveries'[m] \in Nat, Stale(m)' \subseteq Stale(m),
         \/ deliveries'[m] = deliveries[m] /\ faults' = faults + 1
         \/ deliveries'[m] = deliveries[m] + 1 /\ faults' = faults /\ ~Settled(m) /\ Settled(m)'
  PROVE  Paid(deliveries'[m], Stale(m)', Settled(m)', faults')
<1>1. Settled(m) \in BOOLEAN /\ Settled(m)' \in BOOLEAN  BY DEF Settled
<1>2. Paid(deliveries[m], Stale(m), Settled(m), faults)  BY DEF RepeatInv
<1>3. QED  BY <1>1, <1>2, PaidUnsettled

LEMMA PaidMore ==
  ASSUME NEW d \in Nat, NEW f \in Nat, NEW S, NEW T, NEW x, NEW s \in BOOLEAN,
         NEW u \in BOOLEAN, Paid(d, S, s, f), T \subseteq S \cup {x}, s => u
  PROVE  Paid(d, T, u, f + 1)
<1>1. /\ IsFiniteSet(S \cup {x}) /\ Cardinality(S) \in Nat
      /\ Cardinality(S \cup {x}) = Cardinality(S) \/ Cardinality(S \cup {x}) = Cardinality(S) + 1
  BY FS_AddElement, FS_CardinalityType DEF Paid
<1>2. IsFiniteSet(T) /\ Cardinality(T) <= Cardinality(S \cup {x})  BY <1>1, FS_Subset
<1>3. Cardinality(T) \in Nat  BY <1>2, FS_CardinalityType
<1>4. d + Cardinality(S) + (IF s THEN 0 ELSE 1) <= 1 + f  BY DEF Paid
<1>5. d + Cardinality(T) + (IF u THEN 0 ELSE 1) <= 1 + (f + 1)  BY <1>1, <1>2, <1>3, <1>4
<1>6. QED  BY <1>2, <1>5 DEF Paid

LEMMA PaidSpent ==
  ASSUME NEW d \in Nat, NEW f \in Nat, NEW S, NEW T, NEW x \in S, NEW s \in BOOLEAN,
         NEW u \in BOOLEAN, Paid(d, S, s, f), T \subseteq S \ {x}, s => u
  PROVE  Paid(d + 1, T, u, f)
<1>1. /\ IsFiniteSet(S \ {x}) /\ Cardinality(S) \in Nat
      /\ Cardinality(S \ {x}) = Cardinality(S) - 1
  BY FS_RemoveElement, FS_CardinalityType DEF Paid
<1>2. IsFiniteSet(T) /\ Cardinality(T) <= Cardinality(S \ {x})  BY <1>1, FS_Subset
<1>3. Cardinality(T) \in Nat  BY <1>2, FS_CardinalityType
<1>4. d + Cardinality(S) + (IF s THEN 0 ELSE 1) <= 1 + f  BY DEF Paid
<1>5. (d + 1) + Cardinality(T) + (IF u THEN 0 ELSE 1) <= 1 + f  BY <1>1, <1>2, <1>3, <1>4
<1>6. QED  BY <1>2, <1>5 DEF Paid

LEMMA LoopPairs ==
  /\ \A r \in Relay, t \in Tenant : <<r, t>> \in Loop /\ <<r, t>>[1] = r /\ <<r, t>>[2] = t
  /\ \A l \in Loop : l = <<l[1], l[2]>> /\ l[1] \in Relay /\ l[2] \in Tenant /\ l[1] # Nobody
BY OutboxAssumption DEF Loop

\* A step that neither publishes nor marks, and takes no session from a loop with a batch.
LEMMA QuietStep ==
  ASSUME HoldTypeOK, HoldInv, RepeatInv, UNCHANGED <<batch, sent, deliveries, faults>>,
         marked' \cup deleted' = marked \cup deleted,
         \A l \in Loop : Holds(l)' => pc'[l] \in Using,
         \A l \in Loop : pc[l] \in Batched \/ pc'[l] \in Batched =>
                           pc'[l] = pc[l] /\ (Holds(l)' <=> Holds(l))
  PROVE  HoldInv' /\ RepeatInv'
<1>1. HoldInv'
  <2>1. ASSUME NEW l \in Loop
        PROVE  /\ Holds(l)' => pc'[l] \in Using
               /\ \A m \in batch'[l] : TenantOf[m] = l[2]
               /\ sent'[l] \subseteq batch'[l]
               /\ Holds(l)' /\ pc'[l] = "publishing" =>
                    \A m \in batch'[l] \ sent'[l] : m \notin marked' \cup deleted'
    BY <2>1 DEF HoldInv, Batched
  <2>2. QED  BY <2>1 DEF HoldInv
<1>2. ASSUME NEW m \in Message
      PROVE  Paid(deliveries'[m], Stale(m)', Settled(m)', faults')
  <2>1. Stale(m)' \subseteq Stale(m)  BY DEF Stale, Batched
  <2>2. Settled(m) => Settled(m)'  BY DEF Settled
  <2>3. deliveries[m] \in Nat /\ faults \in Nat  BY DEF HoldTypeOK
  <2>4. Settled(m) \in BOOLEAN /\ Settled(m)' \in BOOLEAN  BY DEF Settled
  <2>5. Paid(deliveries[m], Stale(m), Settled(m), faults)  BY DEF RepeatInv
  <2>6. QED  BY <2>1, <2>2, <2>3, <2>4, <2>5, PaidKept
<1>3. QED  BY <1>1, <1>2 DEF RepeatInv

\* A step in which only points outside a claim move, and sessions stay.
LEMMA IdleStep ==
  ASSUME HoldTypeOK, HoldInv, RepeatInv, UNCHANGED <<storeVars, batch, sent, worldVars>>,
         \A l \in Loop : pc'[l] = pc[l] \/ {pc[l], pc'[l]} \cap Using = {}
  PROVE  HoldInv' /\ RepeatInv'
<1>1. \A l \in Loop : Holds(l)' <=> Holds(l)  BY DEF Holds, storeVars
<1>2. \A l \in Loop : Holds(l)' => pc'[l] \in Using  BY <1>1 DEF HoldInv
<1>3. \A l \in Loop : pc[l] \in Batched \/ pc'[l] \in Batched => pc'[l] = pc[l]
  BY DEF Batched, Using
<1>4. QED  BY <1>1, <1>2, <1>3, QuietStep DEF storeVars, worldVars

LEMMA GiveMoves ==
  ASSUME SlotTypeOK, SlotInv, NEW r \in Relay, NEW t \in Tenant, NEW p, Give(r, t, p)
  PROVE  \A l \in Loop : \/ pc'[l] = pc[l]
                         \/ l = <<r, t>> /\ pc'[l] = p
                         \/ pc[l] = "queued" /\ pc'[l] = "turn"
<1>1. CASE waiting[r] = <<>>
  BY <1>1 DEF Give, Goto, SlotTypeOK
<1>2. CASE waiting[r] # <<>>
  <2> DEFINE next == Head(waiting[r])
  <2>1. waiting[r] \in Seq(Tenant)  BY DEF SlotTypeOK
  <2>2. next = waiting[r][1] /\ 1 \in 1..Len(waiting[r]) /\ next \in Tenant
    BY <1>2, <2>1
  <2>3. pc[<<r, next>>] = "queued"
    <3>1. waiting[r][1] \in QueuedOn(r)  BY <2>2 DEF SlotInv, SlotsOf
    <3>2. QED  BY <2>2, <3>1 DEF QueuedOn
  <2>4. pc' = [pc EXCEPT ![<<r, t>>] = p, ![<<r, next>>] = "turn"]
    BY <1>2 DEF Give
  <2> HIDE DEF next
  <2>5. ASSUME NEW l \in Loop
        PROVE  pc'[l] = IF l = <<r, next>> THEN "turn" ELSE IF l = <<r, t>> THEN p ELSE pc[l]
    BY <2>4, <2>5 DEF SlotTypeOK
  <2>6. QED  BY <2>3, <2>5
<1>3. QED  BY <1>1, <1>2

\* A session that is granted, to a loop that has no batch yet.
LEMMA GrantStep ==
  ASSUME HoldTypeOK, HoldInv, RepeatInv, NEW r \in Relay, NEW t \in Tenant, NEW p \in Using \ Batched,
         pc[<<r, t>>] \notin Using, holder[t] = Nobody, holder' = [holder EXCEPT ![t] = r],
         Goto(r, t, p), UNCHANGED <<marked, deleted, batch, sent, deliveries, faults>>
  PROVE  HoldInv' /\ RepeatInv'
<1>1. \A l \in Loop : pc'[l] = IF l = <<r, t>> THEN p ELSE pc[l]
  BY DEF Goto, HoldTypeOK
<1>2. ASSUME NEW l \in Loop, l # <<r, t>>
      PROVE  Holds(l)' <=> Holds(l)
  <2>1. l = <<l[1], l[2]>> /\ l[1] # Nobody /\ l[2] \in Tenant  BY LoopPairs
  <2>2. CASE l[2] = t
    <3>1. l[1] # r  BY <1>2, <2>1, <2>2
    <3>2. holder'[t] = r  BY DEF HoldTypeOK
    <3>3. QED  BY <2>1, <2>2, <3>1, <3>2 DEF Holds
  <2>3. CASE l[2] # t  BY <2>1, <2>3 DEF Holds, HoldTypeOK
  <2>4. QED  BY <2>2, <2>3
<1>3. ASSUME NEW l \in Loop
      PROVE  Holds(l)' => pc'[l] \in Using
  BY <1>1, <1>2, <1>3 DEF HoldInv
<1>4. ASSUME NEW l \in Loop, pc[l] \in Batched \/ pc'[l] \in Batched
      PROVE  pc'[l] = pc[l] /\ (Holds(l)' <=> Holds(l))
  <2>1. l # <<r, t>>  BY <1>1, <1>4 DEF Batched, Using
  <2>2. QED  BY <1>1, <1>2, <2>1
<1>5. QED  BY <1>3, <1>4, QuietStep

LEMMA RepeatTurns ==
  ASSUME HoldTypeOK, SlotTypeOK, SlotInv, HoldInv, RepeatInv, NEW r \in Relay, NEW t \in Tenant,
         \/ Wake(r, t) \/ TurnStopped(r, t) \/ TurnSweeps(r, t) \/ TurnOnlyPrunes(r, t)
         \/ ClaimFails(r, t) \/ TurnPrunes(r, t) \/ TurnEnds(r, t)
  PROVE  HoldInv' /\ RepeatInv'
<1>1. <<r, t>> \in Loop  BY LoopPairs
\* One loop goes from a point outside Using to another.
<1>2. ASSUME NEW p, p \notin Using, pc[<<r, t>>] \notin Using, Goto(r, t, p),
             UNCHANGED <<storeVars, batch, sent, worldVars>>
      PROVE  HoldInv' /\ RepeatInv'
  <2>1. \A l \in Loop : pc'[l] = IF l = <<r, t>> THEN p ELSE pc[l]
    BY <1>2 DEF Goto, HoldTypeOK
  <2>2. QED  BY <1>2, <2>1, IdleStep
<1>3. ASSUME NEW p, p \notin Using, pc[<<r, t>>] \notin Using, Give(r, t, p),
             UNCHANGED <<storeVars, batch, sent, worldVars>>
      PROVE  HoldInv' /\ RepeatInv'
  <2>1. \A l \in Loop : pc'[l] = pc[l] \/ {pc[l], pc'[l]} \cap Using = {}
    BY <1>3, GiveMoves DEF Using
  <2>2. QED  BY <1>3, <2>1, IdleStep
<1>4. CASE Wake(r, t)
  <2>1. \E p \in {"done", "queued", "turn"} : Goto(r, t, p)  BY <1>4 DEF Wake, Take
  <2>2. QED  BY <1>2, <1>4, <2>1 DEF Wake, Using
<1>5. CASE TurnStopped(r, t)  BY <1>3, <1>5 DEF TurnStopped, Using
<1>6. CASE TurnSweeps(r, t)  BY <1>2, <1>6 DEF TurnSweeps, Using
<1>7. CASE TurnOnlyPrunes(r, t)  BY <1>2, <1>7 DEF TurnOnlyPrunes, Using
<1>8. CASE ClaimFails(r, t)
  <2>0. pc[<<r, t>>] = "reading" /\ Goto(r, t, "swept") /\ holder[t] # r
        /\ UNCHANGED <<storeVars, batch, sent, worldVars>>
    BY <1>8 DEF ClaimFails
  <2>1. \A l \in Loop : pc'[l] = IF l = <<r, t>> THEN "swept" ELSE pc[l]
    BY <2>0 DEF Goto, HoldTypeOK
  <2>2. \A l \in Loop : Holds(l)' <=> Holds(l)  BY <2>0 DEF Holds, storeVars
  <2>3. ~Holds(<<r, t>>)  BY <2>0, LoopPairs DEF Holds
  <2>4. \A l \in Loop : Holds(l)' => pc'[l] \in Using  BY <2>1, <2>2, <2>3 DEF HoldInv
  <2>5. \A l \in Loop : pc[l] \in Batched \/ pc'[l] \in Batched => pc'[l] = pc[l]
    BY <2>0, <2>1 DEF Batched
  <2>6. QED  BY <2>0, <2>2, <2>4, <2>5, QuietStep DEF storeVars, worldVars
<1>9. CASE TurnPrunes(r, t)  BY <1>2, <1>9 DEF TurnPrunes, Using
<1>10. CASE TurnEnds(r, t)  BY <1>3, <1>10 DEF TurnEnds, Using
<1>11. QED  BY <1>4, <1>5, <1>6, <1>7, <1>8, <1>9, <1>10

LEMMA RepeatLocks ==
  ASSUME HoldTypeOK, SlotTypeOK, SlotInv, HoldInv, RepeatInv, NEW r \in Relay, NEW t \in Tenant,
         ClaimLocks(r, t) \/ PruneLocks(r, t)
  PROVE  HoldInv' /\ RepeatInv'
<1>1. <<r, t>> \in Loop /\ r # Nobody /\ pc[<<r, t>>] \in {"claiming", "pruning"}
  BY LoopPairs DEF ClaimLocks, PruneLocks
<1>2. holder[t] # r  BY <1>1, LoopPairs DEF HoldInv, Holds, Using
<1>3. UNCHANGED <<committed, marked, deleted, batch, sent, deliveries, faults>>
  BY DEF ClaimLocks, PruneLocks, TryLock, worldVars
<1>4. CASE holder[t] = Nobody
  <2>1. holder' = [holder EXCEPT ![t] = r] /\ holder'[t] = r
    BY <1>4 DEF ClaimLocks, PruneLocks, TryLock, HoldTypeOK
  <2>2. \E p \in {"reading", "purging"} : Goto(r, t, p)
    BY <2>1 DEF ClaimLocks, PruneLocks
  <2>3. {"reading", "purging"} \subseteq Using \ Batched /\ pc[<<r, t>>] \notin Using
    BY <1>1 DEF Using, Batched
  <2>4. QED  BY <1>3, <1>4, <2>1, <2>2, <2>3, GrantStep
<1>5. CASE holder[t] # Nobody
  <2>1. holder' = holder  BY <1>5 DEF ClaimLocks, PruneLocks, TryLock
  <2>2. Goto(r, t, "swept") \/ Give(r, t, "asleep")
    BY <1>2, <2>1 DEF ClaimLocks, PruneLocks
  <2>3. \A l \in Loop : pc'[l] = pc[l] \/ {pc[l], pc'[l]} \cap Using = {}
    <3>1. CASE Goto(r, t, "swept")
      <4>1. \A l \in Loop : pc'[l] = IF l = <<r, t>> THEN "swept" ELSE pc[l]
        BY <3>1 DEF Goto, HoldTypeOK
      <4>2. QED  BY <1>1, <4>1 DEF Using
    <3>2. CASE Give(r, t, "asleep")
      BY <1>1, <3>2, GiveMoves DEF Using
    <3>3. QED  BY <2>2, <3>1, <3>2
  <2>4. QED  BY <1>3, <2>1, <2>3, IdleStep DEF storeVars, worldVars
<1>6. QED  BY <1>4, <1>5

LEMMA RepeatPrunes ==
  ASSUME HoldTypeOK, SlotTypeOK, SlotInv, HoldInv, RepeatInv, NEW r \in Relay, NEW t \in Tenant,
         PruneDeletes(r, t)
  PROVE  HoldInv' /\ RepeatInv'
<1>1. /\ pc[<<r, t>>] = "purging" /\ Give(r, t, "asleep")
      /\ UNCHANGED <<marked, batch, sent, deliveries, faults>>
      /\ holder' = [holder EXCEPT ![t] = IF holder[t] = r THEN Nobody ELSE holder[t]]
  BY DEF PruneDeletes, Purge, worldVars
<1>2. marked' \cup deleted' = marked \cup deleted
  BY DEF PruneDeletes, Purge, Oldest
<1>3. ASSUME NEW l \in Loop
      PROVE  Holds(l)' <=> Holds(l) /\ l # <<r, t>>
  <2>1. l = <<l[1], l[2]>> /\ l[1] # Nobody /\ l[2] \in Tenant  BY LoopPairs
  <2>2. holder'[l[2]] = IF l[2] = t /\ holder[t] = r THEN Nobody ELSE holder[l[2]]
    BY <1>1, <2>1 DEF HoldTypeOK
  <2>3. <<r, t>>[1] = r /\ <<r, t>>[2] = t  OBVIOUS
  <2>4. CASE l = <<r, t>>
    <3>1. l[1] = r /\ l[2] = t  BY <2>3, <2>4
    <3>2. QED  BY <2>1, <2>2, <2>4, <3>1 DEF Holds
  <2>5. CASE l # <<r, t>>
    <3>1. l[1] # r \/ l[2] # t  BY <2>1, <2>5
    <3>2. QED  BY <2>1, <2>2, <2>5, <3>1 DEF Holds
  <2>6. QED  BY <2>4, <2>5
<1>4. \A l \in Loop : pc'[l] = pc[l] \/ l = <<r, t>> \/ {pc[l], pc'[l]} \cap Using = {}
  BY <1>1, GiveMoves DEF Using
<1>5. \A l \in Loop : Holds(l)' => pc'[l] \in Using
  BY <1>3, <1>4 DEF HoldInv
<1>6. ASSUME NEW l \in Loop, pc[l] \in Batched \/ pc'[l] \in Batched
      PROVE  pc'[l] = pc[l] /\ (Holds(l)' <=> Holds(l))
  <2>1. l # <<r, t>>
    <3>1. pc'[<<r, t>>] \in {"purging", "asleep", "turn"}
      BY <1>1, GiveMoves, LoopPairs
    <3>2. QED  BY <1>1, <1>6, <3>1 DEF Batched
  <2>2. QED  BY <1>3, <1>4, <1>6, <2>1 DEF Batched, Using
<1>7. QED  BY <1>1, <1>2, <1>5, <1>6, QuietStep

LEMMA RepeatReads ==
  ASSUME HoldTypeOK, HoldInv, RepeatInv, NEW r \in Relay, NEW t \in Tenant, ClaimReads(r, t)
  PROVE  HoldInv' /\ RepeatInv'
<1> DEFINE l0 == <<r, t>>
<1>1. l0 \in Loop /\ l0[1] = r /\ l0[2] = t  BY LoopPairs
<1>2. /\ pc[l0] = "reading" /\ holder[t] = r
      /\ UNCHANGED <<marked, deleted, holder, deliveries, faults>>
  BY DEF ClaimReads, storeVars, worldVars
<1>3. ASSUME NEW l \in Loop
      PROVE  /\ batch'[l] = IF l = l0 THEN Oldest(Pending(t), BatchLimit) ELSE batch[l]
             /\ sent'[l] = IF l = l0 THEN {} ELSE sent[l]
             /\ l # l0 => pc'[l] = pc[l]
             /\ pc'[l0] \in Batched
  BY <1>1, <1>3 DEF ClaimReads, Goto, HoldTypeOK, Batched
<1>4. \A m \in Oldest(Pending(t), BatchLimit) : TenantOf[m] = t /\ m \notin marked \cup deleted
  BY DEF Oldest, Pending
<1>5. \A l \in Loop : Holds(l)' <=> Holds(l)  BY <1>2 DEF Holds
<1>6. Holds(l0)  BY <1>1, <1>2 DEF Holds
<1> HIDE DEF l0
<1>7. HoldInv'
  <2>1. ASSUME NEW l \in Loop
        PROVE  /\ Holds(l)' => pc'[l] \in Using
               /\ \A m \in batch'[l] : TenantOf[m] = l[2]
               /\ sent'[l] \subseteq batch'[l]
               /\ Holds(l)' /\ pc'[l] = "publishing" =>
                    \A m \in batch'[l] \ sent'[l] : m \notin marked' \cup deleted'
    <3>1. CASE l = l0
      BY <1>1, <1>2, <1>3, <1>4, <3>1 DEF Batched, Using
    <3>2. CASE l # l0
      BY <1>2, <1>3, <1>5, <3>2 DEF HoldInv
    <3>3. QED  BY <3>1, <3>2
  <2>2. QED  BY <2>1 DEF HoldInv
<1>8. ASSUME NEW m \in Message
      PROVE  Paid(deliveries'[m], Stale(m)', Settled(m)', faults')
  <2>1. Stale(m)' \subseteq Stale(m)  BY <1>3, <1>5, <1>6 DEF Stale
  <2>2. Settled(m) => Settled(m)'
    <3>1. \A l \in Loop : pc[l] \in Batched => l # l0  BY <1>2 DEF Batched
    <3>2. QED  BY <1>2, <1>3, <1>5, <3>1 DEF Settled
  <2>3. deliveries[m] \in Nat /\ faults \in Nat  BY DEF HoldTypeOK
  <2>4. Settled(m) \in BOOLEAN /\ Settled(m)' \in BOOLEAN  BY DEF Settled
  <2>5. Paid(deliveries[m], Stale(m), Settled(m), faults)  BY DEF RepeatInv
  <2>6. QED  BY <1>2, <2>1, <2>2, <2>3, <2>4, <2>5, PaidKept
<1>9. QED  BY <1>7, <1>8 DEF RepeatInv

LEMMA RepeatPublishes ==
  ASSUME HoldTypeOK, HoldInv, RepeatInv, NEW r \in Relay, NEW t \in Tenant, PublishOk(r, t)
  PROVE  HoldInv' /\ RepeatInv'
<1> DEFINE l0 == <<r, t>>
<1>1. l0 \in Loop /\ l0[1] = r /\ l0[2] = t  BY LoopPairs
<1>2. PICK n \in Message :
        /\ pc[l0] = "publishing" /\ n \in batch[l0] \ sent[l0]
        /\ deliveries' = [deliveries EXCEPT ![n] = @ + 1]
        /\ sent' = [sent EXCEPT ![l0] = @ \cup {n}]
        /\ Goto(r, t, "marking") \/ pc' = pc
        /\ UNCHANGED <<marked, deleted, holder, batch, faults>>
  BY DEF PublishOk, NextToSend, storeVars
<1>3. ASSUME NEW l \in Loop
      PROVE  /\ sent'[l] = IF l = l0 THEN sent[l] \cup {n} ELSE sent[l]
             /\ l # l0 => pc'[l] = pc[l]
             /\ pc'[l0] \in Batched
  BY <1>1, <1>2, <1>3 DEF Goto, HoldTypeOK, Batched
<1>4. \A l \in Loop : Holds(l)' <=> Holds(l)  BY <1>2 DEF Holds
<1> HIDE DEF l0
<1>5. HoldInv'
  <2>1. ASSUME NEW l \in Loop
        PROVE  /\ Holds(l)' => pc'[l] \in Using
               /\ \A m \in batch'[l] : TenantOf[m] = l[2]
               /\ sent'[l] \subseteq batch'[l]
               /\ Holds(l)' /\ pc'[l] = "publishing" =>
                    \A m \in batch'[l] \ sent'[l] : m \notin marked' \cup deleted'
    <3>1. /\ batch'[l] = batch[l] /\ marked' \cup deleted' = marked \cup deleted
          /\ sent[l] \subseteq sent'[l] /\ sent'[l] \subseteq sent[l] \cup batch[l]
      BY <1>2, <1>3
    <3>2. /\ Holds(l) => pc[l] \in Using
          /\ \A m \in batch[l] : TenantOf[m] = l[2]
          /\ sent[l] \subseteq batch[l]
          /\ Holds(l) /\ pc[l] = "publishing" =>
               \A m \in batch[l] \ sent[l] : m \notin marked \cup deleted
      BY DEF HoldInv
    <3>3. Holds(l)' => pc'[l] \in Using
      BY <1>3, <1>4, <3>2 DEF Batched, Using
    <3>4. pc'[l] = "publishing" => pc[l] = "publishing"
      BY <1>2, <1>3
    <3>5. QED  BY <1>4, <3>1, <3>2, <3>3, <3>4
  <2>2. QED  BY <2>1 DEF HoldInv
<1>6. ASSUME NEW m \in Message
      PROVE  Paid(deliveries'[m], Stale(m)', Settled(m)', faults')
  <2>1. Stale(m)' \subseteq Stale(m)
    <3>1. ASSUME NEW l \in Loop, pc'[l] = "publishing"
          PROVE  pc[l] = "publishing"
      BY <1>2, <1>3, <3>1
    <3>2. \A l \in Loop : sent[l] \subseteq sent'[l]  BY <1>3
    <3>3. batch' = batch  BY <1>2
    <3>4. QED  BY <1>4, <3>1, <3>2, <3>3 DEF Stale
  <2>2. Settled(m) => Settled(m)'
    <3>1. \A l \in Loop : pc[l] \in Batched => pc'[l] \in Batched /\ sent[l] \subseteq sent'[l]
      BY <1>3
    <3>2. QED  BY <1>2, <1>4, <3>1 DEF Settled
  <2>3. deliveries[m] \in Nat /\ faults \in Nat /\ deliveries'[m] \in Nat  BY <1>2 DEF HoldTypeOK
  <2>4. Settled(m) \in BOOLEAN /\ Settled(m)' \in BOOLEAN  BY DEF Settled
  <2>5. Paid(deliveries[m], Stale(m), Settled(m), faults)  BY DEF RepeatInv
  <2>6. CASE m # n
    <3>1. deliveries'[m] = deliveries[m]  BY <1>2, <2>6 DEF HoldTypeOK
    <3>2. QED  BY <1>2, <2>1, <2>2, <2>3, <2>4, <2>5, <3>1, PaidKept
  <2>7. CASE m = n
    <3>0. deliveries'[m] = deliveries[m] + 1  BY <1>2, <2>7 DEF HoldTypeOK
    <3>1. CASE Holds(l0)
      <4>1. n \notin marked \cup deleted  BY <1>1, <1>2, <3>1 DEF HoldInv
      <4>2. ASSUME NEW l \in Loop, Holds(l), n \in sent[l]
            PROVE  FALSE
        <5>1. TenantOf[n] = l[2] /\ TenantOf[n] = t  BY <1>1, <1>2, <4>2 DEF HoldInv
        <5>2. l[1] = r  BY <1>1, <3>1, <4>2, <5>1 DEF Holds
        <5>3. l = l0  BY <5>1, <5>2, LoopPairs DEF l0
        <5>4. QED  BY <1>2, <4>2, <5>3
      <4>3. ~Settled(m)  BY <2>7, <4>1, <4>2 DEF Settled
      <4>4. Settled(m)'
        <5>1. Holds(l0)' /\ pc'[l0] \in Batched /\ n \in sent'[l0]
          BY <1>1, <1>3, <1>4, <3>1
        <5>2. QED  BY <1>1, <2>7, <5>1 DEF Settled
      <4>5. QED  BY <1>2, <2>1, <2>3, <3>0, <4>3, <4>4, PaidAsUnsettled
    <3>2. CASE ~Holds(l0)
      <4>1. l0 \in Stale(m)  BY <1>1, <1>2, <2>7, <3>2 DEF Stale
      <4>2. Stale(m)' \subseteq Stale(m) \ {l0}
        BY <1>1, <1>3, <2>1, <2>7 DEF Stale
      <4>3. QED  BY <1>2, <2>2, <2>3, <2>4, <2>5, <3>0, <4>1, <4>2, PaidSpent
    <3>3. QED  BY <3>1, <3>2
  <2>8. QED  BY <2>6, <2>7
<1>7. QED  BY <1>5, <1>6 DEF RepeatInv

LEMMA RepeatRefuses ==
  ASSUME HoldTypeOK, HoldInv, RepeatInv, NEW r \in Relay, NEW t \in Tenant, NEW out \in BOOLEAN,
         PublishRefused(r, t, out)
  PROVE  HoldInv' /\ RepeatInv'
<1> DEFINE l0 == <<r, t>>
<1>1. l0 \in Loop  BY LoopPairs
<1>2. PICK n \in Message :
        /\ pc[l0] = "publishing" /\ Goto(r, t, "marking")
        /\ deliveries' = IF out THEN [deliveries EXCEPT ![n] = @ + 1] ELSE deliveries
        /\ faults' = faults + 1
        /\ UNCHANGED <<marked, deleted, holder, batch, sent>>
  BY DEF PublishRefused, NextToSend, storeVars
<1>3. \A l \in Loop : pc'[l] = IF l = l0 THEN "marking" ELSE pc[l]
  BY <1>2 DEF Goto, HoldTypeOK
<1>4. \A l \in Loop : Holds(l)' <=> Holds(l)  BY <1>2 DEF Holds
<1> HIDE DEF l0
<1>5. HoldInv'
  <2>1. ASSUME NEW l \in Loop
        PROVE  /\ Holds(l)' => pc'[l] \in Using
               /\ \A m \in batch'[l] : TenantOf[m] = l[2]
               /\ sent'[l] \subseteq batch'[l]
               /\ Holds(l)' /\ pc'[l] = "publishing" =>
                    \A m \in batch'[l] \ sent'[l] : m \notin marked' \cup deleted'
    BY <1>2, <1>3, <1>4 DEF HoldInv, Using
  <2>2. QED  BY <2>1 DEF HoldInv
<1>6. ASSUME NEW m \in Message
      PROVE  Paid(deliveries'[m], Stale(m)', Settled(m)', faults')
  <2>1. Stale(m)' \subseteq Stale(m)  BY <1>2, <1>3, <1>4 DEF Stale
  <2>2. Settled(m) => Settled(m)'  BY <1>2, <1>3, <1>4 DEF Settled, Batched
  <2>3. deliveries[m] \in Nat /\ faults \in Nat /\ faults' = faults + 1
    BY <1>2 DEF HoldTypeOK
  <2>4. deliveries'[m] \in Nat /\ deliveries'[m] <= deliveries[m] + 1
    BY <1>2, <2>3 DEF HoldTypeOK
  <2>5. QED  BY <2>1, <2>2, <2>3, <2>4, StillPaid
<1>7. QED  BY <1>5, <1>6 DEF RepeatInv

\* One session per tenant: whoever holds a tenant beside l0 is l0.
LEMMA OneHolder ==
  ASSUME NEW l \in Loop, NEW k \in Loop, Holds(l), Holds(k), l[2] = k[2]
  PROVE  l = k
<1>1. l[1] = k[1]  BY DEF Holds
<1>2. l = <<l[1], l[2]>> /\ k = <<k[1], k[2]>>  BY LoopPairs
<1>3. QED  BY <1>1, <1>2

LEMMA RepeatMarks ==
  ASSUME HoldTypeOK, HoldInv, RepeatInv, NEW r \in Relay, NEW t \in Tenant, ClaimMarks(r, t)
  PROVE  HoldInv' /\ RepeatInv'
<1> DEFINE l0 == <<r, t>>
<1>1. l0 \in Loop /\ l0[1] = r /\ l0[2] = t  BY LoopPairs
<1>2. /\ pc[l0] = "marking"
      /\ marked' = IF Holds(l0) THEN marked \cup sent[l0] ELSE marked
      /\ holder' = IF Holds(l0) THEN [holder EXCEPT ![t] = Nobody] ELSE holder
      /\ UNCHANGED <<deleted, deliveries, faults>>
  BY <1>1 DEF ClaimMarks, Mark, Holds, worldVars
<1>3. ASSUME NEW l \in Loop
      PROVE  /\ pc'[l] = IF l = l0 THEN "swept" ELSE pc[l]
             /\ batch'[l] = IF l = l0 THEN {} ELSE batch[l]
             /\ sent'[l] = IF l = l0 THEN {} ELSE sent[l]
  BY <1>3 DEF ClaimMarks, Goto, HoldTypeOK
<1> HIDE DEF l0
<1>4. ASSUME NEW l \in Loop
      PROVE  Holds(l)' <=> Holds(l) /\ l # l0
  <2>1. l[1] # Nobody /\ l[2] \in Tenant  BY LoopPairs
  <2>2. CASE ~Holds(l0)  BY <1>2, <2>2 DEF Holds
  <2>3. CASE Holds(l0)
    <3>1. holder'[l[2]] = IF l[2] = t THEN Nobody ELSE holder[l[2]]
      BY <1>2, <2>1, <2>3 DEF HoldTypeOK
    <3>2. Holds(l) /\ l[2] = t => l = l0  BY <1>1, <2>3, OneHolder
    <3>3. QED  BY <1>1, <2>1, <3>1, <3>2 DEF Holds
  <2>4. QED  BY <2>2, <2>3
<1>5. HoldInv'
  <2>1. ASSUME NEW l \in Loop
        PROVE  /\ Holds(l)' => pc'[l] \in Using
               /\ \A m \in batch'[l] : TenantOf[m] = l[2]
               /\ sent'[l] \subseteq batch'[l]
               /\ Holds(l)' /\ pc'[l] = "publishing" =>
                    \A m \in batch'[l] \ sent'[l] : m \notin marked' \cup deleted'
    <3>1. CASE l = l0  BY <1>3, <1>4, <3>1
    <3>2. CASE l # l0
      <4>1. pc'[l] = pc[l] /\ batch'[l] = batch[l] /\ sent'[l] = sent[l]
        BY <1>3, <3>2
      <4>2. ASSUME Holds(l), pc[l] = "publishing", NEW m \in batch[l] \ sent[l]
            PROVE  m \notin marked' \cup deleted'
        <5>1. m \notin marked \cup deleted /\ TenantOf[m] = l[2]  BY <4>2 DEF HoldInv
        <5>2. Holds(l0) => l[2] # t  BY <1>1, <3>2, <4>2, OneHolder
        <5>3. Holds(l0) => m \notin sent[l0]  BY <1>1, <5>1, <5>2 DEF HoldInv
        <5>4. QED  BY <1>2, <5>1, <5>3
      <4>3. QED  BY <1>4, <4>1, <4>2 DEF HoldInv
    <3>3. QED  BY <3>1, <3>2
  <2>2. QED  BY <2>1 DEF HoldInv
<1>6. ASSUME NEW m \in Message
      PROVE  Paid(deliveries'[m], Stale(m)', Settled(m)', faults')
  <2>1. Stale(m)' \subseteq Stale(m)
    <3>1. ASSUME NEW l \in Loop, pc'[l] = "publishing"
          PROVE  /\ pc[l] = "publishing" /\ batch'[l] = batch[l] /\ sent'[l] = sent[l]
                 /\ Holds(l)' <=> Holds(l)
      <4>1. l # l0  BY <1>3, <3>1
      <4>2. QED  BY <1>3, <1>4, <3>1, <4>1
    <3>2. QED  BY <3>1 DEF Stale
  <2>2. Settled(m) => Settled(m)'
    <3>1. CASE m \in marked \cup deleted  BY <1>2, <3>1 DEF Settled
    <3>2. ASSUME NEW l \in Loop, Holds(l), pc[l] \in Batched, m \in sent[l]
          PROVE  Settled(m)'
      <4>1. CASE l = l0  BY <1>2, <3>2, <4>1 DEF Settled
      <4>2. CASE l # l0
        <5>1. Holds(l)' /\ pc'[l] \in Batched /\ m \in sent'[l]  BY <1>3, <1>4, <3>2, <4>2
        <5>2. QED  BY <5>1 DEF Settled
      <4>3. QED  BY <4>1, <4>2
    <3>3. QED  BY <3>1, <3>2 DEF Settled
  <2>3. /\ deliveries[m] \in Nat /\ faults \in Nat
        /\ deliveries'[m] = deliveries[m] /\ faults' = faults
    BY <1>2 DEF HoldTypeOK
  <2>4. QED  BY <2>1, <2>2, <2>3, StillPaid
<1>7. QED  BY <1>5, <1>6 DEF RepeatInv

LEMMA RepeatCrashes ==
  ASSUME HoldTypeOK, HoldInv, RepeatInv, NEW r \in Relay, Crash(r)
  PROVE  HoldInv' /\ RepeatInv'
<1>1. /\ UNCHANGED <<marked, deleted, deliveries>> /\ faults' = faults + 1
      /\ holder' = [t \in Tenant |-> IF holder[t] = r THEN Nobody ELSE holder[t]]
  BY DEF Crash, DropSessions
<1>2. ASSUME NEW l \in Loop
      PROVE  /\ pc'[l] = IF l[1] = r THEN "asleep" ELSE pc[l]
             /\ batch'[l] = IF l[1] = r THEN {} ELSE batch[l]
             /\ sent'[l] = IF l[1] = r THEN {} ELSE sent[l]
  BY <1>2 DEF Crash
<1>3. ASSUME NEW l \in Loop
      PROVE  Holds(l)' <=> Holds(l) /\ l[1] # r
  <2>1. l[1] # Nobody /\ l[2] \in Tenant  BY LoopPairs
  <2>2. holder'[l[2]] = IF holder[l[2]] = r THEN Nobody ELSE holder[l[2]]  BY <1>1, <2>1
  <2>3. QED  BY <2>1, <2>2 DEF Holds
<1>4. HoldInv'
  <2>1. ASSUME NEW l \in Loop
        PROVE  /\ Holds(l)' => pc'[l] \in Using
               /\ \A m \in batch'[l] : TenantOf[m] = l[2]
               /\ sent'[l] \subseteq batch'[l]
               /\ Holds(l)' /\ pc'[l] = "publishing" =>
                    \A m \in batch'[l] \ sent'[l] : m \notin marked' \cup deleted'
    <3>1. CASE l[1] = r  BY <1>2, <1>3, <3>1
    <3>2. CASE l[1] # r  BY <1>1, <1>2, <1>3, <3>2 DEF HoldInv
    <3>3. QED  BY <3>1, <3>2
  <2>2. QED  BY <2>1 DEF HoldInv
<1>5. ASSUME NEW m \in Message
      PROVE  Paid(deliveries'[m], Stale(m)', Settled(m)', faults')
  <2>1. Stale(m)' \subseteq Stale(m)
    <3>1. ASSUME NEW l \in Loop, pc'[l] = "publishing"
          PROVE  /\ pc[l] = "publishing" /\ batch'[l] = batch[l] /\ sent'[l] = sent[l]
                 /\ Holds(l)' <=> Holds(l)
      <4>1. l[1] # r  BY <1>2, <3>1
      <4>2. QED  BY <1>2, <1>3, <3>1, <4>1
    <3>2. QED  BY <3>1 DEF Stale
  <2>2. /\ deliveries[m] \in Nat /\ faults \in Nat
        /\ deliveries'[m] = deliveries[m] /\ faults' = faults + 1
    BY <1>1 DEF HoldTypeOK
  <2>3. QED  BY <2>1, <2>2, PaidAsUnsettled
<1>6. QED  BY <1>4, <1>5 DEF RepeatInv

\* A session that ends leaves its loop to publish the rest of its batch once more, or takes
\* back the mark of what it had published: never both for one fact.
LEMMA RepeatSessions ==
  ASSUME HoldTypeOK, HoldInv, RepeatInv, NEW t \in Tenant, SessionEnds(t)
  PROVE  HoldInv' /\ RepeatInv'
<1>1. /\ holder[t] \in Relay /\ holder' = [holder EXCEPT ![t] = Nobody]
      /\ UNCHANGED <<marked, deleted, deliveries, pc, batch, sent>> /\ faults' = faults + 1
  BY DEF SessionEnds, EndSession, loopVars, HoldTypeOK
<1> DEFINE l0 == <<holder[t], t>>
<1>2. l0 \in Loop /\ l0[1] = holder[t] /\ l0[2] = t  BY <1>1, LoopPairs
<1>3. Holds(l0)  BY <1>2 DEF Holds
<1> HIDE DEF l0
<1>4. ASSUME NEW l \in Loop
      PROVE  Holds(l)' <=> Holds(l) /\ l # l0
  <2>1. l[1] # Nobody /\ l[2] \in Tenant  BY LoopPairs
  <2>2. holder'[l[2]] = IF l[2] = t THEN Nobody ELSE holder[l[2]]
    BY <1>1, <2>1 DEF HoldTypeOK
  <2>3. Holds(l) /\ l[2] = t => l = l0  BY <1>2, <1>3, OneHolder
  <2>4. QED  BY <1>2, <2>1, <2>2, <2>3 DEF Holds
<1>5. HoldInv'  BY <1>1, <1>4 DEF HoldInv
<1>6. ASSUME NEW m \in Message
      PROVE  Paid(deliveries'[m], Stale(m)', Settled(m)', faults')
  <2>1. /\ deliveries[m] \in Nat /\ faults \in Nat
        /\ deliveries'[m] = deliveries[m] /\ faults' = faults + 1
    BY <1>1 DEF HoldTypeOK
  <2>2. Stale(m)' \subseteq Stale(m) \cup {l0}  BY <1>1, <1>4 DEF Stale
  <2>3. CASE m \in sent[l0]
    <3>1. l0 \notin Stale(m)'  BY <1>1, <2>3 DEF Stale
    <3>2. Stale(m)' \subseteq Stale(m)  BY <2>2, <3>1
    <3>3. QED  BY <2>1, <3>2, PaidAsUnsettled
  <2>4. CASE m \notin sent[l0]
    <3> DEFINE s == Settled(m)
               u == Settled(m)'
               S == Stale(m)
               T == Stale(m)'
               d == deliveries[m]
    <3>1. s => u  BY <1>1, <1>4, <2>4 DEF Settled
    <3>2. s \in BOOLEAN /\ u \in BOOLEAN  BY DEF Settled
    <3>3. Paid(d, S, s, faults)  BY DEF RepeatInv
    <3>4. T \subseteq S \cup {l0} /\ d \in Nat  BY <2>1, <2>2
    <3> HIDE DEF s, u, S, T, d
    <3>5. Paid(d, T, u, faults + 1)  BY <2>1, <3>1, <3>2, <3>3, <3>4, PaidMore
    <3>6. QED  BY <2>1, <3>5 DEF d, T, u
  <2>5. QED  BY <2>3, <2>4
<1>7. QED  BY <1>5, <1>6 DEF RepeatInv

LEMMA RepeatAround ==
  ASSUME HoldTypeOK, HoldInv, RepeatInv,
         \/ \E r \in Relay : Stop(r)
         \/ \E m \in Message : Committed(m)
         \/ UNCHANGED vars
  PROVE  HoldInv' /\ RepeatInv'
<1>1. CASE \E r \in Relay : Stop(r)
  <2>1. \A l \in Loop : pc'[l] = pc[l] \/ {pc[l], pc'[l]} \cap Using = {}
    BY <1>1 DEF Stop, Using
  <2>2. QED  BY <1>1, <2>1, IdleStep DEF Stop
<1>2. CASE \E m \in Message : Committed(m)
  <2>1. UNCHANGED <<pc, batch, sent, marked, deleted, holder, deliveries, faults>>
    BY <1>2 DEF Committed, Commit, loopVars, worldVars
  <2>2. \A l \in Loop : Holds(l)' <=> Holds(l)  BY <2>1 DEF Holds
  <2>3. \A l \in Loop : Holds(l)' => pc'[l] \in Using  BY <2>1, <2>2 DEF HoldInv
  <2>4. QED  BY <2>1, <2>2, <2>3, QuietStep
<1>3. CASE UNCHANGED vars  BY <1>3, IdleStep DEF vars, loopVars, worldVars
<1>4. QED  BY <1>1, <1>2, <1>3

LEMMA RepeatStep ==
  ASSUME HoldTypeOK, SlotTypeOK, SlotInv, HoldInv, RepeatInv, [Next]_vars
  PROVE  HoldInv' /\ RepeatInv'
<1>1. ASSUME NEW r \in Relay, NEW t \in Tenant, Step(r, t)
      PROVE  HoldInv' /\ RepeatInv'
  BY <1>1, RepeatTurns, RepeatLocks, RepeatPrunes, RepeatReads, RepeatPublishes, RepeatMarks
  DEF Step
<1>2. QED  BY <1>1, RepeatRefuses, RepeatCrashes, RepeatSessions, RepeatAround DEF Next

LEMMA RepeatInit == Init => HoldInv /\ RepeatInv
<1> SUFFICES ASSUME Init PROVE HoldInv /\ RepeatInv  OBVIOUS
<1>1. /\ \A l \in Loop : pc[l] = "asleep" /\ batch[l] = {} /\ sent[l] = {}
      /\ \A t \in Tenant : holder[t] = Nobody
      /\ \A m \in Message : deliveries[m] = 0
      /\ faults = 0
  BY DEF Init, StoreInit
<1>2. HoldInv  BY <1>1, LoopPairs DEF HoldInv, Holds
<1>3. ASSUME NEW m \in Message PROVE Paid(deliveries[m], Stale(m), Settled(m), faults)
  <2>1. Stale(m) = {}  BY <1>1 DEF Stale
  <2>2. IsFiniteSet(Stale(m)) /\ Cardinality(Stale(m)) = 0  BY <2>1, FS_EmptySet
  <2>3. QED  BY <1>1, <2>2 DEF Paid
<1>4. QED  BY <1>2, <1>3 DEF RepeatInv

\* relay.ts, sweepTenant and the claim of prisma.ts: whatever crashes, ended sessions and
\* refusals come, no fact goes out more often than once and once more for each of them.
THEOREM RepeatsArePaidFor == Spec => []RepeatsOnlyAfterFaults
<1>1. IInv => HoldTypeOK /\ SlotTypeOK /\ SlotInv
  BY TypesSplit, RelayAssumption DEF IInv, TypeOK, StoreTypeOK, HoldTypeOK
<1>2. Init => HoldInv /\ RepeatInv  BY RepeatInit
<1>3. IInv /\ HoldInv /\ RepeatInv /\ [Next]_vars => (HoldInv /\ RepeatInv)'
  BY <1>1, RepeatStep
<1>4. ASSUME IInv, RepeatInv
      PROVE  RepeatsOnlyAfterFaults
  <2>1. ASSUME NEW m \in Message PROVE deliveries[m] <= 1 + faults
    <3>1. deliveries[m] \in Nat /\ faults \in Nat  BY <1>1, <1>4 DEF HoldTypeOK
    <3>2. /\ IsFiniteSet(Stale(m))
          /\ deliveries[m] + Cardinality(Stale(m)) + (IF Settled(m) THEN 0 ELSE 1) <= 1 + faults
      BY <1>4 DEF RepeatInv, Paid
    <3>3. Cardinality(Stale(m)) \in Nat  BY <3>2, FS_CardinalityType
    <3>4. QED  BY <3>1, <3>2, <3>3
  <2>2. QED  BY <2>1 DEF RepeatsOnlyAfterFaults
<1>5. QED  BY <1>2, <1>3, <1>4, Inductive, PTL DEF Spec

-----------------------------------------------------------------------------
(* The log that replicas, crashes and refusals amount to.                   *)

\* What is ahead of a fact is committed, of its tenant and yet to go out, and whoever has the
\* fact in a batch read it while all of that was pending.
AheadInv ==
  /\ ahead \in [Message -> SUBSET Message]
  /\ \A m \in Message : ahead[m] \subseteq {i \in EarlierOf(m) : deliveries[i] = 0}
  /\ \A l \in Loop : /\ batch[l] \subseteq committed
                     /\ \A m \in batch[l] : ahead[m] \subseteq visible[l]

\* A loop's batch stays, is dropped, or is read anew in a step that changes nothing else of it.
BatchMove(l) ==
  \/ batch'[l] = batch[l] /\ visible'[l] = visible[l]
  \/ batch'[l] = {}
  \/ /\ batch'[l] = Oldest(Pending(l[2]), BatchLimit) /\ visible'[l] = Pending(l[2])
     /\ UNCHANGED <<committed, deliveries>>

LEMMA BatchMoves ==
  ASSUME PublishTypeOK, [Next]_vars
  PROVE  committed \subseteq committed' /\ \A l \in Loop : BatchMove(l)
<1>1. ASSUME UNCHANGED <<batch, visible>> PROVE \A l \in Loop : BatchMove(l)
  BY <1>1 DEF BatchMove
<1> USE DEF storeVars, loopVars, worldVars
<1>2. ASSUME NEW r \in Relay, NEW t \in Tenant, Step(r, t)
      PROVE  committed' = committed /\ \A l \in Loop : BatchMove(l)
  <2>1. CASE Wake(r, t) \/ TurnStopped(r, t) \/ TurnSweeps(r, t) \/ TurnOnlyPrunes(r, t)
    BY <1>1, <2>1 DEF Wake, TurnStopped, TurnSweeps, TurnOnlyPrunes
  <2>2. CASE ClaimLocks(r, t) \/ ClaimFails(r, t) \/ PublishOk(r, t)
    BY <1>1, <2>2 DEF ClaimLocks, ClaimFails, PublishOk, TryLock
  <2>3. CASE ClaimReads(r, t)
    <3>1. ASSUME NEW l \in Loop PROVE BatchMove(l)
      <4>1. CASE l = <<r, t>>
        BY <2>3, <4>1 DEF ClaimReads, BatchMove, PublishTypeOK
      <4>2. CASE l # <<r, t>>
        BY <2>3, <4>2 DEF ClaimReads, BatchMove, PublishTypeOK
      <4>3. QED  BY <4>1, <4>2
    <3>2. QED  BY <2>3, <3>1 DEF ClaimReads
  <2>4. CASE ClaimMarks(r, t)
    <3>1. ASSUME NEW l \in Loop PROVE BatchMove(l)
      <4>1. CASE l = <<r, t>>
        BY <2>4, <4>1 DEF ClaimMarks, BatchMove, PublishTypeOK
      <4>2. CASE l # <<r, t>>
        BY <2>4, <4>2 DEF ClaimMarks, BatchMove, PublishTypeOK
      <4>3. QED  BY <4>1, <4>2
    <3>2. QED  BY <2>4, <3>1 DEF ClaimMarks, Mark
  <2>5. CASE TurnPrunes(r, t) \/ PruneLocks(r, t) \/ PruneDeletes(r, t) \/ TurnEnds(r, t)
    BY <1>1, <2>5 DEF TurnPrunes, PruneLocks, PruneDeletes, TurnEnds, TryLock, Purge
  <2>6. QED  BY <1>2, <2>1, <2>2, <2>3, <2>4, <2>5 DEF Step
<1>3. ASSUME NEW r \in Relay, NEW t \in Tenant, NEW out \in BOOLEAN, PublishRefused(r, t, out)
      PROVE  committed' = committed /\ \A l \in Loop : BatchMove(l)
  BY <1>1, <1>3 DEF PublishRefused
<1>4. ASSUME NEW r \in Relay, Stop(r)
      PROVE  committed' = committed /\ \A l \in Loop : BatchMove(l)
  BY <1>1, <1>4 DEF Stop
<1>5. ASSUME NEW r \in Relay, Crash(r)
      PROVE  committed' = committed /\ \A l \in Loop : BatchMove(l)
  BY <1>5 DEF Crash, DropSessions, BatchMove
<1>6. ASSUME NEW t \in Tenant, SessionEnds(t)
      PROVE  committed' = committed /\ \A l \in Loop : BatchMove(l)
  BY <1>1, <1>6 DEF SessionEnds, EndSession
<1>7. ASSUME NEW m \in Message, Committed(m)
      PROVE  committed \subseteq committed' /\ \A l \in Loop : BatchMove(l)
  BY <1>1, <1>7 DEF Committed, Commit
<1>8. CASE UNCHANGED vars  BY <1>1, <1>8 DEF vars
<1>9. QED  BY <1>2, <1>3, <1>4, <1>5, <1>6, <1>7, <1>8 DEF Next

LEMMA AheadStep ==
  ASSUME IInv, AheadInv, [Next]_vars, Track
  PROVE  AheadInv'
<1>1. PublishTypeOK  BY TypesSplit DEF IInv
<1>2. committed \subseteq committed' /\ \A l \in Loop : BatchMove(l)  BY <1>1, BatchMoves
<1>3. ahead' \in [Message -> SUBSET Message]
  <2>1. \A m \in Message : EarlierOf(m) \subseteq Message /\ ahead[m] \subseteq Message
    BY <1>1 DEF EarlierOf, PublishTypeOK, AheadInv
  <2>2. QED  BY <2>1 DEF Track
<1>4. ASSUME NEW m \in Message
      PROVE  ahead'[m] \subseteq {i \in EarlierOf(m)' : deliveries'[i] = 0}
  <2>1. ahead[m] \subseteq EarlierOf(m)  BY <1>4 DEF AheadInv
  <2>2. EarlierOf(m) \subseteq EarlierOf(m)'  BY <1>2 DEF EarlierOf
  <2>3. ahead'[m] \subseteq {i \in EarlierOf(m) : deliveries'[i] = 0}
    BY <1>4, <2>1 DEF Track
  <2>4. QED  BY <2>2, <2>3
<1>5. \A m \in committed : ahead'[m] \subseteq ahead[m]
  BY <1>1 DEF Track, PublishTypeOK
<1>6. ASSUME NEW l \in Loop
      PROVE  /\ batch'[l] \subseteq committed'
             /\ \A m \in batch'[l] : ahead'[m] \subseteq visible'[l]
  <2>1. batch[l] \subseteq committed /\ \A m \in batch[l] : ahead[m] \subseteq visible[l]
    BY <1>6 DEF AheadInv
  <2>2. CASE batch'[l] = batch[l] /\ visible'[l] = visible[l]
    BY <2>1, <2>2, <1>2, <1>5
  <2>3. CASE batch'[l] = {}  BY <2>3
  <2>4. CASE /\ batch'[l] = Oldest(Pending(l[2]), BatchLimit) /\ visible'[l] = Pending(l[2])
             /\ UNCHANGED <<committed, deliveries>>
    <3>1. batch'[l] \subseteq Pending(l[2])  BY <2>4 DEF Oldest
    <3>2. Pending(l[2]) \subseteq committed  BY DEF Pending
    <3>3. ASSUME NEW m \in batch'[l], NEW i \in ahead[m] PROVE i \in Pending(l[2])
      <4>1. m \in Message /\ TenantOf[m] = l[2]
        BY <3>1, <3>3, <1>1 DEF Pending, PublishTypeOK
      <4>2. i \in committed /\ TenantOf[i] = l[2] /\ deliveries[i] = 0
        BY <3>3, <4>1 DEF AheadInv, EarlierOf
      <4>3. i \notin Delivered  BY <4>2 DEF Delivered
      <4>4. i \notin marked \cup deleted  BY <4>3 DEF IInv, PublishInv
      <4>5. QED  BY <4>2, <4>4 DEF Pending
    <3>4. QED  BY <2>4, <3>1, <3>2, <3>3, <1>2, <1>5
  <2>5. QED  BY <1>2, <1>6, <2>2, <2>3, <2>4 DEF BatchMove
<1>7. QED  BY <1>3, <1>4, <1>6 DEF AheadInv

\* What publishInOrder publishes next has nothing ahead of it, unless it has gone out before.
LEMMA NothingAhead ==
  ASSUME IInv, AheadInv, NEW r \in Relay, NEW t \in Tenant, NEW m \in Message,
         NextToSend(r, t, m)
  PROVE  m \in committed /\ ahead[m] = {}
<1> DEFINE l == <<r, t>>
<1>1. l \in Loop  BY DEF Loop
<1>2. /\ m \in batch[l] \ sent[l] /\ \A k \in batch[l] \ sent[l] : m <= k
  BY DEF NextToSend
<1>3. m \in committed /\ ahead[m] \subseteq visible[l]  BY <1>1, <1>2 DEF AheadInv
<1>4. SUFFICES ASSUME NEW i \in ahead[m] PROVE FALSE  BY <1>3
<1>5. i \in visible[l] /\ i \in Message /\ i < m /\ deliveries[i] = 0
  BY <1>3, <1>4 DEF AheadInv, EarlierOf
<1>6. i \in batch[l]
  <2>1. PrefixOf(batch[l], visible[l])  BY <1>1 DEF IInv, PublishInv
  <2>2. QED  BY <1>2, <1>5, <2>1 DEF PrefixOf
<1>7. i \notin sent[l]
  <2>1. sent[l] \subseteq Delivered  BY <1>1 DEF IInv, PublishInv
  <2>2. QED  BY <1>5, <2>1 DEF Delivered
<1>8. i \in Nat /\ m \in Nat  BY <1>5, OutboxAssumption
<1>9. QED  BY <1>2, <1>5, <1>6, <1>7, <1>8

\* A message that goes out does so the first time with nothing ahead of it, or once more.
LEMMA SendingIsLogged ==
  ASSUME IInv, AheadInv, Track, RepeatsOnlyAfterFaults', NEW m \in Message,
         m \in committed, ahead[m] = {},
         deliveries' = [deliveries EXCEPT ![m] = @ + 1], faults' \in {faults, faults + 1},
         UNCHANGED <<committed, marked, deleted>>
  PROVE  Log!Next
<1>1. deliveries \in [Message -> Nat]  BY DEF IInv, TypeOK
<1>2. deliveries'[m] = deliveries[m] + 1  BY <1>1
<1>3. deliveries'[m] <= 1 + faults'  BY DEF RepeatsOnlyAfterFaults
<1>4. /\ ahead \in [Message -> SUBSET Message]
      /\ \A k \in Message : \A i \in ahead[k] : i \in Message /\ deliveries[i] = 0
  BY DEF AheadInv
<1>5. ahead' = [k \in Message |-> {i \in ahead[k] : deliveries'[i] = 0}]
  BY DEF Track
<1>6. \A i \in Message : deliveries'[i] = IF i = m THEN deliveries[i] + 1 ELSE deliveries[i]
  BY <1>1
<1>7. CASE deliveries[m] = 0
  <2>1. deliveries' = [deliveries EXCEPT ![m] = 1]  BY <1>7
  <2>2. \A k \in Message : {i \in ahead[k] : deliveries'[i] = 0} = ahead[k] \ {m}
    BY <1>4, <1>6, <1>7
  <2>3. ahead' = [k \in Message |-> ahead[k] \ {m}]  BY <1>5, <2>2
  <2>4. ~Log!HasGoneOut(m)  BY <1>7 DEF Log!HasGoneOut
  <2>5. Log!GoOut(m)  BY <2>1, <2>3, <2>4 DEF Log!GoOut, Log!MayFail
  <2>6. QED  BY <2>5 DEF Log!Next
<1>8. CASE deliveries[m] # 0
  <2>1. deliveries[m] > 0  BY <1>1, <1>8
  <2>2. \A k \in Message : {i \in ahead[k] : deliveries'[i] = 0} = ahead[k]
    BY <1>4, <1>6, <2>1
  <2>3. ahead' = [k \in Message |-> ahead[k]]  BY <1>5, <2>2
  <2>4. ahead' = ahead  BY <1>4, <2>3
  <2>5. faults \in Nat  BY RelayAssumption DEF IInv, TypeOK
  <2>6. deliveries[m] <= faults'  BY <1>1, <1>2, <1>3, <2>5
  <2>7. Log!HasGoneOut(m)  BY <2>1 DEF Log!HasGoneOut
  <2>8. Log!Repeat(m)  BY <2>4, <2>6, <2>7 DEF Log!Repeat, Log!MayFail
  <2>9. QED  BY <2>8 DEF Log!Next
<1>9. QED  BY <1>7, <1>8

\* A step that writes and publishes nothing leaves the order alone.
LEMMA OrderStays ==
  ASSUME AheadInv, Track, committed' = committed, deliveries' = deliveries
  PROVE  ahead' = ahead
<1>1. ahead \in [Message -> SUBSET Message]  BY DEF AheadInv
<1>2. ahead' = [m \in Message |-> {i \in ahead[m] : deliveries[i] = 0}]  BY DEF Track
<1>3. \A m \in Message : {i \in ahead[m] : deliveries[i] = 0} = ahead[m]  BY DEF AheadInv
<1>4. ahead' = [m \in Message |-> ahead[m]]  BY <1>2, <1>3
<1>5. QED  BY <1>1, <1>4

\* A step of a relay is one of the log, or shows nothing.
LEMMA LogStep ==
  ASSUME IInv, AheadInv, NothingLost', RepeatsOnlyAfterFaults', Next, Track
  PROVE  Log!Next \/ UNCHANGED Log!logVars
<1>1. ASSUME UNCHANGED <<committed, marked, deleted, deliveries, faults>>
      PROVE  UNCHANGED Log!logVars
  BY <1>1, OrderStays DEF Log!logVars
<1>2. ASSUME UNCHANGED <<committed, marked, deleted, deliveries>>, faults' = faults + 1
      PROVE  Log!Next
  <2>1. Log!Fail  BY <1>2, OrderStays DEF Log!Fail
  <2>2. QED  BY <2>1 DEF Log!Next
<1>3. ASSUME UNCHANGED <<committed, deliveries, faults>>,
             marked \cup deleted \subseteq marked' \cup deleted'
      PROVE  Log!Next
  <2>1. marked' \cup deleted' \subseteq {m \in Message : deliveries[m] > 0}
    BY <1>3 DEF NothingLost, Delivered
  <2>2. marked' \cup deleted' \in SUBSET {m \in Message : Log!HasGoneOut(m)}
    BY <2>1 DEF Log!HasGoneOut
  <2>3. (marked \cup deleted)' = (marked \cup deleted) \cup (marked' \cup deleted')
    BY <1>3
  <2>4. Log!Settle  BY <1>3, <2>2, <2>3, OrderStays DEF Log!Settle
  <2>5. QED  BY <2>4 DEF Log!Next
<1> USE DEF storeVars, loopVars, worldVars
<1>4. ASSUME NEW r \in Relay, NEW t \in Tenant, Step(r, t)
      PROVE  Log!Next \/ UNCHANGED Log!logVars
  <2>1. CASE Wake(r, t) \/ TurnStopped(r, t) \/ TurnSweeps(r, t) \/ TurnOnlyPrunes(r, t)
    BY <1>1, <2>1 DEF Wake, TurnStopped, TurnSweeps, TurnOnlyPrunes
  <2>2. CASE ClaimLocks(r, t) \/ ClaimReads(r, t) \/ ClaimFails(r, t)
    BY <1>1, <2>2 DEF ClaimLocks, ClaimReads, ClaimFails, TryLock
  <2>3. CASE PublishOk(r, t)
    <3>1. PICK m \in Message :
            /\ NextToSend(r, t, m) /\ deliveries' = [deliveries EXCEPT ![m] = @ + 1]
            /\ UNCHANGED <<committed, marked, deleted, faults>>
      BY <2>3 DEF PublishOk
    <3>2. QED  BY <3>1, NothingAhead, SendingIsLogged
  <2>4. CASE ClaimMarks(r, t)
    <3>1. UNCHANGED <<committed, deleted, deliveries, faults>> /\ marked \subseteq marked'
      BY <2>4 DEF ClaimMarks, Mark
    <3>2. QED  BY <3>1, <1>3
  <2>5. CASE PruneDeletes(r, t)
    <3>1. UNCHANGED <<committed, marked, deliveries, faults>> /\ deleted \subseteq deleted'
      BY <2>5 DEF PruneDeletes, Purge
    <3>2. QED  BY <3>1, <1>3
  <2>6. CASE TurnPrunes(r, t) \/ PruneLocks(r, t) \/ TurnEnds(r, t)
    BY <1>1, <2>6 DEF TurnPrunes, PruneLocks, TurnEnds, TryLock
  <2>7. QED  BY <1>4, <2>1, <2>2, <2>3, <2>4, <2>5, <2>6 DEF Step
<1>5. ASSUME NEW r \in Relay, NEW t \in Tenant, NEW out \in BOOLEAN, PublishRefused(r, t, out)
      PROVE  Log!Next
  <2>1. PICK m \in Message :
          /\ NextToSend(r, t, m)
          /\ deliveries' = IF out THEN [deliveries EXCEPT ![m] = @ + 1] ELSE deliveries
          /\ UNCHANGED <<committed, marked, deleted>> /\ faults' = faults + 1
    BY <1>5 DEF PublishRefused
  <2>2. CASE out  BY <2>1, <2>2, NothingAhead, SendingIsLogged
  <2>3. CASE ~out  BY <2>1, <2>3, <1>2
  <2>4. QED  BY <2>2, <2>3
<1>6. ASSUME NEW r \in Relay, Stop(r) PROVE UNCHANGED Log!logVars
  BY <1>1, <1>6 DEF Stop
<1>7. ASSUME NEW r \in Relay, Crash(r) PROVE Log!Next
  BY <1>2, <1>7 DEF Crash, DropSessions
<1>8. ASSUME NEW t \in Tenant, SessionEnds(t) PROVE Log!Next
  BY <1>2, <1>8 DEF SessionEnds, EndSession
<1>9. ASSUME NEW m \in Message, Committed(m) PROVE Log!Next
  <2>1. /\ m \in Message \ committed /\ committed' = committed \cup {m}
        /\ UNCHANGED <<marked, deleted, deliveries, faults>>
    BY <1>9 DEF Committed, Commit
  <2>2. deliveries \in [Message -> Nat]  BY DEF IInv, TypeOK
  <2>3. ahead \in [Message -> SUBSET Message]  BY DEF AheadInv
  <2>4. \A k \in Message \ {m} : ahead'[k] = ahead[k]
    BY <2>1 DEF Track, AheadInv
  <2>5. ahead'[m] = {i \in committed :
                       TenantOf[i] = TenantOf[m] /\ i < m /\ ~Log!HasGoneOut(i)}
    <3>1. ahead'[m] = {i \in EarlierOf(m) : deliveries[i] = 0}  BY <2>1 DEF Track
    <3>2. committed \subseteq Message  BY DEF IInv, TypeOK, StoreTypeOK
    <3>3. \A i \in committed : deliveries[i] = 0 <=> ~Log!HasGoneOut(i)
      BY <2>2, <3>2 DEF Log!HasGoneOut
    <3>4. QED  BY <3>1, <3>3 DEF EarlierOf
  <2>6. ahead' = [ahead EXCEPT ![m] =
          {i \in committed : TenantOf[i] = TenantOf[m] /\ i < m /\ ~Log!HasGoneOut(i)}]
    <3>1. DOMAIN ahead' = Message /\ ahead' = [k \in Message |-> ahead'[k]]  BY DEF Track
    <3>2. QED  BY <2>3, <2>4, <2>5, <3>1
  <2>7. Log!Write(m)  BY <2>1, <2>6 DEF Log!Write
  <2>8. QED  BY <2>7 DEF Log!Next
<1>10. QED  BY <1>4, <1>5, <1>6, <1>7, <1>8, <1>9 DEF Next

\* Relays, store and publisher implement the log (relay.ts, prisma.ts): each fact goes out in its
\* tenant's order as far as it was known when it was written, counts as published only then, and
\* goes out again at most once for each fault.
THEOREM RelayImplementsLog == HistorySpec => ImplementsLog
<1>1. HistorySpec => Spec
  <2>1. HistoryInit => Init  BY DEF HistoryInit
  <2>2. [Next /\ Track]_historyVars => [Next]_vars  BY DEF historyVars
  <2>3. QED  BY <2>1, <2>2, PTL DEF HistorySpec, Spec
<1>2. HistoryInit => AheadInv
  BY DEF HistoryInit, Init, StoreInit, AheadInv
<1>3. IInv /\ AheadInv /\ [Next /\ Track]_historyVars => AheadInv'
  <2>1. ASSUME IInv, AheadInv, Next /\ Track PROVE AheadInv'  BY <2>1, AheadStep
  <2>2. ASSUME AheadInv, UNCHANGED historyVars PROVE AheadInv'
    BY <2>2 DEF historyVars, vars, storeVars, loopVars, worldVars, AheadInv, EarlierOf
  <2>3. QED  BY <2>1, <2>2
<1>4. HistoryInit => Log!Init
  BY DEF HistoryInit, Init, StoreInit, Log!Init
<1>5. IInv /\ AheadInv /\ NothingLost' /\ RepeatsOnlyAfterFaults' /\ [Next /\ Track]_historyVars
        => [Log!Next]_(Log!logVars)
  <2>1. ASSUME UNCHANGED historyVars PROVE UNCHANGED Log!logVars
    BY <2>1 DEF historyVars, vars, storeVars, worldVars, Log!logVars
  <2>2. QED  BY <2>1, LogStep
<1>6. QED
  BY <1>1, <1>2, <1>3, <1>4, <1>5, Inductive, NothingIsLost, RepeatsArePaidFor, PTL
  DEF HistorySpec, ImplementsLog, Log!Spec
=============================================================================
