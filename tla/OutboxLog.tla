------------------------------- MODULE OutboxLog -------------------------------
(***************************************************************************)
(* What the outbox promises whoever writes facts to it and whoever they    *)
(* are published to: each fact goes out, in its tenant's order, before it  *)
(* counts as published, and again only when something failed.  It knows    *)
(* nothing of relays, claims, locks or batches; OutboxRelay implements it. *)
(*                                                                         *)
(* The order is that of ids among the facts written so far: ids are drawn  *)
(* before the commit, so a fact may surface behind one that has gone out.  *)
(***************************************************************************)
EXTENDS Naturals

CONSTANTS Message, TenantOf

VARIABLES
  written,      \* the facts that were written
  ahead,        \* per fact, those that were written before it and are to go out first
  times,        \* how often each has gone out
  settled,      \* the facts that count as published
  faults

logVars == <<written, ahead, times, settled, faults>>

Init ==
  /\ written = {} /\ settled = {} /\ faults = 0
  /\ ahead = [m \in Message |-> {}] /\ times = [m \in Message |-> 0]

HasGoneOut(m) == times[m] > 0

Write(m) ==
  /\ m \in Message \ written
  /\ written' = written \cup {m}
  /\ ahead' = [ahead EXCEPT ![m] =
                 {i \in written : TenantOf[i] = TenantOf[m] /\ i < m /\ ~HasGoneOut(i)}]
  /\ UNCHANGED <<times, settled, faults>>

\* A fault may come with a delivery, whose answer is then not heard, or by itself.
MayFail == faults' \in {faults, faults + 1}

\* The first time: nothing that was written before it is still to go out ahead of it.
GoOut(m) ==
  /\ m \in written /\ ~HasGoneOut(m) /\ ahead[m] = {}
  /\ times' = [times EXCEPT ![m] = 1]
  /\ ahead' = [k \in Message |-> ahead[k] \ {m}]
  /\ MayFail
  /\ UNCHANGED <<written, settled>>

\* Once more, at most once for each fault there has been.
Repeat(m) ==
  /\ HasGoneOut(m) /\ MayFail
  /\ times[m] <= faults'
  /\ times' = [times EXCEPT ![m] = @ + 1]
  /\ UNCHANGED <<written, ahead, settled>>

Settle ==
  /\ \E S \in SUBSET {m \in Message : HasGoneOut(m)} : settled' = settled \cup S
  /\ UNCHANGED <<written, ahead, times, faults>>

Fail ==
  /\ faults' = faults + 1
  /\ UNCHANGED <<written, ahead, times, settled>>

Next ==
  \/ \E m \in Message : Write(m) \/ GoOut(m) \/ Repeat(m)
  \/ Settle
  \/ Fail

Spec == Init /\ [][Next]_logVars
=============================================================================
