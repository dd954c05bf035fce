----------------------------- MODULE OutboxHistory -----------------------------
(***************************************************************************)
(* OutboxRelay with a history of the commits, and the log it implements.   *)
(* The relay keeps no order of commits, only of ids; which fact was        *)
(* written before which is what the log's promise is about.                *)
(***************************************************************************)
EXTENDS OutboxRelay

VARIABLE ahead  \* history: per fact, what was committed before it and has yet to go out first

historyVars == <<vars, ahead>>

EarlierOf(m) == {i \in committed : TenantOf[i] = TenantOf[m] /\ i < m}

HistoryInit == Init /\ ahead = [m \in Message |-> {}]

\* A commit notes what is ahead of its fact; what goes out is ahead of none.
Track ==
  ahead' = [m \in Message |->
              {i \in IF m \in committed' \ committed THEN EarlierOf(m) ELSE ahead[m] :
                 deliveries'[i] = 0}]

HistorySpec == HistoryInit /\ [][Next /\ Track]_historyVars

-----------------------------------------------------------------------------

Log == INSTANCE OutboxLog WITH
  written <- committed, times <- deliveries, settled <- marked \cup deleted

\* Replicas, crashes, ended sessions, refusals and unheard answers together show nothing but a
\* log: facts go out in their tenant's order as far as it was known when they were written, count
\* as published only then, and repeat at most once for each fault.
ImplementsLog == Log!Spec
=============================================================================
