-------------------------------- MODULE Probes --------------------------------
(***************************************************************************)
(* The probe listener (packages/core/src/probes.ts) over the health        *)
(* monitor (health-monitor.ts, health.ts), while the application goes      *)
(* through its lifecycle (module Lifecycle, which Kernel implements).      *)
(*                                                                         *)
(* A check is an operation of a dependency: it may answer late, fail, or   *)
(* never answer.  What a probe waits for is an evaluation of it, bounded   *)
(* by a timeout.  Checks that gate readiness keep one bounded report for   *)
(* an interval, and share the evaluation under way between all probes;     *)
(* the others are evaluated by each /healthz.                              *)
(***************************************************************************)
EXTENDS Naturals, FiniteSets

CONSTANTS
  Gating,   \* the components that contribute a check which gates /readyz
  Other,    \* those that contribute one which does not
  Probe     \* the probe requests in flight at once (a bound)

Check == Gating \cup Other

VARIABLES
  phase, ready, outcome,   \* the lifecycle
  refused,     \* gating checks declared with an interval that is not a positive number
  monitored,   \* whether the graph is built and its checks are known
  cached,      \* per gating check, the last bounded report
  recent,       \* gating checks whose report's interval is still running
  pending,     \* gating checks with an evaluation under way
  running,     \* evaluations whose operation has neither answered nor timed out, per check
  probe        \* the probes: what they ask, what they wait for, what they were told

App == INSTANCE Lifecycle

lifecycle == <<phase, ready, outcome>>
monitorVars == <<refused, monitored, cached, recent, pending, running>>
probesVars == <<lifecycle, monitorVars, probe>>

Reports == {"healthy", "unhealthy"}
Answers == {"none", "ok", "unavailable"}
IdleProbe == [asks |-> "none", got |-> [k \in Check |-> "none"], awaits |-> {}, answer |-> "none"]

Init ==
  /\ App!Init
  /\ refused \in SUBSET Gating
  /\ monitored = FALSE
  /\ cached = [k \in Check |-> "none"]
  /\ recent = {} /\ pending = {}
  /\ running = [k \in Check |-> 0]
  /\ probe = [p \in Probe |-> IdleProbe]

-----------------------------------------------------------------------------
(* The monitor.                                                             *)

\* What an entry's run() finds at once: a refusal of its interval, or a report still recent.
AtOnce(k) == IF k \in refused THEN "unhealthy"
             ELSE IF k \in recent THEN cached[k] ELSE "none"

\* Wrong: each probe evaluates for itself.
StartedEach(asked) == asked

\* `pending ??=`: what is started is not under way yet; other checks run for each probe.
Started(asked) == asked \ pending

\* A probe asks all of `asked`: it has the reports there are, and awaits the others.
Asks(p, kind, asked) ==
  LET awaited == {k \in asked : AtOnce(k) = "none"} IN
  /\ probe' = [probe EXCEPT ![p] =
       [asks |-> kind, awaits |-> awaited, answer |-> "none",
        got |-> [k \in Check |-> IF k \in asked THEN AtOnce(k) ELSE "none"]]]
  /\ running' = [k \in Check |-> running[k] + (IF k \in Started(awaited) THEN 1 ELSE 0)]
  /\ pending' = pending \cup (awaited \cap Gating)
  /\ UNCHANGED <<refused, monitored, cached, recent>>

Told(p, k, report) == [probe[p] EXCEPT !.got[k] = report, !.awaits = @ \ {k}]

\* Wrong: the slot is freed by the operation's own answer, not by the bounded report.
SettleKeepingSlot(k, report, answered) ==
  /\ k \in pending
  /\ running[k] > 0
  /\ answered \/ report = "unhealthy"
  /\ running' = [running EXCEPT ![k] = @ - 1]
  /\ cached' = [cached EXCEPT ![k] = report]
  /\ recent' = recent \cup {k}
  /\ pending' = IF answered THEN pending \ {k} ELSE pending
  /\ probe' = [p \in Probe |-> IF k \in probe[p].awaits THEN Told(p, k, report) ELSE probe[p]]
  /\ UNCHANGED <<lifecycle, refused, monitored>>

\* A shared evaluation is over: its operation answered, failed, threw or timed out.  The
\* report is kept, the slot is free, and every probe that awaited it has it.  What the operation
\* answers after its timeout goes nowhere.
SettleShared(k, report, answered) ==
  /\ k \in pending
  /\ running[k] > 0
  /\ answered \/ report = "unhealthy"
  /\ running' = [running EXCEPT ![k] = @ - 1]
  /\ cached' = [cached EXCEPT ![k] = report]
  /\ recent' = recent \cup {k}
  /\ pending' = pending \ {k}
  /\ probe' = [p \in Probe |-> IF k \in probe[p].awaits THEN Told(p, k, report) ELSE probe[p]]
  /\ UNCHANGED <<lifecycle, refused, monitored>>

\* An evaluation made for one /healthz is over.
SettleOwn(p, k, report, answered) ==
  /\ k \in probe[p].awaits \ Gating
  /\ answered \/ report = "unhealthy"
  /\ running' = [running EXCEPT ![k] = @ - 1]
  /\ probe' = [probe EXCEPT ![p] = Told(p, k, report)]
  /\ UNCHANGED <<lifecycle, refused, monitored, cached, recent, pending>>

\* The interval of a report is over.
IntervalEnds(k) ==
  /\ k \in recent
  /\ recent' = recent \ {k}
  /\ UNCHANGED <<lifecycle, refused, monitored, cached, pending, running, probe>>

-----------------------------------------------------------------------------
(* The listener: from the start of the build to the exit.                   *)

Respond(p, ok) == probe' = [probe EXCEPT ![p].answer = IF ok THEN "ok" ELSE "unavailable",
                                         ![p].awaits = {}]

Idle(p) == probe[p].asks = "none" /\ phase # "exited"

\* /livez, and /readyz of an application that is not ready: answered from the phase.
Livez(p) ==
  /\ Idle(p)
  /\ probe' = [probe EXCEPT ![p] = [IdleProbe EXCEPT !.asks = "livez", !.answer = "ok"]]
  /\ UNCHANGED <<lifecycle, monitorVars>>

ReadyzUnready(p) ==
  /\ Idle(p) /\ ~ready
  /\ probe' = [probe EXCEPT ![p] = [IdleProbe EXCEPT !.asks = "readyz", !.answer = "unavailable"]]
  /\ UNCHANGED <<lifecycle, monitorVars>>

\* /readyz of a ready application consults the gating checks.
Readyz(p) ==
  /\ Idle(p) /\ ready
  /\ Asks(p, "readyz", IF monitored THEN Gating ELSE {})
  /\ UNCHANGED lifecycle

\* /healthz consults every check, and before the graph is built there is none.
Healthz(p) ==
  /\ Idle(p)
  /\ Asks(p, "healthz", IF monitored THEN Check ELSE {})
  /\ UNCHANGED lifecycle

\* Wrong: the phase was read before the checks were awaited.
AnswerUnread(p) ==
  /\ probe[p].asks \in {"readyz", "healthz"} /\ probe[p].answer = "none" /\ probe[p].awaits = {}
  /\ Respond(p, \A k \in Check : probe[p].got[k] # "unhealthy")
  /\ UNCHANGED <<lifecycle, monitorVars>>

\* All reports are in: /readyz reads the lifecycle again, /healthz tells of the reports.
Answer(p) ==
  /\ probe[p].asks \in {"readyz", "healthz"} /\ probe[p].answer = "none" /\ probe[p].awaits = {}
  /\ Respond(p, /\ \A k \in Check : probe[p].got[k] # "unhealthy"
                /\ probe[p].asks = "readyz" => ready)
  /\ UNCHANGED <<lifecycle, monitorVars>>

\* The orchestrator has its answer.
Gone(p) ==
  /\ probe[p].answer # "none"
  /\ probe' = [probe EXCEPT ![p] = IdleProbe]
  /\ UNCHANGED <<lifecycle, monitorVars>>

\* The application moves on, and the checks of its graph are known as it starts its runtime.
Lives ==
  /\ App!Next
  /\ monitored' = (monitored \/ phase' = "starting")
  /\ UNCHANGED <<refused, cached, recent, pending, running, probe>>

-----------------------------------------------------------------------------

Next ==
  \/ Lives
  \/ \E p \in Probe : Livez(p) \/ ReadyzUnready(p) \/ Readyz(p) \/ Healthz(p) \/ Answer(p) \/ Gone(p)
  \/ \E k \in Check, report \in Reports, answered \in BOOLEAN :
       SettleShared(k, report, answered) \/ \E p \in Probe : SettleOwn(p, k, report, answered)
  \/ \E k \in Check : IntervalEnds(k)

Spec == Init /\ [][Next]_probesVars

\* Timeouts fire and continuations run; no operation of a dependency need ever answer.
Fairness ==
  /\ \A k \in Check : WF_probesVars(SettleShared(k, "unhealthy", FALSE))
  /\ \A k \in Check, p \in Probe : WF_probesVars(SettleOwn(p, k, "unhealthy", FALSE))
  /\ \A p \in Probe : WF_probesVars(Answer(p))

FairSpec == Spec /\ Fairness

-----------------------------------------------------------------------------
(* Properties.                                                              *)

\* Every variable holds a value of its kind.
TypeOK ==
  /\ phase \in {"building", "starting", "serving", "draining", "stopping", "exited"}
  /\ refused \subseteq Gating /\ ready \in BOOLEAN /\ outcome \in {"pending", "report", "failed"} /\ monitored \in BOOLEAN
  /\ cached \in [Check -> Reports \cup {"none"}] /\ recent \subseteq Gating /\ pending \subseteq Gating
  /\ running \in [Check -> Nat]
  /\ probe \in [Probe -> [asks : {"none", "livez", "readyz", "healthz"}, awaits : SUBSET Check,
                          got : [Check -> Reports \cup {"none"}], answer : Answers]]

\* However many probes come at once, a gating check is asked once at a time: a second
\* operation starts only after the first has answered or was given up.
OneEvaluationPerCheck == \A k \in Gating : running[k] <= 1

\* Once an application has lost its readiness, no /readyz is answered "ready" any more: not
\* even one that had asked while it was serving and waited for the checks until now.  And no
\* application with a check that gates readiness at no valid interval is ever ready.
NeverReadyAgain ==
  [][\A p \in Probe :
       probe'[p].asks = "readyz" /\ probe'[p].answer = "ok" /\ probe[p].answer = "none" =>
         ready /\ phase = "serving" /\ (monitored => refused = {})]_probesVars

\* Every probe is answered, though a dependency may never answer its check.
EveryProbeAnswers == \A p \in Probe : probe[p].asks # "none" ~> probe[p].answer # "none"

=============================================================================
