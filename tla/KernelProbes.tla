----------------------------- MODULE KernelProbes -----------------------------
(***************************************************************************)
(* Kernel with the probe listener it starts (packages/core/src/start.ts,   *)
(* 561-600 and 675): Probes reads the phase and the readiness that Kernel  *)
(* really has, between any two of its turns, from the time the listener is *)
(* bound until the lifecycle ends.                                         *)
(***************************************************************************)
EXTENDS Kernel

CONSTANTS Gating, Other, Probe   \* as in Probes

VARIABLES refused, monitored, cached, recent, pending, running, probe

Prober == INSTANCE Probes WITH ready <- Ready, outcome <- exited.kind

probingVars == <<refused, monitored, cached, recent, pending, running, probe>>

ProbedInit == Init /\ Prober!Init

\* serve() replaces the empty monitor in the turn in which it starts the runtime.
Monitored ==
  /\ monitored' = (monitored \/ phase' = "starting")
  /\ UNCHANGED <<refused, cached, recent, pending, running, probe>>

\* A request to the listener, the settlement of a check, the end of a report's interval.
Listens ==
  /\ main # "binding" /\ UNCHANGED vars
  /\ \/ \E p \in Probe : \/ Prober!Livez(p) \/ Prober!ReadyzUnready(p) \/ Prober!Readyz(p)
                         \/ Prober!Healthz(p) \/ Prober!Answer(p) \/ Prober!Gone(p)
     \/ \E k \in Prober!Check, report \in Prober!Reports, answered \in BOOLEAN :
          \/ Prober!SettleShared(k, report, answered)
          \/ \E p \in Probe : Prober!SettleOwn(p, k, report, answered)
     \/ \E k \in Prober!Check : Prober!IntervalEnds(k)

ProbedNext == (Next /\ Monitored) \/ Listens

ProbedSpec == ProbedInit /\ [][ProbedNext]_<<vars, probingVars>>

-----------------------------------------------------------------------------

\* Over the kernel the listener is the Probes that assumed no more of it than Lifecycle.
ImplementsProbes == Prober!Spec

SaysReady(p) ==
  probe'[p].asks = "readyz" /\ probe'[p].answer = "ok" /\ probe[p].answer = "none"

\* An orchestrator is told "ready" only while the runtime serves: not after a crash, however
\* long ago it asked, nor once the build was abandoned, the drain began or `exited` settled.
ReadyMeansServing ==
  [][\A p \in Probe : SaysReady(p) =>
       /\ ~crashed /\ abandonedBuild = "none"
       /\ main = "serving" /\ runtime = "up" /\ drain.by = "none"
       /\ exited.kind = "pending"]_<<vars, probingVars>>
=============================================================================
