------------------------------ MODULE Lifecycle ------------------------------
(***************************************************************************)
(* What an application's lifecycle promises whoever boots it: an           *)
(* orchestrator reading the probes, runMain waiting for `exited`.  It says *)
(* nothing of signals, deadlines, units or finalisers; Kernel implements   *)
(* it.                                                                     *)
(*                                                                         *)
(* The phase only moves along the documented edges; the application is     *)
(* ready for one unbroken interval inside `serving`; `exited` settles once, *)
(* in the step that makes the phase `exited`; and a lifecycle that drained *)
(* did so between serving and stopping.                                    *)
(***************************************************************************)

VARIABLES
  phase,     \* RunningApp.phase()
  ready,     \* RunningApp.ready()
  outcome    \* RunningApp.exited: "pending", "report" or "failed"

lifecycleVars == <<phase, ready, outcome>>

Init ==
  /\ phase = "building"
  /\ ready = FALSE
  /\ outcome = "pending"

\* The graph is built, and the runtime is asked to start.
Start ==
  /\ phase = "building"
  /\ phase' = "starting"
  /\ UNCHANGED <<ready, outcome>>

\* The runtime serves: the only step that makes the application ready.
Serve ==
  /\ phase = "starting"
  /\ phase' = "serving"
  /\ ready' = TRUE
  /\ UNCHANGED outcome

\* A crash takes readiness away before the phase moves.
LoseReadiness ==
  /\ ready
  /\ ready' = FALSE
  /\ UNCHANGED <<phase, outcome>>

\* Only a serving application drains.
Drain ==
  /\ phase = "serving"
  /\ phase' = "draining"
  /\ ready' = FALSE
  /\ UNCHANGED outcome

Stop ==
  /\ phase \in {"building", "starting", "serving", "draining"}
  /\ phase' = "stopping"
  /\ ready' = FALSE
  /\ UNCHANGED outcome

\* The lifecycle ends with an outcome: after stopping, or from a build nobody waits for any
\* more, or whose probes could not be bound.  A served application never ends from here.
Exit ==
  /\ phase \in {"building", "starting", "stopping"}
  /\ phase' = "exited"
  /\ outcome = "pending"
  /\ outcome' \in {"report", "failed"}
  /\ ready' = FALSE

Next == Start \/ Serve \/ LoseReadiness \/ Drain \/ Stop \/ Exit

Spec == Init /\ [][Next]_lifecycleVars

=============================================================================
