----------------------------- MODULE UnitRegistry -----------------------------
(***************************************************************************)
(* The kernel's registry of units of work (packages/core/src/units.ts).    *)
(*                                                                         *)
(* A unit is one request, message or activity.  The registry owns one      *)
(* AbortController per open unit, a monotonic count of the units that      *)
(* closed, and the waiters of awaitIdle.  The module states the registry's *)
(* operations over its own variables; Kernel composes them with the        *)
(* lifecycle that calls them.                                              *)
(***************************************************************************)
EXTENDS Naturals, FiniteSets

CONSTANT Unit   \* the units a run may ever open (a bound on their number)

ASSUME UnitAssumption == IsFiniteSet(Unit)

VARIABLES
  open,         \* units in flight: units.ts `open`
  seen,         \* units ever opened, so that one is opened at most once
  closedCount,  \* units.ts `closedCount`
  aborted,      \* units whose signal has been aborted
  idle          \* awaitIdle: not asked, waiting, or resolved

registryVars == <<open, seen, closedCount, aborted, idle>>

IdleStates == {"unasked", "waiting", "resolved"}

RegistryTypeOK ==
  /\ open \subseteq seen
  /\ seen \subseteq Unit
  /\ closedCount \in Nat
  /\ aborted \subseteq seen
  /\ idle \in IdleStates

RegistryInit ==
  /\ open = {}
  /\ seen = {}
  /\ closedCount = 0
  /\ aborted = {}
  /\ idle = "unasked"

InFlight == Cardinality(open)

-----------------------------------------------------------------------------

\* run, up to the call of `work`: the unit is in flight before its work starts.
OpenUnit(u) ==
  /\ u \in Unit \ seen
  /\ open' = open \cup {u}
  /\ seen' = seen \cup {u}
  /\ UNCHANGED <<closedCount, aborted, idle>>

\* Wrong: only work that answered is counted as closed.
CloseUnitUncounted(u) ==
  /\ u \in open
  /\ open' = open \ {u}
  /\ aborted' = aborted \cup {u}
  /\ idle' = IF open' = {} /\ idle = "waiting" THEN "resolved" ELSE idle
  /\ UNCHANGED <<seen, closedCount>>

\* Wrong: one controller for all units, aborted as any of them settles.
CloseUnitAbortingAll(u) ==
  /\ u \in open
  /\ open' = open \ {u}
  /\ closedCount' = closedCount + 1
  /\ aborted' = aborted \cup open
  /\ idle' = IF open' = {} /\ idle = "waiting" THEN "resolved" ELSE idle
  /\ UNCHANGED seen

\* run's `finally`: Ok, Err and a throw all close the unit here, once; its own
\* signal is aborted and the idle waiters are released by the last one out.
CloseUnit(u) ==
  /\ u \in open
  /\ open' = open \ {u}
  /\ closedCount' = closedCount + 1
  /\ aborted' = aborted \cup {u}
  /\ idle' = IF open' = {} /\ idle = "waiting" THEN "resolved" ELSE idle
  /\ UNCHANGED seen

\* Wrong: the registry aborts once in its life.
AbortAllOnce ==
  /\ aborted' = IF aborted = {} THEN open ELSE aborted
  /\ UNCHANGED <<open, seen, closedCount, idle>>

\* abortAll: every unit open at this instant is signalled; none is closed.
AbortAll ==
  /\ aborted' = aborted \cup open
  /\ UNCHANGED <<open, seen, closedCount, idle>>

\* Wrong: idle at once, whatever is still open.
AwaitIdleAtOnce ==
  /\ idle' = "resolved"
  /\ UNCHANGED <<open, seen, closedCount, aborted>>

\* awaitIdle answers about the registry at the instant it is called.
AwaitIdle ==
  /\ idle' = IF open = {} THEN "resolved" ELSE "waiting"
  /\ UNCHANGED <<open, seen, closedCount, aborted>>
=============================================================================
