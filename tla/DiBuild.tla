------------------------------- MODULE DiBuild -------------------------------
(***************************************************************************)
(* Building and closing a scope (packages/di/src/build.ts runScoped,       *)
(* lifecycle.ts, scope.ts): levels construct one after the other, the      *)
(* providers of a level together; then the onStart hooks run one by one,   *)
(* then the caller's `use`; and whatever happened, every finaliser that    *)
(* was registered runs, last registered first.                             *)
(*                                                                         *)
(* Factories, hooks, `use` and finalisers are the application's: each may  *)
(* succeed, fail, throw, or never answer.                                  *)
(***************************************************************************)
EXTENDS DiPlan, SequencesExt

CONSTANTS
  Releasing,    \* the providers with a release
  Stopping,     \* with an onStop
  Starting      \* with an onStart

ASSUME HooksAssumption ==
  /\ Releasing \subseteq Provider /\ Stopping \subseteq Provider /\ Starting \subseteq Provider

VARIABLES
  stage,        \* where runScoped is
  level,        \* the level under construction
  service,      \* how each factory has answered
  hooked,       \* the providers whose onStart has run
  finalisers,   \* what the scope will run
  ended,        \* what it has run
  outcome       \* what runScoped will answer

buildVars == <<stage, level, service, hooked, finalisers, ended, outcome>>
vars == <<planVars, buildVars>>

Answers == {"ok", "err", "defect"}
Finalisers == Provider \X {"release", "onStop"}

TypeOK ==
  /\ wiring \in Wirings /\ levels \in Seq(SUBSET Provider) /\ plan \in {"running", "done", "refused"}
  /\ stage \in {"planning", "constructing", "hooks", "using", "closing", "closed"}
  /\ level \in Nat
  /\ service \in [Provider -> {"none", "constructing"} \cup Answers]
  /\ hooked \subseteq Provider
  /\ finalisers \in Seq(Finalisers) /\ ended \subseteq Finalisers
  /\ outcome \in {"none"} \cup Answers

Init ==
  /\ PlanInit
  /\ stage = "planning" /\ level = 0
  /\ service = [p \in Provider |-> "none"] /\ hooked = {}
  /\ finalisers = <<>> /\ ended = {} /\ outcome = "none"

Acquired == {p \in Provider : service[p] = "ok"}

-----------------------------------------------------------------------------

Planning ==
  /\ stage = "planning"
  /\ PlanRefuses \/ PlanLevel \/ PlanEnds
  /\ UNCHANGED buildVars

\* Every factory of a level is called in the same synchronous pass.
Construct(k) ==
  /\ level' = k
  /\ service' = [p \in Provider |-> IF p \in levels[k] THEN "constructing" ELSE service[p]]

\* The plan is a value: construction starts, or the wiring defect closes the scope.
Planned ==
  /\ stage = "planning" /\ plan # "running"
  /\ CASE plan = "refused" -> /\ stage' = "closing" /\ outcome' = "defect"
                              /\ UNCHANGED <<level, service>>
       [] plan = "done" /\ levels = <<>> -> stage' = "hooks" /\ UNCHANGED <<level, service, outcome>>
       [] OTHER -> stage' = "constructing" /\ Construct(1) /\ UNCHANGED outcome
  /\ UNCHANGED <<planVars, hooked, finalisers, ended>>

\* What a provider that has just been acquired registers.
FinalisersOf(p) ==
  (IF p \in Releasing THEN <<<<p, "release">>>> ELSE <<>>)
    \o (IF p \in Stopping THEN <<<<p, "onStop">>>> ELSE <<>>)

\* A factory answers; its finalisers are on the scope from that moment.
Settle(p, how) ==
  /\ service[p] = "constructing"
  /\ service' = [service EXCEPT ![p] = how]
  /\ finalisers' = IF how = "ok" THEN finalisers \o FinalisersOf(p) ELSE finalisers
  /\ UNCHANGED <<planVars, stage, level, hooked, ended, outcome>>

\* Wrong: the first failure of a level is its answer.
LevelSettledAtFailure ==
  \/ \A p \in levels[level] : service[p] # "constructing"
  \/ \E p \in levels[level] : service[p] \in {"err", "defect"}

\* allAsync has its answer once every factory of the level has one.
LevelSettled == \A p \in levels[level] : service[p] # "constructing"

LevelEnds ==
  /\ stage = "constructing" /\ LevelSettled
  /\ IF levels[level] \subseteq Acquired
     THEN IF level = Len(levels)
          THEN stage' = "hooks" /\ UNCHANGED <<level, service, outcome>>
          ELSE Construct(level + 1) /\ UNCHANGED <<stage, outcome>>
     ELSE /\ stage' = "closing"
          /\ outcome' = IF \E p \in levels[level] : service[p] = "defect" THEN "defect" ELSE "err"
          /\ UNCHANGED <<level, service>>
  /\ UNCHANGED <<planVars, hooked, finalisers, ended>>

\* Wrong: hooks in declaration order, whatever the levels.
HookComesBeforeDeclared(p, q) == Before(p, q)

\* Hooks run level by level, in declaration order within one.
HookComesBefore(p, q) ==
  \E j, k \in DOMAIN levels :
    p \in levels[j] /\ q \in levels[k] /\ (j < k \/ (j = k /\ Before(p, q)))

\* The next onStart runs; one that throws or rejects skips the rest.
Hook(p, how) ==
  /\ stage = "hooks" /\ p \in (Starting \cap Placed) \ hooked
  /\ \A q \in (Starting \cap Placed) \ (hooked \cup {p}) : HookComesBefore(p, q)
  /\ hooked' = hooked \cup {p}
  /\ IF how = "ok" THEN UNCHANGED <<stage, outcome>> ELSE stage' = "closing" /\ outcome' = "defect"
  /\ UNCHANGED <<planVars, level, service, finalisers, ended>>

\* The graph is built: the caller gets the context.
HooksEnd ==
  /\ stage = "hooks" /\ Starting \cap Placed \subseteq hooked
  /\ stage' = "using"
  /\ UNCHANGED <<planVars, level, service, hooked, finalisers, ended, outcome>>

Used(how) ==
  /\ stage = "using"
  /\ stage' = "closing" /\ outcome' = how
  /\ UNCHANGED <<planVars, level, service, hooked, finalisers, ended>>

\* Wrong: finalisers run in the order they were registered.
FinaliseFirst ==
  /\ stage = "closing" /\ finalisers # <<>>
  /\ ended' = ended \cup {Head(finalisers)} /\ finalisers' = Tail(finalisers)
  /\ UNCHANGED <<planVars, stage, level, service, hooked, outcome>>

\* The finaliser registered last runs.  One that throws is reported, and the next still runs.
Finalise ==
  /\ stage = "closing" /\ finalisers # <<>>
  /\ ended' = ended \cup {Last(finalisers)} /\ finalisers' = Front(finalisers)
  /\ UNCHANGED <<planVars, stage, level, service, hooked, outcome>>

Closed ==
  /\ stage = "closing" /\ finalisers = <<>>
  /\ stage' = "closed"
  /\ UNCHANGED <<planVars, level, service, hooked, finalisers, ended, outcome>>

Next ==
  \/ Planning
  \/ Planned
  \/ \E p \in Provider, how \in Answers : Settle(p, how)
  \/ LevelEnds
  \/ \E p \in Provider, how \in {"ok", "defect"} : Hook(p, how)
  \/ HooksEnd
  \/ \E how \in Answers : Used(how)
  \/ Finalise
  \/ Closed

Spec == Init /\ [][Next]_vars

-----------------------------------------------------------------------------

\* Nothing is left behind: once the scope is closed, every resource that was acquired has been
\* released and stopped, and no factory is still running that could acquire another, whichever
\* sibling, hook, use or finaliser failed.
NothingLeaks ==
  stage = "closed" =>
    /\ \A p \in Provider : service[p] # "constructing"
    /\ ended = (Acquired \cap Releasing) \X {"release"} \cup (Acquired \cap Stopping) \X {"onStop"}

\* A resource outlives everything that was built from it, and stops before its own release.
TornDownInOrder ==
  \A f \in ended :
    LET after == {<<f[1], "onStop">>} \cup
                   UNION {{<<p, "release">>, <<p, "onStop">>} : p \in {q \in Acquired : f[1] \in Needs(q)}}
    IN  f[2] = "release" => after \cap ToSet(finalisers) = {}

\* A factory runs once everything it is built from is there, every member of a set included,
\* and an onStart after the onStart of everything its service was built from.
BuiltInOrder ==
  \A p \in Provider :
    /\ service[p] # "none" => Needs(p) \subseteq Acquired
    /\ p \in hooked => Needs(p) \cap Starting \subseteq hooked

\* A scope is built in order and taken down in the reverse one, to the last resource.
ScopesComeAndGoInOrder == NothingLeaks /\ BuiltInOrder /\ TornDownInOrder
=============================================================================
