-------------------------------- MODULE DiPlan --------------------------------
(***************************************************************************)
(* The plan of a module tree (packages/di/src/build.ts): overrides take    *)
(* their base's place, wiring bugs are refused before any factory runs,    *)
(* and what is left is grouped into levels that may construct together.    *)
(*                                                                         *)
(* A provider is its index in declaration order, as flatten lists the      *)
(* tree.  A wiring says which port each one answers, which ports it needs, *)
(* which are overrides, which ports are sets, and which the seed carries.  *)
(***************************************************************************)
EXTENDS Naturals, FiniteSets, Sequences

CONSTANTS
  Provider,     \* the providers of a tree
  Port,
  ScopePort,    \* the port nothing may provide
  Wirings       \* the trees considered

Wiring ==
  [port : [Provider -> Port], deps : [Provider -> SUBSET Port],
   overrides : SUBSET Provider, many : SUBSET Port, seed : SUBSET Port]

ASSUME PlanAssumption ==
  /\ Provider \subseteq Nat /\ IsFiniteSet(Provider) /\ ScopePort \in Port
  /\ Wirings \subseteq Wiring

VARIABLES
  wiring,
  levels,       \* the levels planned so far
  plan          \* "running", "done" or "refused"

planVars == <<wiring, levels, plan>>

PortOf(p) == wiring.port[p]
Overrides == wiring.overrides

-----------------------------------------------------------------------------
(* Overrides.                                                               *)

Bases(port) == {p \in Provider \ Overrides : PortOf(p) = port}

\* The base an override stands in for: the first its port has.
IsBaseOf(b, o) == b \in Bases(PortOf(o)) /\ \A c \in Bases(PortOf(o)) : b <= c

\* What is built: every override, and every base that none stands in for.
Resolved == {p \in Provider : p \in Overrides \/ \A o \in Overrides : ~IsBaseOf(p, o)}

\* Where a provider stands in declaration order.
StandsAt(p, n) == IF p \in Overrides THEN IsBaseOf(n, p) ELSE n = p

Before(p, q) == \E m, n \in Provider : StandsAt(p, m) /\ StandsAt(q, n) /\ m < n

-----------------------------------------------------------------------------
(* Wiring bugs.                                                             *)

OverrideBug ==
  \E o \in Overrides :
    \/ Bases(PortOf(o)) = {}
    \/ \E other \in Overrides \ {o} : PortOf(other) = PortOf(o)

Provided == {PortOf(p) : p \in Resolved}

ProviderBug ==
  \/ ScopePort \in Provided
  \/ \E p, q \in Resolved : p # q /\ PortOf(p) = PortOf(q) /\ PortOf(p) \notin wiring.many

NothingProvides == \E p \in Resolved : ~(wiring.deps[p] \subseteq Provided \cup wiring.seed)

Refused == OverrideBug \/ ProviderBug \/ NothingProvides

-----------------------------------------------------------------------------
(* Levels.                                                                  *)

Placed == UNION {levels[k] : k \in DOMAIN levels}
Remaining == Resolved \ Placed

\* Wrong: a set port counts as there once its first member is placed.
SatisfiedByFirstMember(port) ==
  port \in Provided => \E p \in Placed : PortOf(p) = port

\* Every provider of the port has been placed; what nothing here provides, the seed carries.
IsSatisfied(port) == \A p \in Resolved : PortOf(p) = port => p \in Placed

Ready == {p \in Remaining : \A port \in wiring.deps[p] : IsSatisfied(port)}

PlanInit == wiring \in Wirings /\ levels = <<>> /\ plan = "running"

\* A wiring bug: nothing is levelled.
PlanRefuses ==
  /\ plan = "running" /\ levels = <<>> /\ Refused
  /\ plan' = "refused"
  /\ UNCHANGED <<wiring, levels>>

\* One round of the levelling loop; a round with nothing ready has found a cycle.
PlanLevel ==
  /\ plan = "running" /\ ~Refused /\ Remaining # {}
  /\ IF Ready = {} THEN plan' = "refused" /\ UNCHANGED levels
                   ELSE levels' = Append(levels, Ready) /\ UNCHANGED plan
  /\ UNCHANGED wiring

PlanEnds ==
  /\ plan = "running" /\ ~Refused /\ Remaining = {}
  /\ plan' = "done"
  /\ UNCHANGED <<wiring, levels>>

-----------------------------------------------------------------------------

\* The providers whose services p is built from.
Needs(p) == {q \in Resolved : PortOf(q) \in wiring.deps[p]}

\* A set of providers each of which needs another of the set: none can be first.
Knotted(S) == S # {} /\ \A p \in S : Needs(p) \cap S # {}

\* The plan is refused exactly when the tree cannot be built in any order, and otherwise
\* levels every provider once, after what it needs and no later than that.
PlanIsExact ==
  /\ plan = "refused" <=> plan # "running" /\ (Refused \/ \E S \in SUBSET Resolved : Knotted(S))
  /\ plan = "done" => Placed = Resolved
  /\ \A k \in DOMAIN levels : \A p \in levels[k] :
       /\ \A j \in DOMAIN levels : p \in levels[j] => j = k
       /\ \A q \in Needs(p) : \E j \in 1..(k - 1) : q \in levels[j]
       /\ k > 1 => Needs(p) \cap levels[k - 1] # {}
=============================================================================
