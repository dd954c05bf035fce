------------------------------- MODULE UnitFork -------------------------------
(***************************************************************************)
(* A unit of work and the dependency scope it forks (the `run` that        *)
(* packages/core/src/start.ts gives a runtime), over the registry that     *)
(* counts it.                                                              *)
(*                                                                         *)
(* Work asks for its scope at most once.  The scope is built beside the    *)
(* work, held open until the work has returned, and torn down before the   *)
(* registry is told that the unit is over.  Constructors and finalisers    *)
(* are user code: they may fail, and need never end.                       *)
(***************************************************************************)
EXTENDS UnitRegistry

VARIABLES
  work,      \* the unit's work: not begun, running, or returned
  settled,   \* how it returned, as its teardown may read it: unitOutcome()
  forked,    \* the scope: none, building, open, closing, unwinding a failed build, closed
  forker,    \* who asked for the scope: waiting for its context, given it, or refused
  told       \* what the teardown of an open scope read of the work's outcome

forkVars == <<registryVars, work, settled, forked, forker, told>>

ScopeStates == {"none", "building", "open", "closing", "unwinding", "closed"}

Init ==
  /\ RegistryInit
  /\ work = [u \in Unit |-> "none"]
  /\ settled = [u \in Unit |-> "none"]
  /\ forked = [u \in Unit |-> "none"]
  /\ forker = [u \in Unit |-> "none"]
  /\ told = [u \in Unit |-> "none"]

-----------------------------------------------------------------------------

Run(u) ==
  /\ OpenUnit(u)
  /\ work' = [work EXCEPT ![u] = "running"]
  /\ UNCHANGED <<settled, forked, forker, told>>

\* Wrong: a scope may be forked by what is left running of work that has returned.
ForkUnsupervised(u) ==
  /\ work[u] # "none"
  /\ forked[u] = "none"
  /\ forked' = [forked EXCEPT ![u] = "building"]
  /\ forker' = [forker EXCEPT ![u] = "waiting"]
  /\ UNCHANGED <<registryVars, work, settled, told>>

\* fork: its scope begins to be built.  A second fork, one after the work has returned and one
\* of a module that rebuilds a port of the application are refused and leave nothing behind.
Fork(u) ==
  /\ work[u] = "running"
  /\ forked[u] = "none"
  /\ forked' = [forked EXCEPT ![u] = "building"]
  /\ forker' = [forker EXCEPT ![u] = "waiting"]
  /\ UNCHANGED <<registryVars, work, settled, told>>

\* `use` is called with the context, which goes to the forker.
Built(u) ==
  /\ forked[u] = "building"
  /\ forked' = [forked EXCEPT ![u] = "open"]
  /\ forker' = [forker EXCEPT ![u] = "given"]
  /\ UNCHANGED <<registryVars, work, settled, told>>

\* A constructor fails: what was built is closed before anybody hears of it.
BuildFails(u) ==
  /\ forked[u] = "building"
  /\ forked' = [forked EXCEPT ![u] = "unwinding"]
  /\ UNCHANGED <<registryVars, work, settled, forker, told>>

\* Wrong: the failure is recovered and the forker forgotten.
UnwoundSilently(u) ==
  /\ forked[u] = "unwinding"
  /\ forked' = [forked EXCEPT ![u] = "closed"]
  /\ UNCHANGED <<registryVars, work, settled, forker, told>>

\* Its finalisers are over: the forker is released onto the failure.
Unwound(u) ==
  /\ forked[u] = "unwinding"
  /\ forked' = [forked EXCEPT ![u] = "closed"]
  /\ forker' = [forker EXCEPT ![u] = "refused"]
  /\ UNCHANGED <<registryVars, work, settled, told>>

\* The work answers, fails or throws, whether or not it has waited for its scope.
Return(u, outcome) ==
  /\ work[u] = "running"
  /\ work' = [work EXCEPT ![u] = "returned"]
  /\ settled' = [settled EXCEPT ![u] = outcome]
  /\ UNCHANGED <<registryVars, forked, forker, told>>

\* `settled` lets `use` return: the scope's finalisers run, and may read the outcome.
TearDown(u) ==
  /\ forked[u] = "open" /\ work[u] = "returned"
  /\ forked' = [forked EXCEPT ![u] = "closing"]
  /\ told' = [told EXCEPT ![u] = settled[u]]
  /\ UNCHANGED <<registryVars, work, settled, forker>>

TornDown(u) ==
  /\ forked[u] = "closing"
  /\ forked' = [forked EXCEPT ![u] = "closed"]
  /\ UNCHANGED <<registryVars, work, settled, forker, told>>

\* Wrong: the unit is over with its work; its scope closes behind it.
CloseAtReturn(u) ==
  /\ work[u] = "returned"
  /\ CloseUnit(u)
  /\ UNCHANGED <<work, settled, forked, forker, told>>

\* The unit is over: its work has returned and its scope, if it has one, is closed.
Close(u) ==
  /\ work[u] = "returned" /\ forked[u] \in {"none", "closed"}
  /\ CloseUnit(u)
  /\ UNCHANGED <<work, settled, forked, forker, told>>

\* The drain waits for the units and, at its deadline, signals those still open.
Drain == idle = "unasked" /\ AwaitIdle /\ UNCHANGED <<work, settled, forked, forker, told>>

Deadline == idle = "waiting" /\ AbortAll /\ UNCHANGED <<work, settled, forked, forker, told>>

-----------------------------------------------------------------------------

Next ==
  \/ \E u \in Unit :
       \/ Run(u) /\ idle = "unasked"   \* a draining runtime takes no more units
       \/ Fork(u) \/ Built(u) \/ BuildFails(u) \/ Unwound(u)
       \/ \E outcome \in {"ok", "error"} : Return(u, outcome)
       \/ TearDown(u) \/ TornDown(u) \/ Close(u)
  \/ Drain \/ Deadline

Spec == Init /\ [][Next]_forkVars

-----------------------------------------------------------------------------
(* Properties.                                                              *)

TypeOK ==
  /\ RegistryTypeOK
  /\ work \in [Unit -> {"none", "running", "returned"}]
  /\ settled \in [Unit -> {"none", "ok", "error"}]
  /\ forked \in [Unit -> ScopeStates]
  /\ forker \in [Unit -> {"none", "waiting", "given", "refused"}]
  /\ told \in [Unit -> {"none", "ok", "error"}]

\* A unit is counted in flight for as long as any of its scope is: a drain that finds the
\* registry idle has no scope of a unit left to wait for, whoever asked for it and when.
UnitsOutliveTheirScopes ==
  /\ \A u \in Unit : forked[u] \notin {"none", "closed"} => u \in open
  /\ idle = "resolved" => \A u \in Unit : forked[u] \in {"none", "closed"}

\* Whoever asked for a scope is answered before the unit is over: with the context, or with
\* the failure of its build; and a scope it was given is torn down knowing how the work ended.
ForkersAnswered ==
  \A u \in Unit :
    /\ u \in seen \ open => forker[u] # "waiting"
    /\ forker[u] = "given" /\ forked[u] \in {"closing", "closed"} =>
         told[u] # "none" /\ told[u] = settled[u]

\* A unit, its scope and whoever asked for the scope end in order.
UnitsEndInOrder == UnitsOutliveTheirScopes /\ ForkersAnswered

=============================================================================
