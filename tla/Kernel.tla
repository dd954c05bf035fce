-------------------------------- MODULE Kernel --------------------------------
(***************************************************************************)
(* The lifecycle of one application (packages/core/src/start.ts and the    *)
(* files it composes: phase.ts, process-handlers.ts, drain.ts, run-main.ts *)
(* over the registry of units.ts).                                         *)
(*                                                                         *)
(* `main` is the control point of the chain start() builds: probes bind,   *)
(* the graph is built, the runtime starts, serves, drains and stops, the   *)
(* scope closes.  Beside it run the process handlers (signals, crash), the *)
(* runtime and its units, and the two arms that may settle `exited` first: *)
(* the stop deadline and the abandoned build.                              *)
(*                                                                         *)
(* An action is one turn of the event loop: a callback, or the settlement  *)
(* of an awaited promise, with the synchronous code and the promise        *)
(* continuations it runs until something has to be awaited again.  Timers  *)
(* may fire at any time, and code that is not the kernel's (constructors,  *)
(* the runtime, units, finalisers) may take for ever.                      *)
(***************************************************************************)
EXTENDS UnitRegistry, Integers, Sequences

CONSTANT MaxFinalisers   \* the most finalisers a graph registers

ASSUME FinaliserAssumption == MaxFinalisers \in Nat

VARIABLES
  \* the phase tracker and what hangs off it
  phase, handlers, forcedUnready, published, startupFailing, events,
  \* what has been requested of the lifecycle, and by whom
  signals, crashed, reason, unexpected, skipDrain, stopCut, abandonedBuild,
  \* the chain of Module.scoped: control, what it will settle with, its scope
  main, result, acquired, teardownErrors, lifecycleSettled,
  \* the runtime: its own state, its drain() call, its stopped() hook
  runtime, drainCall, stoppedHook, drain,
  \* the deferred that arms the stop deadline, and that arm
  stopping, stopArm,
  \* what `exited` settled with, the exit code, and units opened too late
  exited, exitCode, openedLate

trackerVars == <<phase, handlers, forcedUnready, published, startupFailing, events>>
requestVars == <<signals, crashed, reason, unexpected, skipDrain, stopCut, abandonedBuild>>
finaliserVars == <<acquired, teardownErrors, lifecycleSettled>>
scopeVars   == <<main, result, finaliserVars>>
callVars    == <<drainCall, stoppedHook, drain>>
runtimeVars == <<runtime, callVars>>
stopVars    == <<stopping, stopArm>>
exitVars    == <<exited, exitCode>>

vars == <<registryVars, trackerVars, requestVars, scopeVars, runtimeVars,
          stopVars, exitVars, openedLate>>

-----------------------------------------------------------------------------

Phases == {"building", "starting", "serving", "draining", "stopping", "exited"}
Reasons == {"signal", "runtimeStopped", "uncaught"}

\* How a startup or a stop fails: a ConfigInvalid, another modelled Err, a defect.
Failures == {"config", "err", "defect"}

EventTypes == {"building", "startFailed", "serving", "draining", "drained", "stopping",
               "stoppedWaiting", "teardownError", "uncaught", "exited"}

Controls == {"binding", "building", "starting", "serving", "preDrain", "draining",
             "stopping", "closing", "settled"}

Rank(p) == CASE p = "building" -> 0 [] p = "starting" -> 1 [] p = "serving" -> 2
             [] p = "draining" -> 3 [] p = "stopping" -> 4 [] p = "exited" -> 5

\* Wrong: a tracker that takes any phase it is given.
AdvancedAnywhere(p) == p

\* advanceTo: the tracker is monotone, a step back is refused.
Advanced(p) == IF Rank(p) <= Rank(phase) THEN phase ELSE p

\* The events the tracker emits as it passes p; `starting` and `draining` have none there.
Passing(p) == IF Rank(p) > Rank(phase) THEN <<p>> ELSE <<>>

\* Wrong: no latch, so what settles after the report is still said.
EmittedUnlatched(es) == events \o es

\* The `exitedEmitted` latch.  `exited` is emitted by the step that makes the phase
\* `exited`, so the latch is set exactly when the phase is.
Emitted(es) == IF phase = "exited" THEN events ELSE events \o es

NoDrain == [by |-> "none", inFlightAtStart |-> 0, closedAtStart |-> 0,
            completed |-> 0, abandoned |-> 0]

DrainRecords == [by : {"none", "idle", "deadline"}, inFlightAtStart : Nat,
                 closedAtStart : Nat, completed : Int, abandoned : Nat]

Pending == [kind |-> "pending"]
Failed(f) == [kind |-> "failed", cause |-> f]
Reports == [kind : {"report"}, reason : Reasons, drained : BOOLEAN,
            abandonedAt : {"none", "build", "stop"}, unexpected : BOOLEAN]
Outcomes == {Pending} \cup {Failed(f) : f \in Failures} \cup Reports

\* Wrong: a crash after the reason was decided leaves it.
ReportKeepingReason(r, drained, at) ==
  [kind |-> "report", reason |-> r, drained |-> drained, abandonedAt |-> at,
   unexpected |-> unexpected]

\* reportOf: a crash outranks the reason that was decided before it.
ReportOf(r, drained, at) ==
  [kind |-> "report", reason |-> IF crashed THEN "uncaught" ELSE r,
   drained |-> drained, abandonedAt |-> at, unexpected |-> unexpected]

\* Wrong: a stop that outlived its deadline counts as clean.
CodeForgettingAbandonedStop(o) ==
  IF o.kind = "failed"
  THEN CASE o.cause = "config" -> 78 [] o.cause = "err" -> 1 [] o.cause = "defect" -> 70
  ELSE IF o.reason = "uncaught" THEN 70
  ELSE IF (o.drained /\ drain.abandoned > 0) \/ teardownErrors > 0 THEN 2
  ELSE IF o.unexpected THEN 1 ELSE 0

\* codeFor and awaitExit, read as `exited` settles.
CodeFor(o) ==
  IF o.kind = "failed"
  THEN CASE o.cause = "config" -> 78 [] o.cause = "err" -> 1 [] o.cause = "defect" -> 70
  ELSE IF o.reason = "uncaught" THEN 70
  ELSE IF \/ o.drained /\ drain.abandoned > 0
          \/ teardownErrors > 0
          \/ o.abandonedAt # "none"
       THEN 2
  ELSE IF o.unexpected THEN 1 ELSE 0

\* One arm of the race settles `exited`; the outcome of the others is dropped.
Exit(o) ==
  IF exited.kind = "pending"
  THEN exited' = o /\ exitCode' = CodeFor(o)
  ELSE UNCHANGED exitVars

\* Wrong: the abandoned stop reports like a stop that ended.
AnswerWithoutPhase(held, at) ==
  CASE held \in Failures -> Failed(held)
    [] held = "stopped" -> ReportOf(reason, reason = "signal", "none")
    [] held = "abandoned" -> ReportOf(abandonedBuild, FALSE, "none")

\* What the chain or the stop deadline answers, given what it holds.
Answer(held, at) ==
  CASE held \in Failures -> Failed(held)
    [] held = "stopped" -> ReportOf(reason, reason = "signal", at)
    [] held = "abandoned" -> ReportOf(abandonedBuild, FALSE, at)

\* requestShutdown: the first reason stays.
RequestShutdown(r) == reason' = IF reason = "none" THEN r ELSE reason

ShutdownRequested == reason # "none"

\* Wrong: only a failure arms the stop deadline, or only a stop does.
ArmStopForFailures(held) == stopping' = IF held \in Failures THEN held ELSE stopping
ArmStopAfterServing(held) == stopping' = IF held = "stopped" THEN held ELSE stopping

\* stopping.resolve, idempotent: what `exited` says if the stop is given up on.
ArmStop(held) == stopping' = IF stopping = "none" THEN held ELSE stopping

\* Wrong: a startup that fails leaves runtimeInfo() waiting.
LeavePublishedPending == UNCHANGED published

\* runtimePublished, settled without info for a runtime that never served.
NeverPublished == published' = IF published = "pending" THEN "nothing" ELSE published

\* disposeAll: the handlers go, and the phase is `exited`.
DisposeAll ==
  /\ handlers' = FALSE
  /\ phase' = Advanced("exited")

Ready == phase = "serving" /\ ~forcedUnready

Accepting == runtime \in {"starting", "up"} /\ drainCall # "done"
-----------------------------------------------------------------------------

Init ==
  /\ RegistryInit
  /\ phase = "building" /\ handlers = TRUE /\ forcedUnready = FALSE
  /\ published = "pending" /\ startupFailing = FALSE /\ events = <<"building">>
  /\ signals = 0 /\ crashed = FALSE /\ reason = "none" /\ unexpected = FALSE
  /\ skipDrain = FALSE /\ stopCut = FALSE /\ abandonedBuild = "none"
  /\ main = "binding" /\ result = "none" /\ acquired = 0
  /\ teardownErrors = 0 /\ lifecycleSettled = FALSE
  /\ runtime = "none" /\ drainCall = "none" /\ stoppedHook = "none" /\ drain = NoDrain
  /\ stopping = "none" /\ stopArm = "waiting"
  /\ exited = Pending /\ exitCode = 0 /\ openedLate = {}

-----------------------------------------------------------------------------
(* Abandoning a build: abandonBuild and the arm buildAbandoned.             *)

\* Wrong: a runtime that hangs in start() is not part of the build.
AbandonableWhileBuilding(r) == phase = "building"

Abandonable(r) ==
  phase \in {"building", "starting"} \/ (r = "uncaught" /\ startupFailing)

\* The arm's continuation runs in the turn that resolves its promise, so it is part of
\* that action.  `said` is what the caller emitted before it.
BuildAbandoned(r, said) ==
  /\ events' = Emitted(said \o <<"stoppedWaiting">> \o Passing("stopping") \o Passing("exited"))
  /\ AbortAll
  /\ NeverPublished
  /\ DisposeAll
  /\ Exit(ReportOf(r, FALSE, "build"))

\* While the probes bind the race is not built yet: the reason is kept, and ProbesUp takes it.
AbandonBuild(r, said) ==
  IF Abandonable(r)
  THEN /\ abandonedBuild' = r
       /\ IF main # "binding"
          THEN BuildAbandoned(r, said)
          ELSE /\ events' = Emitted(said)
               /\ UNCHANGED <<registryVars, published, handlers, phase, exitVars>>
  ELSE /\ events' = Emitted(said)
       /\ UNCHANGED <<abandonedBuild, registryVars, published, handlers, phase, exitVars>>

-----------------------------------------------------------------------------
(* The process handlers and the caller.                                     *)

FirstSignal ==
  /\ handlers /\ signals = 0
  /\ signals' = 1
  /\ RequestShutdown("signal")
  /\ UNCHANGED <<crashed, unexpected, skipDrain, stopCut, abandonedBuild, registryVars,
                 trackerVars, scopeVars, runtimeVars, stopVars, exitVars, openedLate>>

\* Later signals do what the second did: a bound of two loses nothing.
SecondSignal ==
  /\ handlers /\ signals = 1
  /\ signals' = 2
  /\ skipDrain' = TRUE
  /\ stopCut' = TRUE
  /\ AbandonBuild("signal", <<>>)
  /\ UNCHANGED <<crashed, reason, unexpected, forcedUnready, startupFailing, scopeVars,
                 runtimeVars, stopVars, openedLate>>

\* Only the first uncaught exception or rejection reaches the lifecycle.
Uncaught ==
  /\ handlers /\ ~crashed
  /\ crashed' = TRUE
  /\ forcedUnready' = TRUE
  /\ skipDrain' = TRUE
  /\ RequestShutdown("uncaught")
  /\ AbandonBuild("uncaught", <<"uncaught">>)
  /\ UNCHANGED <<signals, unexpected, stopCut, startupFailing, scopeVars, runtimeVars,
                 stopVars, openedLate>>

\* RunningApp.stop and RunningApp.requestDrain, callable at any time.
CallerRequests(r) ==
  /\ ~ShutdownRequested
  /\ RequestShutdown(r)
  /\ UNCHANGED <<signals, crashed, unexpected, skipDrain, stopCut, abandonedBuild,
                 registryVars, trackerVars, scopeVars, runtimeVars, stopVars, exitVars,
                 openedLate>>

\* Serving.stopped settles, on either channel, whoever ended the runtime.
RuntimeStopped ==
  /\ stoppedHook = "armed"
  /\ stoppedHook' = "fired"
  /\ unexpected' = (unexpected \/ ~ShutdownRequested)
  /\ RequestShutdown("runtimeStopped")
  /\ UNCHANGED <<signals, crashed, skipDrain, stopCut, abandonedBuild, runtime, drainCall,
                 drain, registryVars, trackerVars, scopeVars, stopVars, exitVars,
                 openedLate>>

-----------------------------------------------------------------------------
(* Starting: probes, graph, runtime.                                        *)

\* probesStarted settles Ok and the race is built: a build abandoned by now ends here.
ProbesUp ==
  /\ main = "binding"
  /\ main' = "building"
  /\ IF abandonedBuild # "none"
     THEN BuildAbandoned(abandonedBuild, <<>>)
     ELSE UNCHANGED <<events, registryVars, published, handlers, phase, exitVars>>
  /\ UNCHANGED <<forcedUnready, startupFailing, requestVars, result, finaliserVars,
                 runtimeVars, stopVars, openedLate>>

\* A kernel variable that does not parse, or a port that does not bind: no graph is built.
ProbesFail(f) ==
  /\ main = "binding"
  /\ main' = "settled"
  /\ result' = f
  /\ events' = Emitted(<<"startFailed">> \o Passing("stopping") \o Passing("exited"))
  /\ NeverPublished
  /\ DisposeAll
  /\ Exit(Failed(f))
  /\ UNCHANGED <<forcedUnready, startupFailing, requestVars, finaliserVars, runtimeVars,
                 stopVars, registryVars, openedLate>>

Acquire ==
  /\ main = "building" /\ acquired < MaxFinalisers
  /\ acquired' = acquired + 1
  /\ UNCHANGED <<main, result, teardownErrors, lifecycleSettled, registryVars, trackerVars,
                 requestVars, runtimeVars, stopVars, exitVars, openedLate>>

\* leaveFailed, then `stopping` takes the failure and the scope starts to close.
LeaveFailed(f, failing) ==
  /\ startupFailing' = failing
  /\ events' = Emitted((IF phase # "stopping" THEN <<"startFailed">> ELSE <<>>) \o Passing("stopping"))
  /\ phase' = Advanced("stopping")
  /\ NeverPublished
  /\ ArmStop(f)
  /\ main' = "closing"
  /\ result' = f
  /\ UNCHANGED <<handlers, forcedUnready>>

\* onConstructionFailure: a construct, a start hook or the plan itself failed.
ConstructionFails(f) ==
  /\ main = "building"
  /\ LeaveFailed(f, TRUE)
  /\ UNCHANGED <<finaliserVars, registryVars, requestVars, runtimeVars, stopArm, exitVars,
                 openedLate>>

\* serve() finds the build already abandoned and never starts the runtime.
ServeAbandoned ==
  /\ main = "building" /\ abandonedBuild # "none"
  /\ main' = "closing"
  /\ result' = "abandoned"
  /\ UNCHANGED <<finaliserVars, registryVars, trackerVars, requestVars, runtimeVars,
                 stopVars, exitVars, openedLate>>

\* serve() resolves the runtime and calls its start().
StartRuntime ==
  /\ main = "building" /\ abandonedBuild = "none"
  /\ phase' = Advanced("starting")
  /\ main' = "starting"
  /\ runtime' = "starting"
  /\ UNCHANGED <<handlers, forcedUnready, published, startupFailing, events, result,
                 finaliserVars, callVars, registryVars, requestVars, stopVars, exitVars,
                 openedLate>>

\* runtime.start answers Err or throws, or a guard of serve() throws before it is called.
RuntimeRefuses(f) ==
  /\ main = "starting"
  /\ LeaveFailed(f, startupFailing \/ phase = "starting")
  /\ runtime' = "stopped"
  /\ UNCHANGED <<finaliserVars, callVars, registryVars, requestVars, stopArm, exitVars,
                 openedLate>>

\* runtime.start answers Ok in time.
RuntimeServes ==
  /\ main = "starting" /\ abandonedBuild = "none"
  /\ events' = Emitted(Passing("serving"))
  /\ phase' = Advanced("serving")
  /\ published' = "info"
  /\ main' = "serving"
  /\ runtime' = "up"
  /\ stoppedHook' = "armed"
  /\ UNCHANGED <<handlers, forcedUnready, startupFailing, result, finaliserVars, drainCall,
                 drain, registryVars, requestVars, stopVars, exitVars, openedLate>>

\* Wrong: the late runtime is left running while its scope closes.
RuntimeUpTooLateUnstopped ==
  /\ main = "starting" /\ abandonedBuild # "none"
  /\ AbortAll
  /\ main' = "closing"
  /\ result' = "abandoned"
  /\ runtime' = "up"
  /\ UNCHANGED <<finaliserVars, callVars, trackerVars, requestVars, stopVars, exitVars,
                 openedLate>>

\* runtime.start answers Ok for a build that has been abandoned: stop it again.
RuntimeUpTooLate ==
  /\ main = "starting" /\ abandonedBuild # "none"
  /\ AbortAll
  /\ main' = "stopping"
  /\ result' = "abandoned"
  /\ runtime' = "stopping"
  /\ UNCHANGED <<finaliserVars, callVars, trackerVars, requestVars, stopVars, exitVars,
                 openedLate>>

-----------------------------------------------------------------------------
(* Ending: finish, the drain, the runtime's stop, the scope's close.        *)

\* What finish() does once there is nothing left to drain: `stopping` arms the deadline in
\* the same turn as the phase, and Serving.stop is called.
EnterStopping ==
  /\ phase' = Advanced("stopping")
  /\ ArmStop("stopped")
  /\ main' = "stopping"
  /\ result' = "stopped"
  /\ runtime' = "stopping"

\* finish() without a drain: in-flight units are aborted at once.
FinishAborting ==
  /\ main = "serving" /\ reason \in Reasons \ {"signal"}
  /\ AbortAll
  /\ EnterStopping
  /\ events' = Emitted(Passing("stopping"))
  /\ UNCHANGED <<handlers, forcedUnready, published, startupFailing, requestVars,
                 finaliserVars, callVars, stopArm, exitVars, openedLate>>

\* runDrain, up to the pre-drain sleep: the counters are sampled before it.
BeginDrain ==
  /\ main = "serving" /\ reason = "signal"
  /\ phase' = Advanced("draining")
  /\ events' = Emitted(<<"draining">>)
  /\ forcedUnready' = TRUE
  /\ drain' = [drain EXCEPT !.inFlightAtStart = InFlight, !.closedAtStart = closedCount]
  /\ main' = "preDrain"
  /\ UNCHANGED <<handlers, published, startupFailing, result, finaliserVars, runtime,
                 drainCall, stoppedHook, registryVars, requestVars, stopVars, exitVars,
                 openedLate>>

\* The pre-drain delay passes, or is skipped: Serving.drain is called.
PreDrainOver ==
  /\ main = "preDrain"
  /\ main' = "draining"
  /\ drainCall' = "pending"
  /\ UNCHANGED <<result, finaliserVars, runtime, stoppedHook, drain, registryVars,
                 trackerVars, requestVars, stopVars, exitVars, openedLate>>

\* Serving.drain settles: the runtime accepts nothing more, and awaitIdle is asked only now.
DrainCallSettles ==
  /\ main = "draining" /\ drainCall = "pending"
  /\ drainCall' = "done"
  /\ AwaitIdle
  /\ UNCHANGED <<runtime, stoppedHook, drain, trackerVars, requestVars, scopeVars, stopVars,
                 exitVars, openedLate>>

\* A unit runs while the drain is decided by one arm of its race: `by` names the arm.
SettleDrain(by) ==
  /\ drain' = [drain EXCEPT !.by = by, !.completed = closedCount - drain.closedAtStart,
                            !.abandoned = InFlight]
  /\ IF InFlight > 0 THEN AbortAll ELSE UNCHANGED registryVars
  /\ EnterStopping
  /\ events' = Emitted(<<"drained">> \o Passing("stopping"))
  /\ UNCHANGED <<handlers, forcedUnready, published, startupFailing, requestVars,
                 finaliserVars, drainCall, stoppedHook, stopArm, exitVars, openedLate>>

\* The registry went idle behind the runtime's own drain.
DrainedIdle ==
  /\ main = "draining" /\ idle = "resolved"
  /\ SettleDrain("idle")

\* The drain timeout passed, or a second signal or a crash skipped what was left of it.
DrainDeadline ==
  /\ main = "draining"
  /\ SettleDrain("deadline")

\* Serving.drain defects: the defect passes finish() by, to the tap around serve().
DrainDefects ==
  /\ main = "draining" /\ drainCall = "pending"
  /\ drainCall' = "defected"
  /\ LeaveFailed("defect", startupFailing \/ phase = "starting")
  /\ UNCHANGED <<finaliserVars, runtime, stoppedHook, drain, registryVars, requestVars,
                 stopArm, exitVars, openedLate>>

\* Serving.stop settles Ok: di closes the scope next.
ServingStopped ==
  /\ main = "stopping"
  /\ runtime' = "stopped"
  /\ main' = "closing"
  /\ UNCHANGED <<result, finaliserVars, callVars, registryVars, trackerVars, requestVars,
                 stopVars, exitVars, openedLate>>

ServingStopDefects ==
  /\ main = "stopping"
  /\ runtime' = "stopped"
  /\ LeaveFailed("defect", startupFailing \/ phase = "starting")
  /\ UNCHANGED <<finaliserVars, callVars, registryVars, requestVars, stopArm, exitVars,
                 openedLate>>

\* One finaliser of the application scope settles; `ok` is FALSE when it throws.
Release(ok) ==
  /\ main = "closing" /\ acquired > 0
  /\ acquired' = acquired - 1
  /\ teardownErrors' = IF ok THEN teardownErrors ELSE teardownErrors + 1
  /\ events' = IF ok THEN events ELSE Emitted(<<"teardownError">>)
  /\ UNCHANGED <<main, result, lifecycleSettled, phase, handlers, forcedUnready, published,
                 startupFailing, registryVars, requestVars, runtimeVars, stopVars, exitVars,
                 openedLate>>

\* Module.scoped settles, and with it the first arm of the race.
ScopeSettles ==
  /\ main = "closing" /\ acquired = 0
  /\ main' = "settled"
  /\ lifecycleSettled' = TRUE
  /\ stopCut' = TRUE
  /\ events' = Emitted((IF result \in Failures /\ phase # "stopping" THEN <<"startFailed">> ELSE <<>>)
                       \o (IF result \in Failures THEN Passing("stopping") ELSE <<>>)
                       \o Passing("exited"))
  /\ published' = IF result \in Failures /\ published = "pending" THEN "nothing" ELSE published
  /\ DisposeAll
  /\ Exit(Answer(result, "none"))
  /\ UNCHANGED <<forcedUnready, startupFailing, signals, crashed, reason, unexpected,
                 skipDrain, abandonedBuild, result, acquired, teardownErrors, registryVars,
                 runtimeVars, stopVars, openedLate>>

\* The arm stopAbandoned: its sleep ends, by the clock or cut short, and the lifecycle has
\* not settled, so the kernel stops waiting.
StopAbandoned ==
  /\ stopArm = "waiting" /\ stopping # "none" /\ ~lifecycleSettled
  /\ stopArm' = "done"
  /\ events' = Emitted(<<"stoppedWaiting">> \o Passing("exited"))
  /\ DisposeAll
  /\ Exit(Answer(stopping, "stop"))
  /\ UNCHANGED <<forcedUnready, published, startupFailing, stopping, scopeVars, runtimeVars,
                 registryVars, requestVars, openedLate>>

\* The same sleep, ended by the lifecycle that settled: the arm withdraws.
StopWithdrawn ==
  /\ stopArm = "waiting" /\ stopping # "none" /\ lifecycleSettled
  /\ stopArm' = "done"
  /\ UNCHANGED <<stopping, registryVars, trackerVars, requestVars, scopeVars, runtimeVars,
                 exitVars, openedLate>>

-----------------------------------------------------------------------------
(* The runtime's units.                                                     *)

\* A runtime submits a unit while it accepts work; a unit in flight may submit another.
RunUnit(u) ==
  /\ Accepting \/ (runtime # "none" /\ open # {})
  /\ OpenUnit(u)
  /\ openedLate' = IF phase \in {"stopping", "exited"} THEN openedLate \cup {u} ELSE openedLate
  /\ UNCHANGED <<trackerVars, requestVars, scopeVars, runtimeVars, stopVars, exitVars>>

SettleUnit(u) ==
  /\ CloseUnit(u)
  /\ UNCHANGED <<trackerVars, requestVars, scopeVars, runtimeVars, stopVars, exitVars,
                 openedLate>>

-----------------------------------------------------------------------------

Requests ==
  \/ FirstSignal
  \/ SecondSignal
  \/ Uncaught
  \/ \E r \in {"signal", "runtimeStopped"} : CallerRequests(r)
  \/ RuntimeStopped

Starting ==
  \/ ProbesUp
  \/ \E f \in {"config", "err"} : ProbesFail(f)
  \/ Acquire
  \/ \E f \in Failures : ConstructionFails(f)
  \/ ServeAbandoned
  \/ StartRuntime
  \/ \E f \in Failures : RuntimeRefuses(f)
  \/ RuntimeServes
  \/ RuntimeUpTooLate

Ending ==
  \/ FinishAborting
  \/ BeginDrain
  \/ PreDrainOver
  \/ DrainCallSettles
  \/ DrainedIdle
  \/ DrainDeadline
  \/ DrainDefects
  \/ ServingStopped
  \/ ServingStopDefects
  \/ \E ok \in BOOLEAN : Release(ok)
  \/ ScopeSettles
  \/ StopAbandoned
  \/ StopWithdrawn

Units == \E u \in Unit : RunUnit(u) \/ SettleUnit(u)

Next == Requests \/ Starting \/ Ending \/ Units

Spec == Init /\ [][Next]_vars

\* The kernel's own continuations and its timers run; the probe listener answers.  Nothing is
\* assumed of constructors, the runtime, its units or the finalisers: each may hang.
Fairness ==
  /\ WF_vars(ProbesUp \/ \E f \in {"config", "err"} : ProbesFail(f))
  /\ WF_vars(FinishAborting \/ BeginDrain)
  /\ WF_vars(PreDrainOver)
  /\ WF_vars(DrainDeadline)
  /\ WF_vars(StopAbandoned)
  /\ WF_vars(ScopeSettles)

FairSpec == Spec /\ Fairness

-----------------------------------------------------------------------------
(* Properties.                                                              *)

\* Every variable of the kernel holds a value of its kind.
TypeOK ==
  /\ RegistryTypeOK
  /\ phase \in Phases /\ handlers \in BOOLEAN /\ forcedUnready \in BOOLEAN
  /\ published \in {"pending", "info", "nothing"} /\ startupFailing \in BOOLEAN
  /\ events \in Seq(EventTypes)
  /\ signals \in 0..2 /\ crashed \in BOOLEAN /\ reason \in Reasons \cup {"none"}
  /\ unexpected \in BOOLEAN /\ skipDrain \in BOOLEAN /\ stopCut \in BOOLEAN
  /\ abandonedBuild \in {"none", "signal", "uncaught"}
  /\ main \in Controls /\ result \in Failures \cup {"none", "stopped", "abandoned"}
  /\ acquired \in 0..MaxFinalisers /\ teardownErrors \in 0..MaxFinalisers
  /\ lifecycleSettled \in BOOLEAN
  /\ runtime \in {"none", "starting", "up", "stopping", "stopped"}
  /\ drainCall \in {"none", "pending", "done", "defected"}
  /\ stoppedHook \in {"none", "armed", "fired"} /\ drain \in DrainRecords
  /\ stopping \in Failures \cup {"none", "stopped"} /\ stopArm \in {"waiting", "done"}
  /\ exited \in Outcomes /\ exitCode \in {0, 1, 2, 70, 78}
  /\ openedLate \subseteq seen

Said(e) == \E i \in 1..Len(events) : events[i] = e
Before(e, f) ==
  \A i, j \in 1..Len(events) : events[i] = e /\ events[j] = f => i < j

\* A process that crashed while it held its handlers exits 70, whatever reason, startup
\* failure or abandoned work is reported beside the crash.  The one exception is a crash
\* while the probe port is being bound and found taken: that exits with the bind failure.
CrashExits70 ==
  crashed /\ exited.kind # "pending" =>
    exitCode = 70 \/ (main = "settled" /\ ~lifecycleSettled)

\* Exit code 0 means that the shutdown was asked for, the runtime was stopped, every
\* finaliser ran without failing, no unit was abandoned and nothing crashed.
CleanExitIsClean ==
  exited.kind # "pending" /\ exitCode = 0 =>
    /\ ~crashed /\ ~unexpected
    /\ runtime = "stopped" /\ acquired = 0 /\ teardownErrors = 0
    /\ drain.abandoned = 0

\* The exit code tells how it went: 70 after a crash, and 0 only after a clean end.
ExitCodeTells == CrashExits70 /\ CleanExitIsClean

\* The report agrees with the event stream: a drain is in the report exactly when `drained`
\* was said, `abandonedAt` exactly when the kernel said that it stopped waiting, and the
\* reason is `uncaught` exactly when a crash was said.
ReportAgreesWithEvents ==
  exited.kind = "report" =>
    /\ exited.drained <=> Said("drained")
    /\ exited.abandonedAt # "none" <=> Said("stoppedWaiting")
    /\ exited.reason = "uncaught" <=> Said("uncaught")

\* `exited` ends the event stream, and each other event but a teardown error is said at most
\* once and in the lifecycle's order, on every path out, abandoned ones included.
EventStreamWellFormed ==
  /\ \A i, j \in 1..Len(events) :
       i < j => events[i] # "exited" /\ (events[i] = events[j] => events[i] = "teardownError")
  /\ Before("serving", "draining") /\ Before("draining", "drained") /\ Before("drained", "stopping")
  /\ Before("serving", "stopping") /\ Before("startFailed", "stopping")
  /\ Said("exited") => Said("stopping")

\* What the caller is told and what the observers were told agree, whichever arm of the race
\* ended the lifecycle and whatever the losing arm did afterwards.
ToldAlike == ReportAgreesWithEvents /\ EventStreamWellFormed

\* runtimeInfo() is settled once the lifecycle has exited: no caller waits for ever.
RuntimeInfoSettled == phase = "exited" => published # "pending"

\* The application scope closes only under a runtime that never started or was stopped,
\* also when the build was abandoned while the runtime was starting; the exception is a
\* runtime whose own drain() defected.
RuntimeStoppedBeforeScope ==
  main \in {"closing", "settled"} =>
    runtime \in {"none", "stopped"} \/ drainCall = "defected"

\* Each way out of a half-built graph leaves nobody behind: no caller of runtimeInfo() waits,
\* and no runtime runs on a scope that is being closed.
WaysOutLeaveNothing == RuntimeInfoSettled /\ RuntimeStoppedBeforeScope

\* Every unit in flight when the drain began is counted, as completed or as abandoned.
DrainAccountsForUnits ==
  drain.by # "none" =>
    /\ drain.completed >= 0
    /\ drain.inFlightAtStart <= drain.completed + drain.abandoned

\* A drain that was decided by the registry going idle abandoned nothing: units are
\* abandoned only by the deadline or a skip, never because idleness was asked too early.
IdleDrainAbandonsNothing == drain.by = "idle" => drain.abandoned = 0

\* The drain report is true to the units: all are counted, and none is called abandoned by a
\* drain that ended idle.
DrainReportIsTrue == DrainAccountsForUnits /\ IdleDrainAbandonsNothing

\* The kernel signals a unit that is still running only when it has given up waiting:
\* at the drain deadline, on a stop that does not drain, or on an abandoned build.
AbortedOnlyWhenGivenUp ==
  open \cap aborted # {} =>
    \/ drain.by = "deadline"
    \/ reason \in {"runtimeStopped", "uncaught"}
    \/ abandonedBuild # "none"

\* When a report is out, every unit still running that was opened before `stopping` has
\* been told to stop.
UnitsToldToStop == exited.kind = "report" => open \subseteq aborted \cup openedLate

\* Units are told to stop in time and never early: not before the kernel gives up on them,
\* and all of them by the time it reports.
UnitsToldInTime == AbortedOnlyWhenGivenUp /\ UnitsToldToStop

\* A second signal or a crash ends the lifecycle with an outcome although constructors, the
\* runtime, its units and the finalisers may all hang.
ForcedExit == (signals = 2 \/ crashed) ~> exited.kind # "pending"

\* A shutdown requested of a serving application ends it, within the deadlines.
ShutdownCompletes ==
  (ShutdownRequested /\ phase \in {"serving", "draining", "stopping"}) ~> exited.kind # "pending"

\* A startup that failed is reported although its cleanup may hang.
StartupFailureReported == startupFailing ~> exited.kind # "pending"

\* What has to end does, within the deadlines: a shutdown after serving, and a startup that failed.
EndsWithinDeadlines == ShutdownCompletes /\ StartupFailureReported

\* What docs/reference/core/events.md says of `startFailed`: only what failed before `serving`.
StartFailedOnlyBeforeServing == ~(Said("serving") /\ Said("startFailed"))

-----------------------------------------------------------------------------
(* The lifecycle the kernel implements.                                     *)

Abstract == INSTANCE Lifecycle WITH ready <- Ready, outcome <- exited.kind

\* Whatever signals, crashes, deadlines and hanging user code do, what an observer sees of
\* the kernel is the lifecycle of module Lifecycle.
ImplementsLifecycle == Abstract!Spec

=============================================================================
