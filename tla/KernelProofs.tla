----------------------------- MODULE KernelProofs -----------------------------
(***************************************************************************)
(* What holds of the kernel's lifecycle for every set of units and every   *)
(* number of finalisers.                                                   *)
(*                                                                         *)
(* The inductive invariant says how the state that start() keeps in        *)
(* closures (the phase, the outcome, the flags of a crash, of an abandoned *)
(* build and of a failed startup, the runtime) follows the control point   *)
(* of the chain it builds.  No single callback of start.ts establishes it: *)
(* each one trusts it.                                                     *)
(***************************************************************************)
EXTENDS KernelProbes, FiniteSetTheorems, SequenceTheorems, TLAPS

Unserved == {"binding", "building", "starting"}

\* The phase is the one the control point entered, or the lifecycle was given up on.
PhaseFollowsControl ==
  /\ main = "binding" => phase = "building"
  /\ main \in {"building", "starting"} => phase \in {main, "exited"}
  /\ main = "serving" => phase = "serving"
  /\ main \in {"preDrain", "draining"} => phase = "draining"
  /\ main \in {"stopping", "closing"} => phase \in {"stopping", "exited"}
  /\ main = "settled" => phase = "exited"

RuntimeFollowsControl ==
  /\ main \in {"binding", "building"} => runtime = "none"
  /\ main \in {"stopping", "starting"} => runtime = main
  /\ main \in {"serving", "preDrain", "draining"} => runtime = "up"
  /\ RuntimeStoppedBeforeScope

\* `exited` settles and the handlers go in the step that makes the phase `exited`.
ExitFollowsPhase ==
  /\ phase = "exited" <=> exited.kind # "pending"
  /\ handlers <=> phase # "exited"

\* Once the race is built, a build that was abandoned is a lifecycle that exited.
AbandonedBuildExits ==
  /\ abandonedBuild # "none" /\ main # "binding" => phase = "exited"
  /\ phase = "exited" /\ main \in Unserved => abandonedBuild # "none"
  /\ (forcedUnready \/ crashed) /\ main \in Unserved => abandonedBuild # "none"

PublishedWhenServed ==
  main \notin Unserved \/ phase = "exited" => published # "pending"

StopArmedAfterServing ==
  /\ stopping # "none" => main \in {"stopping", "closing", "settled"}
  /\ startupFailing => phase \in {"stopping", "exited"}
  /\ result # "none" => main \in {"stopping", "closing", "settled"}
  /\ main \in {"stopping", "closing", "settled"} => result # "none"
  /\ result = "abandoned" => phase = "exited"
  /\ lifecycleSettled => main = "settled"

\* A failure that is not a defect came from a startup, whose cleanup a crash abandons.
FailureBeforeCrash ==
  phase # "exited" /\ (stopping \in {"config", "err"} \/ result \in {"config", "err"}) =>
    startupFailing /\ ~crashed

-----------------------------------------------------------------------------
(* Types.                                                                   *)

\* A finaliser fails once, and an answer is made of what has been decided by then.
TypeInv ==
  /\ TypeOK
  /\ acquired + teardownErrors <= MaxFinalisers
  /\ main \in {"binding", "building"} => teardownErrors = 0
  /\ main \in {"stopping", "closing"} => result # "none"
  /\ result = "abandoned" => abandonedBuild # "none"
  /\ main \in {"preDrain", "draining"} \/ "stopped" \in {result, stopping} => reason # "none"

LEMMA InFlightType ==
  ASSUME RegistryTypeOK
  PROVE  IsFiniteSet(open) /\ InFlight \in Nat
<1>1. IsFiniteSet(Unit)  BY UnitAssumption
<1>2. open \subseteq Unit  BY DEF RegistryTypeOK
<1>3. IsFiniteSet(open)  BY <1>1, <1>2, FS_Subset
<1>4. QED  BY <1>3, FS_CardinalityType DEF InFlight

LEMMA PassingType ==
  ASSUME NEW p \in {"stopping", "exited", "serving"}
  PROVE  Passing(p) \in Seq(EventTypes)
<1>1. <<p>> \in Seq(EventTypes)  BY DEF EventTypes
<1>2. <<>> \in Seq(EventTypes)  OBVIOUS
<1>3. QED  BY <1>1, <1>2, Zenon DEF Passing

LEMMA EmittedType ==
  ASSUME TypeOK, NEW es \in Seq(EventTypes)
  PROVE  Emitted(es) \in Seq(EventTypes)
BY DEF Emitted, TypeOK

LEMMA AdvancedType ==
  ASSUME TypeOK, NEW p \in Phases
  PROVE  Advanced(p) \in Phases
BY DEF Advanced, TypeOK

LEMMA CodeForType ==
  ASSUME NEW o \in Outcomes \ {Pending}
  PROVE  CodeFor(o) \in {0, 1, 2, 70, 78}
BY DEF CodeFor, Outcomes, Failed, Reports, Pending, Failures

LEMMA ExitType ==
  ASSUME TypeOK, NEW o \in Outcomes \ {Pending}, Exit(o)
  PROVE  exited' \in Outcomes /\ exitCode' \in {0, 1, 2, 70, 78}
BY CodeForType DEF Exit, exitVars, TypeOK

LEMMA ReportOfType ==
  ASSUME TypeOK, NEW r \in Reasons, NEW d \in BOOLEAN, NEW at \in {"none", "build", "stop"}
  PROVE  ReportOf(r, d, at) \in Outcomes \ {Pending}
BY DEF ReportOf, Outcomes, Reports, Reasons, Pending, TypeOK

LEMMA AbortAllType ==
  ASSUME TypeOK, AbortAll
  PROVE  RegistryTypeOK'
BY DEF AbortAll, RegistryTypeOK, TypeOK

LEMMA DisposeAllType ==
  ASSUME TypeOK, DisposeAll
  PROVE  handlers' \in BOOLEAN /\ phase' \in Phases
BY AdvancedType DEF DisposeAll, Phases

LEMMA BuildAbandonedType ==
  ASSUME TypeOK, NEW r \in {"signal", "uncaught"}, NEW said \in Seq(EventTypes),
         BuildAbandoned(r, said)
  PROVE  /\ RegistryTypeOK' /\ handlers' \in BOOLEAN /\ phase' \in Phases
         /\ events' \in Seq(EventTypes) /\ published' \in {"pending", "info", "nothing"}
         /\ exited' \in Outcomes /\ exitCode' \in {0, 1, 2, 70, 78}
<1>1. AbortAll /\ DisposeAll /\ NeverPublished /\ Exit(ReportOf(r, FALSE, "build"))
  BY DEF BuildAbandoned
<1>2. RegistryTypeOK' /\ handlers' \in BOOLEAN /\ phase' \in Phases
  BY <1>1, AbortAllType, DisposeAllType
<1>3. published' \in {"pending", "info", "nothing"}
  BY <1>1 DEF NeverPublished, TypeOK
<1>4. exited' \in Outcomes /\ exitCode' \in {0, 1, 2, 70, 78}
  <2>1. ReportOf(r, FALSE, "build") \in Outcomes \ {Pending}
    BY ReportOfType DEF Reasons
  <2>2. QED  BY <1>1, <2>1, ExitType
<1>5. events' \in Seq(EventTypes)
  <2>1. Passing("stopping") \in Seq(EventTypes) /\ Passing("exited") \in Seq(EventTypes)
    BY PassingType
  <2>2. <<"stoppedWaiting">> \in Seq(EventTypes)  BY DEF EventTypes
  <2>3. said \o <<"stoppedWaiting">> \o Passing("stopping") \o Passing("exited") \in Seq(EventTypes)
    BY <2>1, <2>2
  <2>4. QED  BY <2>3, EmittedType DEF BuildAbandoned
<1>6. QED  BY <1>2, <1>3, <1>4, <1>5

LEMMA AbandonBuildType ==
  ASSUME TypeOK, NEW r \in {"signal", "uncaught"}, NEW said \in Seq(EventTypes),
         AbandonBuild(r, said)
  PROVE  /\ RegistryTypeOK' /\ handlers' \in BOOLEAN /\ phase' \in Phases
         /\ events' \in Seq(EventTypes) /\ published' \in {"pending", "info", "nothing"}
         /\ exited' \in Outcomes /\ exitCode' \in {0, 1, 2, 70, 78}
         /\ abandonedBuild' \in {"none", "signal", "uncaught"}
<1>1. CASE BuildAbandoned(r, said) /\ abandonedBuild' = r
  BY <1>1, BuildAbandonedType
<1>2. CASE /\ events' = Emitted(said)
           /\ UNCHANGED <<registryVars, published, handlers, phase, exitVars>>
           /\ abandonedBuild' \in {abandonedBuild, r}
  <2>1. events' \in Seq(EventTypes)  BY <1>2, EmittedType
  <2>2. QED  BY <1>2, <2>1 DEF TypeOK, RegistryTypeOK, registryVars, exitVars
<1>3. QED  BY <1>1, <1>2 DEF AbandonBuild

LEMMA LeaveFailedType ==
  ASSUME TypeOK, NEW f \in Failures, NEW failing \in BOOLEAN, LeaveFailed(f, failing)
  PROVE  /\ startupFailing' \in BOOLEAN /\ events' \in Seq(EventTypes) /\ phase' \in Phases
         /\ published' \in {"pending", "info", "nothing"}
         /\ stopping' \in Failures \cup {"none", "stopped"}
         /\ main' \in Controls /\ result' \in Failures
         /\ UNCHANGED <<handlers, forcedUnready>>
<1>1. events' \in Seq(EventTypes)
  <2>1. Passing("stopping") \in Seq(EventTypes)  BY PassingType
  <2>2. (IF phase # "stopping" THEN <<"startFailed">> ELSE <<>>) \in Seq(EventTypes)
    <3>1. <<"startFailed">> \in Seq(EventTypes) /\ <<>> \in Seq(EventTypes)  BY DEF EventTypes
    <3>2. QED  BY <3>1, Zenon
  <2>3. (IF phase # "stopping" THEN <<"startFailed">> ELSE <<>>) \o Passing("stopping") \in Seq(EventTypes)
    BY <2>1, <2>2
  <2>4. QED  BY <2>3, EmittedType DEF LeaveFailed
<1>2. phase' \in Phases  BY AdvancedType DEF LeaveFailed, Phases
<1>3. published' \in {"pending", "info", "nothing"}
  BY DEF LeaveFailed, NeverPublished, TypeOK
<1>4. stopping' \in Failures \cup {"none", "stopped"}
  BY DEF LeaveFailed, ArmStop, TypeOK
<1>5. QED  BY <1>1, <1>2, <1>3, <1>4 DEF LeaveFailed, Controls

LEMMA AnswerType ==
  ASSUME TypeInv, NEW held \in Failures \cup {"stopped", "abandoned"},
         held = "stopped" => reason # "none", held = "abandoned" => abandonedBuild # "none",
         NEW at \in {"none", "stop"}
  PROVE  Answer(held, at) \in Outcomes \ {Pending}
<1>1. CASE held \in Failures
  BY <1>1 DEF Answer, Outcomes, Failed, Pending, Failures
<1>2. CASE held = "stopped"
  <2>1. ReportOf(reason, reason = "signal", at) \in Outcomes \ {Pending}
    BY <1>2, ReportOfType DEF TypeInv, TypeOK
  <2>2. Answer(held, at) = ReportOf(reason, reason = "signal", at)
    BY <1>2 DEF Answer, Failures
  <2>3. QED  BY <2>1, <2>2
<1>3. CASE held = "abandoned"
  <2>1. ReportOf(abandonedBuild, FALSE, at) \in Outcomes \ {Pending}
    BY <1>3, ReportOfType DEF TypeInv, TypeOK, Reasons
  <2>2. Answer(held, at) = ReportOf(abandonedBuild, FALSE, at)
    BY <1>3 DEF Answer, Failures
  <2>3. QED  BY <2>1, <2>2
<1>4. QED  BY <1>1, <1>2, <1>3

LEMMA TypeInit == Init => TypeInv
<1> SUFFICES ASSUME Init
             PROVE  TypeInv
  OBVIOUS
<1>1. events \in Seq(EventTypes)  BY DEF Init, EventTypes
<1>2. drain \in DrainRecords  BY DEF Init, NoDrain, DrainRecords
<1>3. exited \in Outcomes  BY DEF Init, Outcomes, Pending
<1>4. RegistryTypeOK  BY DEF Init, RegistryInit, RegistryTypeOK, IdleStates
<1>5. acquired = 0 /\ teardownErrors = 0 /\ 0 \in 0..MaxFinalisers
  BY FinaliserAssumption DEF Init
<1>6. /\ phase \in Phases /\ main \in Controls /\ reason = "none" /\ result = "none"
      /\ stopping = "none" /\ openedLate \subseteq seen
  BY DEF Init, Phases, Controls
<1>7. /\ acquired \in 0..MaxFinalisers /\ teardownErrors \in 0..MaxFinalisers
      /\ signals \in 0..2
  BY <1>5 DEF Init
<1>8. TypeOK
  BY <1>1, <1>2, <1>3, <1>4, <1>6, <1>7 DEF Init, TypeOK
<1>9. QED  BY <1>5, <1>6, <1>8, FinaliserAssumption DEF Init, TypeInv

LEMMA TypeRequests == TypeInv /\ Requests => TypeInv'
<1> SUFFICES ASSUME TypeInv, Requests
             PROVE  TypeInv'
  OBVIOUS
<1> USE DEF registryVars, trackerVars, requestVars, finaliserVars, scopeVars, callVars,
            runtimeVars, stopVars, exitVars
<1>1. CASE FirstSignal
  BY <1>1 DEF FirstSignal, RequestShutdown, TypeInv, TypeOK, RegistryTypeOK, Reasons
<1>2. CASE SecondSignal
  <2>1. AbandonBuild("signal", <<>>) /\ <<>> \in Seq(EventTypes)  BY <1>2 DEF SecondSignal
  <2>2. TypeOK  BY DEF TypeInv
  <2>3. /\ RegistryTypeOK' /\ handlers' \in BOOLEAN /\ phase' \in Phases
        /\ events' \in Seq(EventTypes) /\ published' \in {"pending", "info", "nothing"}
        /\ exited' \in Outcomes /\ exitCode' \in {0, 1, 2, 70, 78}
        /\ abandonedBuild' \in {"none", "signal", "uncaught"}
    BY <2>1, <2>2, AbandonBuildType
  <2>4. seen' = seen /\ (abandonedBuild # "none" => abandonedBuild' # "none")
    BY <2>1 DEF AbandonBuild, BuildAbandoned, AbortAll
  <2>5. QED  BY <1>2, <2>3, <2>4 DEF SecondSignal, TypeInv, TypeOK
<1>3. CASE Uncaught
  <2>1. AbandonBuild("uncaught", <<"uncaught">>) /\ <<"uncaught">> \in Seq(EventTypes)
    BY <1>3 DEF Uncaught, EventTypes
  <2>2. TypeOK  BY DEF TypeInv
  <2>3. /\ RegistryTypeOK' /\ handlers' \in BOOLEAN /\ phase' \in Phases
        /\ events' \in Seq(EventTypes) /\ published' \in {"pending", "info", "nothing"}
        /\ exited' \in Outcomes /\ exitCode' \in {0, 1, 2, 70, 78}
        /\ abandonedBuild' \in {"none", "signal", "uncaught"}
    BY <2>1, <2>2, AbandonBuildType
  <2>4. seen' = seen /\ (abandonedBuild # "none" => abandonedBuild' # "none")
    BY <2>1 DEF AbandonBuild, BuildAbandoned, AbortAll
  <2>5. reason' \in Reasons
    BY <1>3 DEF Uncaught, RequestShutdown, Reasons, TypeInv, TypeOK
  <2>6. QED  BY <1>3, <2>3, <2>4, <2>5 DEF Uncaught, TypeInv, TypeOK, Reasons
<1>4. ASSUME NEW r \in {"signal", "runtimeStopped"}, CallerRequests(r)
      PROVE  TypeInv'
  BY <1>4 DEF CallerRequests, RequestShutdown, TypeInv, TypeOK, RegistryTypeOK, Reasons
<1>5. CASE RuntimeStopped
  BY <1>5 DEF RuntimeStopped, RequestShutdown, TypeInv, TypeOK, RegistryTypeOK, Reasons
<1>6. QED  BY <1>1, <1>2, <1>3, <1>4, <1>5 DEF Requests

LEMMA TypeStarting == TypeInv /\ Starting => TypeInv'
<1> SUFFICES ASSUME TypeInv, Starting
             PROVE  TypeInv'
  OBVIOUS
<1> USE DEF registryVars, trackerVars, requestVars, finaliserVars, scopeVars, callVars,
            runtimeVars, stopVars, exitVars
<1>0. TypeOK  BY DEF TypeInv
<1>1. CASE ProbesUp
  <2>1. CASE abandonedBuild # "none" /\ BuildAbandoned(abandonedBuild, <<>>)
    <3>1. abandonedBuild \in {"signal", "uncaught"} /\ <<>> \in Seq(EventTypes)
      BY <2>1 DEF TypeInv, TypeOK
    <3>2. /\ RegistryTypeOK' /\ handlers' \in BOOLEAN /\ phase' \in Phases
          /\ events' \in Seq(EventTypes) /\ published' \in {"pending", "info", "nothing"}
          /\ exited' \in Outcomes /\ exitCode' \in {0, 1, 2, 70, 78}
      BY <1>0, <2>1, <3>1, BuildAbandonedType
    <3>3. seen' = seen  BY <2>1 DEF BuildAbandoned, AbortAll
    <3>4. QED  BY <1>1, <3>2, <3>3 DEF ProbesUp, TypeInv, TypeOK, Controls
  <2>2. CASE UNCHANGED <<events, registryVars, published, handlers, phase, exitVars>>
    BY <1>1, <2>2 DEF ProbesUp, TypeInv, TypeOK, RegistryTypeOK, Controls
  <2>3. QED  BY <1>1, <2>1, <2>2 DEF ProbesUp
<1>2. ASSUME NEW f \in {"config", "err"}, ProbesFail(f)
      PROVE  TypeInv'
  <2>1. DisposeAll /\ NeverPublished /\ Exit(Failed(f))  BY <1>2 DEF ProbesFail
  <2>2. handlers' \in BOOLEAN /\ phase' \in Phases  BY <1>0, <2>1, DisposeAllType
  <2>3. Failed(f) \in Outcomes \ {Pending}
    BY DEF Outcomes, Failed, Pending, Failures
  <2>4. exited' \in Outcomes /\ exitCode' \in {0, 1, 2, 70, 78}
    BY <1>0, <2>1, <2>3, ExitType
  <2>5. events' \in Seq(EventTypes)
    <3>1. Passing("stopping") \in Seq(EventTypes) /\ Passing("exited") \in Seq(EventTypes)
      BY PassingType
    <3>2. <<"startFailed">> \in Seq(EventTypes)  BY DEF EventTypes
    <3>3. <<"startFailed">> \o Passing("stopping") \o Passing("exited") \in Seq(EventTypes)
      BY <3>1, <3>2
    <3>4. QED  BY <1>0, <1>2, <3>3, EmittedType DEF ProbesFail
  <2>6. QED
    BY <1>2, <2>1, <2>2, <2>4, <2>5
    DEF ProbesFail, NeverPublished, TypeInv, TypeOK, RegistryTypeOK, Controls, Failures
<1>3. CASE Acquire
  BY <1>3, FinaliserAssumption DEF Acquire, TypeInv, TypeOK, RegistryTypeOK
<1>4. ASSUME NEW f \in Failures, ConstructionFails(f)
      PROVE  TypeInv'
  <2>1. LeaveFailed(f, TRUE)  BY <1>4 DEF ConstructionFails
  <2>2. /\ startupFailing' \in BOOLEAN /\ events' \in Seq(EventTypes) /\ phase' \in Phases
        /\ published' \in {"pending", "info", "nothing"}
        /\ stopping' \in Failures \cup {"none", "stopped"}
        /\ main' \in Controls /\ result' \in Failures
        /\ UNCHANGED <<handlers, forcedUnready>>
    BY <1>0, <2>1, LeaveFailedType
  <2>3. main' = "closing" /\ (stopping' = "stopped" => stopping = "stopped")
    BY <2>1 DEF LeaveFailed, ArmStop, Failures
  <2>4. QED  BY <1>4, <2>2, <2>3 DEF ConstructionFails, TypeInv, TypeOK, RegistryTypeOK, Failures
<1>5. CASE ServeAbandoned
  BY <1>5 DEF ServeAbandoned, TypeInv, TypeOK, RegistryTypeOK, Controls
<1>6. CASE StartRuntime
  <2>1. phase' \in Phases  BY <1>0, <1>6, AdvancedType DEF StartRuntime, Phases
  <2>2. QED  BY <1>6, <2>1 DEF StartRuntime, TypeInv, TypeOK, RegistryTypeOK, Controls
<1>7. ASSUME NEW f \in Failures, RuntimeRefuses(f)
      PROVE  TypeInv'
  <2>1. LeaveFailed(f, startupFailing \/ phase = "starting")  BY <1>7 DEF RuntimeRefuses
  <2>2. (startupFailing \/ phase = "starting") \in BOOLEAN  OBVIOUS
  <2>3. /\ startupFailing' \in BOOLEAN /\ events' \in Seq(EventTypes) /\ phase' \in Phases
        /\ published' \in {"pending", "info", "nothing"}
        /\ stopping' \in Failures \cup {"none", "stopped"}
        /\ main' \in Controls /\ result' \in Failures
        /\ UNCHANGED <<handlers, forcedUnready>>
    BY <1>0, <2>1, <2>2, LeaveFailedType
  <2>4. main' = "closing" /\ (stopping' = "stopped" => stopping = "stopped")
    BY <2>1 DEF LeaveFailed, ArmStop, Failures
  <2>5. QED  BY <1>7, <2>3, <2>4 DEF RuntimeRefuses, TypeInv, TypeOK, RegistryTypeOK, Failures
<1>8. CASE RuntimeServes
  <2>1. phase' \in Phases  BY <1>0, <1>8, AdvancedType DEF RuntimeServes, Phases
  <2>2. events' \in Seq(EventTypes)
    BY <1>0, <1>8, PassingType, EmittedType DEF RuntimeServes
  <2>3. QED  BY <1>8, <2>1, <2>2 DEF RuntimeServes, TypeInv, TypeOK, RegistryTypeOK, Controls
<1>9. CASE RuntimeUpTooLate
  <2>1. RegistryTypeOK' /\ seen' = seen
    BY <1>0, <1>9, AbortAllType DEF RuntimeUpTooLate, AbortAll
  <2>2. QED  BY <1>9, <2>1 DEF RuntimeUpTooLate, TypeInv, TypeOK, Controls
<1>10. QED
  BY <1>1, <1>2, <1>3, <1>4, <1>5, <1>6, <1>7, <1>8, <1>9 DEF Starting

LEMMA EnterStoppingType ==
  ASSUME TypeInv, reason # "none", EnterStopping
  PROVE  /\ phase' \in Phases /\ main' = "stopping" /\ result' = "stopped"
         /\ stopping' \in Failures \cup {"none", "stopped"} /\ runtime' = "stopping"
<1>1. phase' \in Phases  BY AdvancedType DEF EnterStopping, Phases, TypeInv
<1>2. QED  BY <1>1 DEF EnterStopping, ArmStop, TypeInv, TypeOK

LEMMA SettleDrainType ==
  ASSUME TypeInv, main = "draining", NEW by \in {"idle", "deadline"}, SettleDrain(by)
  PROVE  TypeInv'
<1>0. TypeOK /\ reason # "none"  BY DEF TypeInv
<1>1. /\ phase' \in Phases /\ main' = "stopping" /\ result' = "stopped"
      /\ stopping' \in Failures \cup {"none", "stopped"} /\ runtime' = "stopping"
  BY <1>0, EnterStoppingType DEF SettleDrain
<1>2. events' \in Seq(EventTypes)
  <2>1. Passing("stopping") \in Seq(EventTypes)  BY PassingType
  <2>2. <<"drained">> \in Seq(EventTypes)  BY DEF EventTypes
  <2>3. <<"drained">> \o Passing("stopping") \in Seq(EventTypes)  BY <2>1, <2>2
  <2>4. QED  BY <1>0, <2>3, EmittedType DEF SettleDrain
<1>3. RegistryTypeOK' /\ seen' = seen
  <2>1. CASE AbortAll  BY <1>0, <2>1, AbortAllType DEF AbortAll
  <2>2. CASE UNCHANGED registryVars
    BY <1>0, <2>2 DEF registryVars, TypeOK, RegistryTypeOK
  <2>3. QED  BY <2>1, <2>2 DEF SettleDrain
<1>4. drain' \in DrainRecords
  <2>1. InFlight \in Nat /\ closedCount \in Nat
    BY <1>0, InFlightType DEF TypeOK, RegistryTypeOK
  <2>2. drain \in DrainRecords  BY <1>0 DEF TypeOK
  <2>3. closedCount - drain.closedAtStart \in Int  BY <2>1, <2>2 DEF DrainRecords
  <2>4. drain' = [drain EXCEPT !.by = by, !.completed = closedCount - drain.closedAtStart,
                               !.abandoned = InFlight]
    BY DEF SettleDrain
  <2>5. QED  BY <2>1, <2>2, <2>3, <2>4 DEF DrainRecords
<1>5. QED
  BY <1>0, <1>1, <1>2, <1>3, <1>4
  DEF SettleDrain, TypeInv, TypeOK, Controls, requestVars, finaliserVars, exitVars

LEMMA TypeEnding == TypeInv /\ Ending => TypeInv'
<1> SUFFICES ASSUME TypeInv, Ending
             PROVE  TypeInv'
  OBVIOUS
<1> USE DEF registryVars, trackerVars, requestVars, finaliserVars, scopeVars, callVars,
            runtimeVars, stopVars, exitVars
<1>0. TypeOK  BY DEF TypeInv
<1>1. CASE FinishAborting
  <2>0. reason # "none"  BY <1>1 DEF FinishAborting, Reasons
  <2>1. RegistryTypeOK' /\ seen' = seen
    BY <1>0, <1>1, AbortAllType DEF FinishAborting, AbortAll
  <2>2. /\ phase' \in Phases /\ main' = "stopping" /\ result' = "stopped"
        /\ stopping' \in Failures \cup {"none", "stopped"} /\ runtime' = "stopping"
    BY <1>1, <2>0, EnterStoppingType DEF FinishAborting
  <2>3. events' \in Seq(EventTypes)
    BY <1>0, <1>1, PassingType, EmittedType DEF FinishAborting
  <2>4. QED
    BY <1>1, <2>0, <2>1, <2>2, <2>3 DEF FinishAborting, TypeInv, TypeOK, Controls
<1>2. CASE BeginDrain
  <2>1. phase' \in Phases  BY <1>0, <1>2, AdvancedType DEF BeginDrain, Phases
  <2>2. events' \in Seq(EventTypes)
    BY <1>0, <1>2, EmittedType, <<"draining">> \in Seq(EventTypes) DEF BeginDrain, EventTypes
  <2>3. drain' \in DrainRecords
    <3>1. InFlight \in Nat /\ closedCount \in Nat
      BY <1>0, InFlightType DEF TypeOK, RegistryTypeOK
    <3>2. QED  BY <1>0, <1>2, <3>1 DEF BeginDrain, DrainRecords, TypeOK
  <2>4. QED
    BY <1>2, <2>1, <2>2, <2>3 DEF BeginDrain, TypeInv, TypeOK, RegistryTypeOK, Controls
<1>3. CASE PreDrainOver
  BY <1>3 DEF PreDrainOver, TypeInv, TypeOK, RegistryTypeOK, Controls
<1>4. CASE DrainCallSettles
  BY <1>4 DEF DrainCallSettles, AwaitIdle, TypeInv, TypeOK, RegistryTypeOK, IdleStates
<1>5. CASE DrainedIdle
  BY <1>5, SettleDrainType DEF DrainedIdle
<1>6. CASE DrainDeadline
  BY <1>6, SettleDrainType DEF DrainDeadline
<1>7. CASE DrainDefects
  <2>1. LeaveFailed("defect", startupFailing \/ phase = "starting")  BY <1>7 DEF DrainDefects
  <2>2. "defect" \in Failures /\ (startupFailing \/ phase = "starting") \in BOOLEAN
    BY DEF Failures
  <2>3. /\ startupFailing' \in BOOLEAN /\ events' \in Seq(EventTypes) /\ phase' \in Phases
        /\ published' \in {"pending", "info", "nothing"}
        /\ stopping' \in Failures \cup {"none", "stopped"}
        /\ main' \in Controls /\ result' \in Failures
        /\ UNCHANGED <<handlers, forcedUnready>>
    BY <1>0, <2>1, <2>2, LeaveFailedType
  <2>4. main' = "closing" /\ (stopping' = "stopped" => stopping = "stopped")
    BY <2>1 DEF LeaveFailed, ArmStop, Failures
  <2>5. QED  BY <1>7, <2>3, <2>4 DEF DrainDefects, TypeInv, TypeOK, RegistryTypeOK, Failures
<1>8. CASE ServingStopped
  BY <1>8 DEF ServingStopped, TypeInv, TypeOK, RegistryTypeOK, Controls
<1>9. CASE ServingStopDefects
  <2>1. LeaveFailed("defect", startupFailing \/ phase = "starting")
    BY <1>9 DEF ServingStopDefects
  <2>2. "defect" \in Failures /\ (startupFailing \/ phase = "starting") \in BOOLEAN
    BY DEF Failures
  <2>3. /\ startupFailing' \in BOOLEAN /\ events' \in Seq(EventTypes) /\ phase' \in Phases
        /\ published' \in {"pending", "info", "nothing"}
        /\ stopping' \in Failures \cup {"none", "stopped"}
        /\ main' \in Controls /\ result' \in Failures
        /\ UNCHANGED <<handlers, forcedUnready>>
    BY <1>0, <2>1, <2>2, LeaveFailedType
  <2>4. main' = "closing" /\ (stopping' = "stopped" => stopping = "stopped")
    BY <2>1 DEF LeaveFailed, ArmStop, Failures
  <2>5. QED
    BY <1>9, <2>3, <2>4 DEF ServingStopDefects, TypeInv, TypeOK, RegistryTypeOK, Failures
<1>10. ASSUME NEW ok \in BOOLEAN, Release(ok)
       PROVE  TypeInv'
  <2>1. events' \in Seq(EventTypes)
    BY <1>0, <1>10, EmittedType, <<"teardownError">> \in Seq(EventTypes)
    DEF Release, EventTypes, TypeOK
  <2>2. acquired \in Nat /\ teardownErrors \in Nat  BY <1>0 DEF TypeOK
  <2>3. QED
    BY <1>10, <2>1, <2>2, FinaliserAssumption DEF Release, TypeInv, TypeOK, RegistryTypeOK
<1>11. CASE ScopeSettles
  <2>1. handlers' \in BOOLEAN /\ phase' \in Phases
    BY <1>0, <1>11, DisposeAllType DEF ScopeSettles
  <2>2. exited' \in Outcomes /\ exitCode' \in {0, 1, 2, 70, 78}
    <3>1. /\ result \in Failures \cup {"stopped", "abandoned"}
          /\ result = "stopped" => reason # "none"
          /\ result = "abandoned" => abandonedBuild # "none"
      BY <1>11 DEF ScopeSettles, TypeInv, TypeOK
    <3>2. Answer(result, "none") \in Outcomes \ {Pending}  BY <3>1, AnswerType
    <3>3. QED  BY <1>0, <1>11, <3>2, ExitType DEF ScopeSettles
  <2>3. events' \in Seq(EventTypes)
    <3>1. /\ (IF result \in Failures /\ phase # "stopping" THEN <<"startFailed">> ELSE <<>>)
             \in Seq(EventTypes)
          /\ (IF result \in Failures THEN Passing("stopping") ELSE <<>>) \in Seq(EventTypes)
          /\ Passing("exited") \in Seq(EventTypes)
      <4>1. <<>> \in Seq(EventTypes) /\ <<"startFailed">> \in Seq(EventTypes)
        BY DEF EventTypes
      <4>2. QED  BY <4>1, PassingType, Zenon
    <3>2. (IF result \in Failures /\ phase # "stopping" THEN <<"startFailed">> ELSE <<>>)
          \o (IF result \in Failures THEN Passing("stopping") ELSE <<>>)
          \o Passing("exited") \in Seq(EventTypes)
      BY <3>1
    <3>3. QED  BY <1>0, <1>11, <3>2, EmittedType DEF ScopeSettles
  <2>4. QED
    BY <1>11, <2>1, <2>2, <2>3 DEF ScopeSettles, TypeInv, TypeOK, RegistryTypeOK, Controls
<1>12. CASE StopAbandoned
  <2>1. handlers' \in BOOLEAN /\ phase' \in Phases
    BY <1>0, <1>12, DisposeAllType DEF StopAbandoned
  <2>2. exited' \in Outcomes /\ exitCode' \in {0, 1, 2, 70, 78}
    <3>1. stopping \in Failures \cup {"stopped"} /\ (stopping = "stopped" => reason # "none")
      BY <1>12 DEF StopAbandoned, TypeInv, TypeOK
    <3>2. stopping # "abandoned"  BY <3>1 DEF Failures
    <3>3. Answer(stopping, "stop") \in Outcomes \ {Pending}  BY <3>1, <3>2, AnswerType
    <3>4. QED  BY <1>0, <1>12, <3>3, ExitType DEF StopAbandoned
  <2>3. events' \in Seq(EventTypes)
    <3>1. <<"stoppedWaiting">> \o Passing("exited") \in Seq(EventTypes)
      BY PassingType, <<"stoppedWaiting">> \in Seq(EventTypes) DEF EventTypes
    <3>2. QED  BY <1>0, <1>12, <3>1, EmittedType DEF StopAbandoned
  <2>4. QED
    BY <1>12, <2>1, <2>2, <2>3 DEF StopAbandoned, TypeInv, TypeOK, RegistryTypeOK
<1>13. CASE StopWithdrawn
  BY <1>13 DEF StopWithdrawn, TypeInv, TypeOK, RegistryTypeOK
<1>14. QED
  BY <1>1, <1>2, <1>3, <1>4, <1>5, <1>6, <1>7, <1>8, <1>9, <1>10, <1>11, <1>12, <1>13
  DEF Ending

LEMMA TypeUnits == TypeInv /\ Units => TypeInv'
<1> SUFFICES ASSUME TypeInv, NEW u \in Unit, RunUnit(u) \/ SettleUnit(u)
             PROVE  TypeInv'
  BY DEF Units
<1> USE DEF registryVars, trackerVars, requestVars, finaliserVars, scopeVars, callVars,
            runtimeVars, stopVars, exitVars
<1>1. CASE RunUnit(u)
  BY <1>1 DEF RunUnit, OpenUnit, TypeInv, TypeOK, RegistryTypeOK
<1>2. CASE SettleUnit(u)
  BY <1>2 DEF SettleUnit, CloseUnit, TypeInv, TypeOK, RegistryTypeOK, IdleStates
<1>3. QED  BY <1>1, <1>2

LEMMA TypeStep == TypeInv /\ [Next]_vars => TypeInv'
<1>1. ASSUME TypeInv, UNCHANGED vars
      PROVE  TypeInv'
  BY <1>1
  DEF vars, registryVars, trackerVars, requestVars, finaliserVars, scopeVars, callVars,
      runtimeVars, stopVars, exitVars, TypeInv, TypeOK, RegistryTypeOK
<1>2. QED
  BY <1>1, TypeRequests, TypeStarting, TypeEnding, TypeUnits DEF Next

\* Every variable of start()'s closures keeps to its kind: in particular exitCode is one of
\* the five runMain documents, and a finaliser is never run or blamed twice.
THEOREM TypeCorrect == Spec => []TypeOK
<1>1. TypeInv => TypeOK  BY DEF TypeInv
<1>2. QED  BY <1>1, TypeInit, TypeStep, PTL DEF Spec

-----------------------------------------------------------------------------
(* Control.                                                                 *)

ControlInv ==
  /\ PhaseFollowsControl /\ RuntimeFollowsControl /\ ExitFollowsPhase
  /\ AbandonedBuildExits /\ PublishedWhenServed /\ StopArmedAfterServing
  /\ FailureBeforeCrash

LEMMA AdvancedTo ==
  ASSUME TypeOK
  PROVE  /\ Advanced("exited") = "exited"
         /\ Advanced("stopping") = IF phase = "exited" THEN "exited" ELSE "stopping"
         /\ phase = "building" => Advanced("starting") = "starting"
         /\ phase = "starting" => Advanced("serving") = "serving"
         /\ phase = "serving" => Advanced("draining") = "draining"
BY DEF Advanced, Rank, TypeOK, Phases

LEMMA ExitSettles ==
  ASSUME NEW o, o.kind # "pending", Exit(o)
  PROVE  /\ exited'.kind # "pending"
         /\ exited.kind = "pending" => exited' = o /\ exitCode' = CodeFor(o)
         /\ exited.kind # "pending" => UNCHANGED exitVars
BY DEF Exit, exitVars

LEMMA AnswerSettles ==
  ASSUME NEW held \in Failures \cup {"stopped", "abandoned"}, NEW at
  PROVE  Answer(held, at).kind # "pending"
BY DEF Answer, Failures, Failed, ReportOf

LEMMA AnswerOfFailure ==
  ASSUME NEW held \in Failures, NEW at
  PROVE  Answer(held, at) = Failed(held)
<1>1. CASE held = "config"  BY <1>1 DEF Answer, Failures, Failed
<1>2. CASE held = "err"  BY <1>2 DEF Answer, Failures, Failed
<1>3. CASE held = "defect"  BY <1>3 DEF Answer, Failures, Failed
<1>4. QED  BY <1>1, <1>2, <1>3 DEF Failures

LEMMA BuildAbandonedEffect ==
  ASSUME TypeOK, NEW r, NEW said, BuildAbandoned(r, said)
  PROVE  /\ phase' = "exited" /\ handlers' = FALSE /\ published' # "pending"
         /\ exited'.kind # "pending"
         /\ exited.kind = "pending" => exitCode' = CodeFor(ReportOf(r, FALSE, "build"))
         /\ exited.kind # "pending" => UNCHANGED exitVars
         /\ UNCHANGED <<open, seen, closedCount, idle>>
<1>1. Exit(ReportOf(r, FALSE, "build"))  BY DEF BuildAbandoned
<1>2. ReportOf(r, FALSE, "build").kind # "pending"  BY DEF ReportOf
<1>3. phase' = "exited" /\ handlers' = FALSE
  BY AdvancedTo DEF BuildAbandoned, DisposeAll
<1>4. published' # "pending"  BY DEF BuildAbandoned, NeverPublished
<1>5. UNCHANGED <<open, seen, closedCount, idle>>  BY DEF BuildAbandoned, AbortAll
<1>6. QED  BY <1>1, <1>2, <1>3, <1>4, <1>5, ExitSettles

\* What a second signal or a crash does to a build, and what it leaves alone otherwise.
LEMMA AbandonBuildEffect ==
  ASSUME TypeOK, NEW r, NEW said, AbandonBuild(r, said)
  PROVE  /\ Abandonable(r) => abandonedBuild' = r
         /\ ~Abandonable(r) => abandonedBuild' = abandonedBuild
         /\ Abandonable(r) /\ main # "binding" => BuildAbandoned(r, said)
         /\ ~(Abandonable(r) /\ main # "binding") =>
              UNCHANGED <<registryVars, published, handlers, phase, exitVars>>
BY DEF AbandonBuild

LEMMA LeaveFailedEffect ==
  ASSUME TypeOK, NEW f \in Failures, NEW failing, LeaveFailed(f, failing)
  PROVE  /\ phase' = IF phase = "exited" THEN "exited" ELSE "stopping"
         /\ published' # "pending"
         /\ stopping' = IF stopping = "none" THEN f ELSE stopping
         /\ main' = "closing" /\ result' = f /\ startupFailing' = failing
         /\ UNCHANGED <<handlers, forcedUnready>>
BY AdvancedTo DEF LeaveFailed, NeverPublished, ArmStop

LEMMA ControlInit == Init => ControlInv
BY DEF Init, ControlInv, PhaseFollowsControl, RuntimeFollowsControl, ExitFollowsPhase,
       AbandonedBuildExits, PublishedWhenServed, StopArmedAfterServing, FailureBeforeCrash,
       RuntimeStoppedBeforeScope, Unserved, Pending

LEMMA ControlRequests == TypeInv /\ ControlInv /\ Requests => ControlInv'
<1> SUFFICES ASSUME TypeInv, ControlInv, Requests
             PROVE  ControlInv'
  OBVIOUS
<1> USE DEF registryVars, trackerVars, requestVars, finaliserVars, scopeVars, callVars,
            runtimeVars, stopVars, exitVars, ControlInv, PhaseFollowsControl,
            RuntimeFollowsControl, ExitFollowsPhase, AbandonedBuildExits,
            PublishedWhenServed, StopArmedAfterServing, FailureBeforeCrash,
            RuntimeStoppedBeforeScope, Unserved
<1>0. TypeOK  BY DEF TypeInv
<1>1. CASE FirstSignal  BY <1>1 DEF FirstSignal
<1>2. CASE SecondSignal
  <2>1. AbandonBuild("signal", <<>>)  BY <1>2 DEF SecondSignal
  <2>2. CASE Abandonable("signal") /\ main # "binding"
    <3>1. BuildAbandoned("signal", <<>>) /\ abandonedBuild' = "signal"
      BY <1>0, <2>1, <2>2, AbandonBuildEffect
    <3>2. /\ phase' = "exited" /\ handlers' = FALSE /\ published' # "pending"
          /\ exited'.kind # "pending"
      BY <1>0, <3>1, BuildAbandonedEffect
    <3>3. QED  BY <1>2, <2>2, <3>1, <3>2 DEF SecondSignal, Abandonable
  <2>3. CASE ~(Abandonable("signal") /\ main # "binding")
    <3>1. /\ UNCHANGED <<published, handlers, phase, exited>>
          /\ abandonedBuild' = IF Abandonable("signal") THEN "signal" ELSE abandonedBuild
      BY <1>0, <2>1, <2>3, AbandonBuildEffect
    <3>2. QED  BY <1>2, <2>3, <3>1 DEF SecondSignal
  <2>4. QED  BY <2>2, <2>3
<1>3. CASE Uncaught
  <2>1. AbandonBuild("uncaught", <<"uncaught">>)  BY <1>3 DEF Uncaught
  <2>2. CASE Abandonable("uncaught") /\ main # "binding"
    <3>1. BuildAbandoned("uncaught", <<"uncaught">>) /\ abandonedBuild' = "uncaught"
      BY <1>0, <2>1, <2>2, AbandonBuildEffect
    <3>2. /\ phase' = "exited" /\ handlers' = FALSE /\ published' # "pending"
          /\ exited'.kind # "pending"
      BY <1>0, <3>1, BuildAbandonedEffect
    <3>3. QED  BY <1>3, <2>2, <3>1, <3>2 DEF Uncaught, Abandonable
  <2>3. CASE ~(Abandonable("uncaught") /\ main # "binding")
    <3>1. /\ UNCHANGED <<published, handlers, phase, exited>>
          /\ abandonedBuild' = IF Abandonable("uncaught") THEN "uncaught" ELSE abandonedBuild
      BY <1>0, <2>1, <2>3, AbandonBuildEffect
    <3>2. QED  BY <1>3, <2>3, <3>1 DEF Uncaught, Abandonable
  <2>4. QED  BY <2>2, <2>3
<1>4. ASSUME NEW r \in {"signal", "runtimeStopped"}, CallerRequests(r)
      PROVE  ControlInv'
  BY <1>4 DEF CallerRequests
<1>5. CASE RuntimeStopped  BY <1>5 DEF RuntimeStopped
<1>6. QED  BY <1>1, <1>2, <1>3, <1>4, <1>5 DEF Requests

LEMMA ControlStarting == TypeInv /\ ControlInv /\ Starting => ControlInv'
<1> SUFFICES ASSUME TypeInv, ControlInv, Starting
             PROVE  ControlInv'
  OBVIOUS
<1> USE DEF registryVars, trackerVars, requestVars, finaliserVars, scopeVars, callVars,
            runtimeVars, stopVars, exitVars, ControlInv, PhaseFollowsControl,
            RuntimeFollowsControl, ExitFollowsPhase, AbandonedBuildExits,
            PublishedWhenServed, StopArmedAfterServing, FailureBeforeCrash,
            RuntimeStoppedBeforeScope, Unserved
<1>0. TypeOK  BY DEF TypeInv
<1>1. CASE ProbesUp
  <2>1. CASE abandonedBuild # "none"
    <3>1. BuildAbandoned(abandonedBuild, <<>>)  BY <1>1, <2>1 DEF ProbesUp
    <3>2. /\ phase' = "exited" /\ handlers' = FALSE /\ published' # "pending"
          /\ exited'.kind # "pending"
      BY <1>0, <3>1, BuildAbandonedEffect
    <3>3. QED  BY <1>1, <2>1, <3>2 DEF ProbesUp
  <2>2. CASE abandonedBuild = "none"
    BY <1>1, <2>2 DEF ProbesUp
  <2>3. QED  BY <2>1, <2>2
<1>2. ASSUME NEW f \in {"config", "err"}, ProbesFail(f)
      PROVE  ControlInv'
  <2>1. Exit(Failed(f)) /\ Failed(f).kind # "pending"  BY <1>2 DEF ProbesFail, Failed
  <2>2. exited'.kind # "pending"  BY <2>1, ExitSettles
  <2>3. phase' = "exited" /\ handlers' = FALSE /\ published' # "pending"
    BY <1>0, <1>2, AdvancedTo DEF ProbesFail, DisposeAll, NeverPublished
  <2>4. QED  BY <1>2, <2>2, <2>3 DEF ProbesFail
<1>3. CASE Acquire  BY <1>3 DEF Acquire
<1>4. ASSUME NEW f \in Failures, ConstructionFails(f)
      PROVE  ControlInv'
  <2>1. /\ phase' = IF phase = "exited" THEN "exited" ELSE "stopping"
        /\ published' # "pending"
        /\ stopping' = IF stopping = "none" THEN f ELSE stopping
        /\ main' = "closing" /\ result' = f /\ startupFailing' = TRUE
        /\ UNCHANGED <<handlers, forcedUnready>>
    BY <1>0, <1>4, LeaveFailedEffect DEF ConstructionFails
  <2>2. f # "none" /\ f # "abandoned"  BY DEF Failures
  <2>3. QED  BY <1>4, <2>1, <2>2 DEF ConstructionFails
<1>5. CASE ServeAbandoned  BY <1>5 DEF ServeAbandoned
<1>6. CASE StartRuntime
  <2>1. phase = "building" /\ phase' = "starting"
    BY <1>0, <1>6, AdvancedTo DEF StartRuntime
  <2>2. QED  BY <1>6, <2>1 DEF StartRuntime
<1>7. ASSUME NEW f \in Failures, RuntimeRefuses(f)
      PROVE  ControlInv'
  <2>1. /\ phase' = IF phase = "exited" THEN "exited" ELSE "stopping"
        /\ published' # "pending"
        /\ stopping' = IF stopping = "none" THEN f ELSE stopping
        /\ main' = "closing" /\ result' = f
        /\ startupFailing' = (startupFailing \/ phase = "starting")
        /\ UNCHANGED <<handlers, forcedUnready>>
    BY <1>0, <1>7, LeaveFailedEffect DEF RuntimeRefuses
  <2>2. f # "none" /\ f # "abandoned"  BY DEF Failures
  <2>3. QED  BY <1>7, <2>1, <2>2 DEF RuntimeRefuses
<1>8. CASE RuntimeServes
  <2>1. phase = "starting" /\ phase' = "serving"
    BY <1>0, <1>8, AdvancedTo DEF RuntimeServes
  <2>2. QED  BY <1>8, <2>1 DEF RuntimeServes
<1>9. CASE RuntimeUpTooLate  BY <1>9 DEF RuntimeUpTooLate
<1>10. QED
  BY <1>1, <1>2, <1>3, <1>4, <1>5, <1>6, <1>7, <1>8, <1>9 DEF Starting

LEMMA ControlEnding == TypeInv /\ ControlInv /\ Ending => ControlInv'
<1> SUFFICES ASSUME TypeInv, ControlInv, Ending
             PROVE  ControlInv'
  OBVIOUS
<1> USE DEF registryVars, trackerVars, requestVars, finaliserVars, scopeVars, callVars,
            runtimeVars, stopVars, exitVars, ControlInv, PhaseFollowsControl,
            RuntimeFollowsControl, ExitFollowsPhase, AbandonedBuildExits,
            PublishedWhenServed, StopArmedAfterServing, FailureBeforeCrash,
            RuntimeStoppedBeforeScope, Unserved
<1>0. TypeOK  BY DEF TypeInv
<1>1. ASSUME main \in {"serving", "draining"}, EnterStopping,
             UNCHANGED <<handlers, forcedUnready, published, startupFailing, requestVars,
                         finaliserVars, drainCall, exitVars>>
      PROVE  ControlInv'
  <2>1. phase' = "stopping"  BY <1>0, <1>1, AdvancedTo DEF EnterStopping
  <2>2. stopping = "none" /\ result = "none" /\ stopping' = "stopped"
    BY <1>1 DEF EnterStopping, ArmStop
  <2>3. QED  BY <1>1, <2>1, <2>2 DEF EnterStopping
<1>2. CASE FinishAborting  BY <1>1, <1>2 DEF FinishAborting
<1>3. CASE BeginDrain
  <2>1. phase' = "draining"  BY <1>0, <1>3, AdvancedTo DEF BeginDrain
  <2>2. QED  BY <1>3, <2>1 DEF BeginDrain
<1>4. CASE PreDrainOver  BY <1>4 DEF PreDrainOver
<1>5. CASE DrainCallSettles  BY <1>5 DEF DrainCallSettles
<1>6. CASE DrainedIdle  BY <1>1, <1>6 DEF DrainedIdle, SettleDrain
<1>7. CASE DrainDeadline  BY <1>1, <1>7 DEF DrainDeadline, SettleDrain
<1>8. CASE DrainDefects
  <2>0. "defect" \in Failures  BY DEF Failures
  <2>1. /\ phase' = IF phase = "exited" THEN "exited" ELSE "stopping"
        /\ published' # "pending"
        /\ stopping' = IF stopping = "none" THEN "defect" ELSE stopping
        /\ main' = "closing" /\ result' = "defect"
        /\ startupFailing' = (startupFailing \/ phase = "starting")
        /\ UNCHANGED <<handlers, forcedUnready>>
    BY <1>0, <1>8, <2>0, LeaveFailedEffect DEF DrainDefects
  <2>2. QED  BY <1>8, <2>1 DEF DrainDefects
<1>9. CASE ServingStopped  BY <1>9 DEF ServingStopped
<1>10. CASE ServingStopDefects
  <2>0. "defect" \in Failures  BY DEF Failures
  <2>1. /\ phase' = IF phase = "exited" THEN "exited" ELSE "stopping"
        /\ published' # "pending"
        /\ stopping' = IF stopping = "none" THEN "defect" ELSE stopping
        /\ main' = "closing" /\ result' = "defect"
        /\ startupFailing' = (startupFailing \/ phase = "starting")
        /\ UNCHANGED <<handlers, forcedUnready>>
    BY <1>0, <1>10, <2>0, LeaveFailedEffect DEF ServingStopDefects
  <2>2. QED  BY <1>10, <2>1 DEF ServingStopDefects
<1>11. ASSUME NEW ok \in BOOLEAN, Release(ok)
       PROVE  ControlInv'
  BY <1>11 DEF Release
<1>12. CASE ScopeSettles
  <2>1. result \in Failures \cup {"stopped", "abandoned"}
    BY <1>0, <1>12 DEF ScopeSettles, TypeOK
  <2>2. exited'.kind # "pending"
    BY <1>12, <2>1, AnswerSettles, ExitSettles DEF ScopeSettles
  <2>3. phase' = "exited" /\ handlers' = FALSE
    BY <1>0, <1>12, AdvancedTo DEF ScopeSettles, DisposeAll
  <2>4. published' # "pending"  BY <1>12 DEF ScopeSettles
  <2>5. QED  BY <1>12, <2>2, <2>3, <2>4 DEF ScopeSettles
<1>13. CASE StopAbandoned
  <2>1. stopping \in Failures \cup {"stopped", "abandoned"}
    BY <1>0, <1>13 DEF StopAbandoned, TypeOK
  <2>2. exited'.kind # "pending"
    BY <1>13, <2>1, AnswerSettles, ExitSettles DEF StopAbandoned
  <2>3. phase' = "exited" /\ handlers' = FALSE
    BY <1>0, <1>13, AdvancedTo DEF StopAbandoned, DisposeAll
  <2>4. QED  BY <1>13, <2>2, <2>3 DEF StopAbandoned
<1>14. CASE StopWithdrawn  BY <1>14 DEF StopWithdrawn
<1>15. QED
  BY <1>2, <1>3, <1>4, <1>5, <1>6, <1>7, <1>8, <1>9, <1>10, <1>11, <1>12, <1>13, <1>14
  DEF Ending

LEMMA ControlStep == TypeInv /\ ControlInv /\ [Next]_vars => ControlInv'
<1> SUFFICES ASSUME TypeInv, ControlInv, [Next]_vars
             PROVE  ControlInv'
  OBVIOUS
<1> USE DEF registryVars, trackerVars, requestVars, finaliserVars, scopeVars, callVars,
            runtimeVars, stopVars, exitVars, ControlInv, PhaseFollowsControl,
            RuntimeFollowsControl, ExitFollowsPhase, AbandonedBuildExits,
            PublishedWhenServed, StopArmedAfterServing, FailureBeforeCrash,
            RuntimeStoppedBeforeScope, Unserved
<1>0. TypeOK  BY DEF TypeInv
<1>1. CASE Units
  BY <1>1 DEF Units, RunUnit, SettleUnit
<1>2. CASE UNCHANGED vars
  BY <1>2 DEF vars
<1>3. QED
  BY <1>1, <1>2, ControlRequests, ControlStarting, ControlEnding DEF Next

LEMMA ControlCorrect == Spec => [](TypeInv /\ ControlInv)
<1>1. Init => TypeInv /\ ControlInv  BY TypeInit, ControlInit
<1>2. TypeInv /\ ControlInv /\ [Next]_vars => (TypeInv /\ ControlInv)'
  BY TypeStep, ControlStep
<1>3. QED  BY <1>1, <1>2, PTL DEF Spec

\* runtimeInfo() never leaves a caller waiting once the lifecycle has exited, whichever of
\* its ways out it took.
THEOREM RuntimeInfoAlwaysSettled == Spec => []RuntimeInfoSettled
<1>1. ControlInv => RuntimeInfoSettled
  BY DEF ControlInv, PublishedWhenServed, RuntimeInfoSettled
<1>2. QED  BY <1>1, ControlCorrect, PTL

\* No finaliser of the application scope runs under a live runtime, unless the runtime's own
\* drain() defected.
THEOREM ScopeClosesUnderStoppedRuntime == Spec => []RuntimeStoppedBeforeScope
<1>1. ControlInv => RuntimeStoppedBeforeScope
  BY DEF ControlInv, RuntimeFollowsControl
<1>2. QED  BY <1>1, ControlCorrect, PTL

\* Every way out of a half-built graph settles runtimeInfo() and closes the scope only under
\* a runtime that is stopped.
THEOREM WaysOutAlwaysComplete == Spec => []WaysOutLeaveNothing
<1>1. RuntimeInfoSettled /\ RuntimeStoppedBeforeScope => WaysOutLeaveNothing
  BY DEF WaysOutLeaveNothing
<1>2. QED  BY <1>1, RuntimeInfoAlwaysSettled, ScopeClosesUnderStoppedRuntime, PTL

-----------------------------------------------------------------------------
(* Crashes.                                                                 *)

LEMMA UncaughtReportIs70 ==
  ASSUME NEW r, NEW d, NEW at, crashed \/ r = "uncaught"
  PROVE  CodeFor(ReportOf(r, d, at)) = 70
BY DEF CodeFor, ReportOf

LEMMA CrashedAnswerIs70 ==
  ASSUME crashed, NEW held \in {"defect", "stopped", "abandoned"}, NEW at
  PROVE  CodeFor(Answer(held, at)) = 70
<1>1. CASE held = "defect"
  BY <1>1 DEF Answer, Failures, CodeFor, Failed
<1>2. CASE held = "stopped"
  <2>1. Answer(held, at) = ReportOf(reason, reason = "signal", at)
    BY <1>2 DEF Answer, Failures
  <2>2. QED  BY <2>1, UncaughtReportIs70
<1>3. CASE held = "abandoned"
  <2>1. Answer(held, at) = ReportOf(abandonedBuild, FALSE, at)
    BY <1>3 DEF Answer, Failures
  <2>2. QED  BY <2>1, UncaughtReportIs70
<1>4. QED  BY <1>1, <1>2, <1>3

LEMMA CrashRequests ==
  TypeInv /\ ControlInv /\ CrashExits70 /\ Requests => CrashExits70'
<1> SUFFICES ASSUME TypeInv, ControlInv, CrashExits70, Requests
             PROVE  CrashExits70'
  OBVIOUS
<1> USE DEF scopeVars, finaliserVars, exitVars, CrashExits70
<1>0. TypeOK /\ ExitFollowsPhase  BY DEF TypeInv, ControlInv
<1>1. CASE FirstSignal  BY <1>1 DEF FirstSignal
<1>2. CASE SecondSignal
  <2>1. AbandonBuild("signal", <<>>)  BY <1>2 DEF SecondSignal
  <2>2. exited.kind = "pending"  BY <1>0, <1>2 DEF SecondSignal, ExitFollowsPhase
  <2>3. CASE Abandonable("signal") /\ main # "binding"
    <3>1. BuildAbandoned("signal", <<>>)  BY <1>0, <2>1, <2>3, AbandonBuildEffect
    <3>2. exitCode' = CodeFor(ReportOf("signal", FALSE, "build"))
      BY <1>0, <2>2, <3>1, BuildAbandonedEffect
    <3>3. crashed => exitCode' = 70  BY <3>2, UncaughtReportIs70
    <3>4. QED  BY <1>2, <3>3 DEF SecondSignal
  <2>4. CASE ~(Abandonable("signal") /\ main # "binding")
    <3>1. UNCHANGED exitVars  BY <1>0, <2>1, <2>4, AbandonBuildEffect
    <3>2. QED  BY <2>2, <3>1
  <2>5. QED  BY <2>3, <2>4
<1>3. CASE Uncaught
  <2>1. AbandonBuild("uncaught", <<"uncaught">>)  BY <1>3 DEF Uncaught
  <2>2. exited.kind = "pending"  BY <1>0, <1>3 DEF Uncaught, ExitFollowsPhase
  <2>3. CASE Abandonable("uncaught") /\ main # "binding"
    <3>1. BuildAbandoned("uncaught", <<"uncaught">>)
      BY <1>0, <2>1, <2>3, AbandonBuildEffect
    <3>2. exitCode' = CodeFor(ReportOf("uncaught", FALSE, "build"))
      BY <1>0, <2>2, <3>1, BuildAbandonedEffect
    <3>3. exitCode' = 70  BY <3>2, UncaughtReportIs70
    <3>4. QED  BY <3>3
  <2>4. CASE ~(Abandonable("uncaught") /\ main # "binding")
    <3>1. UNCHANGED exitVars  BY <1>0, <2>1, <2>4, AbandonBuildEffect
    <3>2. QED  BY <2>2, <3>1
  <2>5. QED  BY <2>3, <2>4
<1>4. ASSUME NEW r \in {"signal", "runtimeStopped"}, CallerRequests(r)
      PROVE  CrashExits70'
  BY <1>4 DEF CallerRequests
<1>5. CASE RuntimeStopped  BY <1>5 DEF RuntimeStopped
<1>6. QED  BY <1>1, <1>2, <1>3, <1>4, <1>5 DEF Requests

\* While it starts, a crashed lifecycle has only the probe bind left to fail.
LEMMA CrashStarting ==
  TypeInv /\ ControlInv /\ CrashExits70 /\ Starting => CrashExits70'
<1> SUFFICES ASSUME TypeInv, ControlInv, CrashExits70, Starting
             PROVE  CrashExits70'
  OBVIOUS
<1> USE DEF requestVars, scopeVars, finaliserVars, exitVars, CrashExits70
<1>0. TypeOK /\ ExitFollowsPhase /\ PhaseFollowsControl /\ StopArmedAfterServing
  BY DEF TypeInv, ControlInv
<1>1. CASE ProbesUp
  <2>1. CASE abandonedBuild # "none"
    <3>1. BuildAbandoned(abandonedBuild, <<>>)  BY <1>1, <2>1 DEF ProbesUp
    <3>2. exited.kind = "pending"
      BY <1>0, <1>1 DEF ProbesUp, ExitFollowsPhase, PhaseFollowsControl
    <3>3. exitCode' = CodeFor(ReportOf(abandonedBuild, FALSE, "build"))
      BY <1>0, <3>1, <3>2, BuildAbandonedEffect
    <3>4. crashed => exitCode' = 70  BY <3>3, UncaughtReportIs70
    <3>5. QED  BY <1>1, <3>4 DEF ProbesUp
  <2>2. CASE abandonedBuild = "none"
    BY <1>0, <1>1, <2>2 DEF ProbesUp, ExitFollowsPhase, PhaseFollowsControl
  <2>3. QED  BY <2>1, <2>2
<1>2. ASSUME NEW f \in {"config", "err"}, ProbesFail(f)
      PROVE  CrashExits70'
  BY <1>0, <1>2 DEF ProbesFail, StopArmedAfterServing
<1>3. CASE Acquire  BY <1>3 DEF Acquire
<1>4. ASSUME NEW f \in Failures, ConstructionFails(f)
      PROVE  CrashExits70'
  BY <1>4 DEF ConstructionFails, LeaveFailed
<1>5. CASE ServeAbandoned  BY <1>5 DEF ServeAbandoned
<1>6. CASE StartRuntime  BY <1>6 DEF StartRuntime
<1>7. ASSUME NEW f \in Failures, RuntimeRefuses(f)
      PROVE  CrashExits70'
  BY <1>7 DEF RuntimeRefuses, LeaveFailed
<1>8. CASE RuntimeServes  BY <1>8 DEF RuntimeServes
<1>9. CASE RuntimeUpTooLate  BY <1>9 DEF RuntimeUpTooLate
<1>10. QED
  BY <1>1, <1>2, <1>3, <1>4, <1>5, <1>6, <1>7, <1>8, <1>9 DEF Starting

LEMMA CrashEnding ==
  TypeInv /\ ControlInv /\ CrashExits70 /\ Ending => CrashExits70'
<1> SUFFICES ASSUME TypeInv, ControlInv, CrashExits70, Ending
             PROVE  CrashExits70'
  OBVIOUS
<1> USE DEF requestVars, scopeVars, finaliserVars, exitVars, CrashExits70
<1>0. TypeOK /\ ExitFollowsPhase /\ PhaseFollowsControl /\ FailureBeforeCrash
  BY DEF TypeInv, ControlInv
<1>1. CASE FinishAborting  BY <1>1 DEF FinishAborting, EnterStopping
<1>2. CASE BeginDrain  BY <1>2 DEF BeginDrain
<1>3. CASE PreDrainOver  BY <1>3 DEF PreDrainOver
<1>4. CASE DrainCallSettles  BY <1>4 DEF DrainCallSettles
<1>5. CASE DrainedIdle  BY <1>5 DEF DrainedIdle, SettleDrain, EnterStopping
<1>6. CASE DrainDeadline  BY <1>6 DEF DrainDeadline, SettleDrain, EnterStopping
<1>7. CASE DrainDefects  BY <1>7 DEF DrainDefects, LeaveFailed
<1>8. CASE ServingStopped  BY <1>8 DEF ServingStopped
<1>9. CASE ServingStopDefects  BY <1>9 DEF ServingStopDefects, LeaveFailed
<1>10. ASSUME NEW ok \in BOOLEAN, Release(ok)
       PROVE  CrashExits70'
  BY <1>10 DEF Release
<1>11. CASE ScopeSettles
  <2>1. Exit(Answer(result, "none"))  BY <1>11 DEF ScopeSettles
  <2>2. result \in Failures \cup {"stopped", "abandoned"}
    BY <1>0, <1>11 DEF ScopeSettles, TypeInv, TypeOK
  <2>3. Answer(result, "none").kind # "pending"  BY <2>2, AnswerSettles
  <2>4. CASE crashed /\ exited.kind = "pending"
    <3>1. result \in {"defect", "stopped", "abandoned"}
      BY <1>0, <2>2, <2>4 DEF ExitFollowsPhase, FailureBeforeCrash, Failures
    <3>2. CodeFor(Answer(result, "none")) = 70  BY <2>4, <3>1, CrashedAnswerIs70
    <3>3. exitCode' = CodeFor(Answer(result, "none"))  BY <2>1, <2>3, <2>4, ExitSettles
    <3>4. QED  BY <3>2, <3>3
  <2>5. CASE ~(crashed /\ exited.kind = "pending")
    <3>1. exited.kind # "pending" => UNCHANGED exitVars  BY <2>1, <2>3, ExitSettles
    <3>2. QED  BY <1>11, <2>5, <3>1 DEF ScopeSettles
  <2>6. QED  BY <2>4, <2>5
<1>12. CASE StopAbandoned
  <2>1. Exit(Answer(stopping, "stop"))  BY <1>12 DEF StopAbandoned
  <2>2. stopping \in Failures \cup {"stopped", "abandoned"}
    BY <1>0, <1>12 DEF StopAbandoned, TypeOK
  <2>3. Answer(stopping, "stop").kind # "pending"  BY <2>2, AnswerSettles
  <2>4. CASE crashed /\ exited.kind = "pending"
    <3>1. stopping \in {"defect", "stopped", "abandoned"}
      BY <1>0, <2>2, <2>4 DEF ExitFollowsPhase, FailureBeforeCrash, Failures
    <3>2. CodeFor(Answer(stopping, "stop")) = 70  BY <2>4, <3>1, CrashedAnswerIs70
    <3>3. exitCode' = CodeFor(Answer(stopping, "stop"))  BY <2>1, <2>3, <2>4, ExitSettles
    <3>4. QED  BY <3>2, <3>3
  <2>5. CASE ~(crashed /\ exited.kind = "pending")
    <3>1. exited.kind # "pending" => UNCHANGED exitVars  BY <2>1, <2>3, ExitSettles
    <3>2. QED  BY <1>12, <2>5, <3>1 DEF StopAbandoned
  <2>6. QED  BY <2>4, <2>5
<1>13. CASE StopWithdrawn  BY <1>13 DEF StopWithdrawn
<1>14. QED
  BY <1>1, <1>2, <1>3, <1>4, <1>5, <1>6, <1>7, <1>8, <1>9, <1>10, <1>11, <1>12, <1>13
  DEF Ending

\* A process that crashes while the kernel holds its handlers exits 70, for every graph,
\* every number of units and every interleaving, except over a probe port that cannot bind.
THEOREM CrashAlwaysExits70 == Spec => []CrashExits70
<1>1. Init => CrashExits70  BY DEF Init, CrashExits70
<1>2. TypeInv /\ ControlInv /\ CrashExits70 /\ [Next]_vars => CrashExits70'
  <2> SUFFICES ASSUME TypeInv, ControlInv, CrashExits70, [Next]_vars
               PROVE  CrashExits70'
    OBVIOUS
  <2>1. CASE Units
    BY <2>1 DEF Units, RunUnit, SettleUnit, CrashExits70, requestVars, scopeVars,
                finaliserVars, exitVars
  <2>2. CASE UNCHANGED vars
    BY <2>2 DEF vars, CrashExits70, requestVars, scopeVars, finaliserVars, exitVars
  <2>3. QED
    BY <2>1, <2>2, CrashRequests, CrashStarting, CrashEnding DEF Next
<1>3. QED  BY <1>1, <1>2, ControlCorrect, PTL DEF Spec

-----------------------------------------------------------------------------
(* The exit code 0.                                                         *)

\* Only a drain that a signal asked for counts what it abandoned.
DrainIsOfASignal ==
  /\ main \in {"preDrain", "draining"} \/ drain.by # "none" => reason = "signal"
  /\ drain.by = "none" => drain.abandoned = 0

\* A chain that ends as stopped has stopped its runtime.
StoppedWithItsRuntime ==
  main \in {"closing", "settled"} /\ result = "stopped" => runtime = "stopped"

\* The code 0 was given by the chain that settled as stopped, and to no other outcome.
CleanInv ==
  /\ DrainIsOfASignal /\ StoppedWithItsRuntime /\ CleanExitIsClean
  /\ exited.kind # "pending" /\ exitCode = 0 => main = "settled" /\ result = "stopped"

LEMMA GivingUpIsNotClean ==
  ASSUME TypeOK, NEW r, NEW d, NEW at, at # "none"
  PROVE  CodeFor(ReportOf(r, d, at)) # 0
BY DEF CodeFor, ReportOf

LEMMA FailingIsNotClean ==
  ASSUME NEW f \in Failures
  PROVE  CodeFor(Failed(f)) # 0
BY DEF CodeFor, Failed, Failures

LEMMA ZeroIsClean ==
  ASSUME TypeOK, NEW r, NEW d \in BOOLEAN, CodeFor(ReportOf(r, d, "none")) = 0
  PROVE  /\ ~crashed /\ ~unexpected /\ teardownErrors = 0
         /\ d => drain.abandoned = 0
<1>1. drain.abandoned \in Nat /\ teardownErrors \in Nat
  BY FinaliserAssumption DEF TypeOK, DrainRecords
<1>2. QED  BY <1>1 DEF CodeFor, ReportOf

\* What the steps that settle nothing and end no drain leave of it.
LEMMA CleanKept ==
  ASSUME TypeInv, ControlInv, CleanInv,
         UNCHANGED <<exited, exitCode, drain, result>>,
         main' # "closing" \/ runtime' = runtime, main' = "settled" <=> main = "settled",
         main = "settled" => UNCHANGED <<runtime, acquired, teardownErrors>>,
         main' = "closing" => main = "closing" \/ result # "stopped",
         main' \in {"preDrain", "draining"} => reason = "signal",
         reason # "none" => reason' = reason,
         exited.kind # "pending" => crashed' = crashed,
         reason # "none" => unexpected' = unexpected
  PROVE  CleanInv'
<1> USE DEF CleanInv, DrainIsOfASignal, StoppedWithItsRuntime
<1>1. DrainIsOfASignal'  OBVIOUS
<1>2. StoppedWithItsRuntime'  OBVIOUS
<1>3. exited.kind # "pending" /\ exitCode = 0 => reason # "none"
  BY DEF TypeInv
<1>4. CleanExitIsClean'  BY <1>3 DEF CleanExitIsClean
<1>5. QED  BY <1>1, <1>2, <1>4

LEMMA CleanRequests == TypeInv /\ ControlInv /\ CleanInv /\ Requests => CleanInv'
<1> SUFFICES ASSUME TypeInv, ControlInv, CleanInv, Requests
             PROVE  CleanInv'
  OBVIOUS
<1> USE DEF scopeVars, finaliserVars, runtimeVars, callVars, exitVars
<1>0. TypeOK /\ ExitFollowsPhase  BY DEF TypeInv, ControlInv
<1>1. CASE FirstSignal
  <2>1. reason # "none" => reason' = reason  BY <1>1 DEF FirstSignal, RequestShutdown
  <2>2. main \in {"preDrain", "draining"} => reason = "signal"
    BY DEF CleanInv, DrainIsOfASignal
  <2>3. QED  BY <1>1, <2>1, <2>2, CleanKept DEF FirstSignal
<1>2. ASSUME NEW r \in {"signal", "uncaught"}, NEW said, AbandonBuild(r, said), handlers,
             UNCHANGED <<scopeVars, runtimeVars, unexpected>>,
             reason # "none" => reason' = reason
      PROVE  CleanInv'
  <2>1. exited.kind = "pending"  BY <1>0, <1>2 DEF ExitFollowsPhase
  <2>2. main \in {"preDrain", "draining"} => reason = "signal"
    BY DEF CleanInv, DrainIsOfASignal
  <2>3. CASE Abandonable(r) /\ main # "binding"
    <3>1. BuildAbandoned(r, said)  BY <1>2, <2>3 DEF AbandonBuild
    <3>2. exitCode' = CodeFor(ReportOf(r, FALSE, "build"))
      BY <1>0, <2>1, <3>1, BuildAbandonedEffect
    <3>3. exitCode' # 0  BY <1>0, <3>2, GivingUpIsNotClean
    <3>4. DrainIsOfASignal'  BY <1>2 DEF CleanInv, DrainIsOfASignal
    <3>5. StoppedWithItsRuntime'  BY <1>2 DEF CleanInv, StoppedWithItsRuntime
    <3>6. QED  BY <3>3, <3>4, <3>5 DEF CleanInv, CleanExitIsClean
  <2>4. CASE ~(Abandonable(r) /\ main # "binding")
    <3>1. CASE Abandonable(r)
      <4>1. main = "binding"  BY <2>4, <3>1
      <4>2. UNCHANGED exitVars  BY <1>2, <3>1, <4>1 DEF AbandonBuild
      <4>3. QED  BY <1>2, <2>1, <2>2, <4>2, CleanKept
    <3>2. CASE ~Abandonable(r)
      <4>1. UNCHANGED exitVars  BY <1>2, <3>2 DEF AbandonBuild
      <4>2. QED  BY <1>2, <2>1, <2>2, <4>1, CleanKept
    <3>3. QED  BY <3>1, <3>2
  <2>5. QED  BY <2>3, <2>4
<1>3. CASE SecondSignal  BY <1>2, <1>3 DEF SecondSignal
<1>4. CASE Uncaught
  <2>1. reason # "none" => reason' = reason  BY <1>4 DEF Uncaught, RequestShutdown
  <2>2. QED  BY <1>2, <1>4, <2>1 DEF Uncaught
<1>5. ASSUME NEW r \in {"signal", "runtimeStopped"}, CallerRequests(r)
      PROVE  CleanInv'
  <2>1. reason # "none" => reason' = reason  BY <1>5 DEF CallerRequests, ShutdownRequested
  <2>2. main \in {"preDrain", "draining"} => reason = "signal"
    BY DEF CleanInv, DrainIsOfASignal
  <2>3. QED  BY <1>5, <2>1, <2>2, CleanKept DEF CallerRequests
<1>6. CASE RuntimeStopped
  <2>1. reason # "none" => reason' = reason /\ unexpected' = unexpected
    BY <1>0, <1>6 DEF RuntimeStopped, RequestShutdown, ShutdownRequested, TypeOK
  <2>2. main \in {"preDrain", "draining"} => reason = "signal"
    BY DEF CleanInv, DrainIsOfASignal
  <2>3. QED  BY <1>6, <2>1, <2>2, CleanKept DEF RuntimeStopped
<1>7. QED  BY <1>1, <1>3, <1>4, <1>5, <1>6 DEF Requests

LEMMA CleanStarting == TypeInv /\ ControlInv /\ CleanInv /\ Starting => CleanInv'
<1> SUFFICES ASSUME TypeInv, ControlInv, CleanInv, Starting
             PROVE  CleanInv'
  OBVIOUS
<1> USE DEF requestVars, scopeVars, finaliserVars, runtimeVars, callVars, exitVars
<1>0. TypeOK /\ ExitFollowsPhase /\ PhaseFollowsControl  BY DEF TypeInv, ControlInv
<1>00. DrainIsOfASignal /\ StoppedWithItsRuntime  BY DEF CleanInv
<1>1. CASE ProbesUp
  <2>1. CASE abandonedBuild # "none"
    <3>1. BuildAbandoned(abandonedBuild, <<>>)  BY <1>1, <2>1 DEF ProbesUp
    <3>2. exited.kind = "pending"
      BY <1>0, <1>1 DEF ProbesUp, ExitFollowsPhase, PhaseFollowsControl
    <3>3. exitCode' = CodeFor(ReportOf(abandonedBuild, FALSE, "build"))
      BY <1>0, <3>1, <3>2, BuildAbandonedEffect
    <3>4. exitCode' # 0  BY <1>0, <3>3, GivingUpIsNotClean
    <3>5. DrainIsOfASignal' /\ StoppedWithItsRuntime'
      BY <1>00, <1>1 DEF ProbesUp, DrainIsOfASignal, StoppedWithItsRuntime
    <3>6. QED  BY <3>4, <3>5 DEF CleanInv, CleanExitIsClean
  <2>2. CASE abandonedBuild = "none"
    BY <1>0, <1>1, <2>2, CleanKept DEF ProbesUp
  <2>3. QED  BY <2>1, <2>2
<1>2. ASSUME NEW f \in {"config", "err"}, ProbesFail(f)
      PROVE  CleanInv'
  <2>1. Exit(Failed(f)) /\ Failed(f).kind # "pending"  BY <1>2 DEF ProbesFail, Failed
  <2>2. exited.kind = "pending"
    BY <1>0, <1>2 DEF ProbesFail, ExitFollowsPhase, PhaseFollowsControl
  <2>3. exitCode' = CodeFor(Failed(f))  BY <2>1, <2>2, ExitSettles
  <2>4. exitCode' # 0  BY <2>3, FailingIsNotClean DEF Failures
  <2>5. DrainIsOfASignal' /\ StoppedWithItsRuntime'
    BY <1>00, <1>2 DEF ProbesFail, DrainIsOfASignal, StoppedWithItsRuntime
  <2>6. QED  BY <2>4, <2>5 DEF CleanInv, CleanExitIsClean
<1>3. ASSUME exited.kind = "pending" \/ exitCode # 0, UNCHANGED <<exitVars, drain, reason>>,
             main \notin {"preDrain", "draining"}, main' \notin {"preDrain", "draining"},
             result' # "stopped" \/ main' \notin {"closing", "settled"}
      PROVE  CleanInv'
  <2>1. DrainIsOfASignal' /\ StoppedWithItsRuntime'
    BY <1>00, <1>3 DEF DrainIsOfASignal, StoppedWithItsRuntime
  <2>2. QED  BY <1>3, <2>1 DEF CleanInv, CleanExitIsClean
<1>4. main # "settled" => exited.kind = "pending" \/ exitCode # 0  BY DEF CleanInv
<1>5. main \in {"building", "starting"} => result # "stopped"
  BY DEF ControlInv, StopArmedAfterServing
<1>6. CASE Acquire  BY <1>3, <1>4, <1>6 DEF Acquire
<1>7. ASSUME NEW f \in Failures, ConstructionFails(f)
      PROVE  CleanInv'
  BY <1>3, <1>4, <1>7 DEF ConstructionFails, LeaveFailed, Failures
<1>8. CASE ServeAbandoned  BY <1>3, <1>4, <1>8 DEF ServeAbandoned
<1>9. CASE StartRuntime  BY <1>3, <1>4, <1>9 DEF StartRuntime
<1>10. ASSUME NEW f \in Failures, RuntimeRefuses(f)
       PROVE  CleanInv'
  BY <1>3, <1>4, <1>10 DEF RuntimeRefuses, LeaveFailed, Failures
<1>11. CASE RuntimeServes  BY <1>3, <1>4, <1>11 DEF RuntimeServes
<1>12. CASE RuntimeUpTooLate  BY <1>3, <1>4, <1>12 DEF RuntimeUpTooLate
<1>13. QED
  BY <1>1, <1>2, <1>6, <1>7, <1>8, <1>9, <1>10, <1>11, <1>12 DEF Starting

LEMMA CleanEnding == TypeInv /\ ControlInv /\ CleanInv /\ Ending => CleanInv'
<1> SUFFICES ASSUME TypeInv, ControlInv, CleanInv, Ending
             PROVE  CleanInv'
  OBVIOUS
<1> USE DEF requestVars, scopeVars, finaliserVars, runtimeVars, callVars, exitVars
<1>0. TypeOK /\ ExitFollowsPhase /\ StopArmedAfterServing  BY DEF TypeInv, ControlInv
<1>00. DrainIsOfASignal /\ StoppedWithItsRuntime /\ CleanExitIsClean  BY DEF CleanInv
<1>1. main # "settled" => exited.kind = "pending" \/ exitCode # 0  BY DEF CleanInv
\* Before the chain settles, a step that settles nothing only has the drain to account for.
<1>2. ASSUME main # "settled", UNCHANGED exitVars, DrainIsOfASignal', StoppedWithItsRuntime'
      PROVE  CleanInv'
  BY <1>1, <1>2 DEF CleanInv, CleanExitIsClean
<1>3. CASE FinishAborting
  <2>1. main = "serving" /\ main' = "stopping" /\ UNCHANGED <<drain, reason, exitVars>>
    BY <1>3 DEF FinishAborting, EnterStopping
  <2>2. QED  BY <1>00, <1>2, <2>1 DEF DrainIsOfASignal, StoppedWithItsRuntime
<1>4. CASE BeginDrain
  <2>1. /\ main = "serving" /\ main' = "preDrain" /\ reason = "signal" /\ reason' = reason
        /\ drain'.abandoned = drain.abandoned /\ UNCHANGED exitVars
    BY <1>0, <1>4 DEF BeginDrain, TypeOK, DrainRecords
  <2>2. drain'.by = drain.by  BY <1>0, <1>4 DEF BeginDrain, TypeOK, DrainRecords
  <2>3. QED  BY <1>00, <1>2, <2>1, <2>2 DEF DrainIsOfASignal, StoppedWithItsRuntime
<1>5. CASE PreDrainOver
  BY <1>00, <1>2, <1>5 DEF PreDrainOver, DrainIsOfASignal, StoppedWithItsRuntime
<1>6. CASE DrainCallSettles
  BY <1>00, <1>2, <1>6 DEF DrainCallSettles, DrainIsOfASignal, StoppedWithItsRuntime
<1>7. ASSUME NEW by \in {"idle", "deadline"}, main = "draining", SettleDrain(by)
      PROVE  CleanInv'
  <2>1. drain'.by = by  BY <1>0, <1>7 DEF SettleDrain, TypeOK, DrainRecords
  <2>2. reason' = "signal" /\ main' = "stopping" /\ UNCHANGED exitVars
    BY <1>00, <1>7 DEF SettleDrain, EnterStopping, DrainIsOfASignal
  <2>3. QED  BY <1>2, <1>7, <2>1, <2>2 DEF DrainIsOfASignal, StoppedWithItsRuntime
<1>8. CASE DrainedIdle  BY <1>7, <1>8 DEF DrainedIdle
<1>9. CASE DrainDeadline  BY <1>7, <1>9 DEF DrainDeadline
<1>10. CASE DrainDefects
  <2>1. main = "draining" /\ main' = "closing" /\ result' = "defect"
    BY <1>10 DEF DrainDefects, LeaveFailed
  <2>2. UNCHANGED <<drain, reason, exitVars>>  BY <1>10 DEF DrainDefects
  <2>3. QED  BY <1>00, <1>2, <2>1, <2>2 DEF DrainIsOfASignal, StoppedWithItsRuntime
<1>11. CASE ServingStopped
  BY <1>00, <1>2, <1>11 DEF ServingStopped, DrainIsOfASignal, StoppedWithItsRuntime
<1>12. CASE ServingStopDefects
  <2>1. main = "stopping" /\ main' = "closing" /\ result' = "defect"
    BY <1>12 DEF ServingStopDefects, LeaveFailed
  <2>2. UNCHANGED <<drain, reason, exitVars>>  BY <1>12 DEF ServingStopDefects
  <2>3. QED  BY <1>00, <1>2, <2>1, <2>2 DEF DrainIsOfASignal, StoppedWithItsRuntime
<1>13. ASSUME NEW ok \in BOOLEAN, Release(ok)
       PROVE  CleanInv'
  BY <1>00, <1>2, <1>13 DEF Release, DrainIsOfASignal, StoppedWithItsRuntime
<1>14. CASE ScopeSettles
  <2>1. /\ main = "closing" /\ main' = "settled" /\ acquired = 0
        /\ UNCHANGED <<drain, reason, result, runtime, crashed, unexpected, acquired, teardownErrors>>
    BY <1>14 DEF ScopeSettles
  <2>2. DrainIsOfASignal' /\ StoppedWithItsRuntime'
    BY <1>00, <2>1 DEF DrainIsOfASignal, StoppedWithItsRuntime
  <2>3. Exit(Answer(result, "none"))  BY <1>14 DEF ScopeSettles
  <2>4. result \in Failures \cup {"stopped", "abandoned"}
    BY <1>0, <2>1 DEF TypeInv, TypeOK
  <2>5. Answer(result, "none").kind # "pending"  BY <2>4, AnswerSettles
  <2>6. CASE exited.kind # "pending"
    <3>1. UNCHANGED exitVars  BY <2>3, <2>5, <2>6, ExitSettles
    <3>2. exitCode' # 0  BY <1>1, <2>1, <2>6, <3>1
    <3>3. QED  BY <2>2, <3>2 DEF CleanInv, CleanExitIsClean
  <2>7. CASE exited.kind = "pending"
    <3>1. exitCode' = CodeFor(Answer(result, "none"))  BY <2>3, <2>5, <2>7, ExitSettles
    <3>2. result # "abandoned"  BY <1>0, <2>7 DEF ExitFollowsPhase, StopArmedAfterServing
    <3>3. CASE result \in Failures
      <4>1. Answer(result, "none") = Failed(result)  BY <3>3, AnswerOfFailure
      <4>2. exitCode' # 0  BY <3>1, <3>3, <4>1, FailingIsNotClean
      <4>3. QED  BY <2>2, <4>2 DEF CleanInv, CleanExitIsClean
    <3>4. CASE result = "stopped"
      <4>1. Answer(result, "none") = ReportOf(reason, reason = "signal", "none")
        BY <3>4 DEF Answer, Failures
      <4>2. exitCode' = 0 => /\ ~crashed /\ ~unexpected /\ teardownErrors = 0
                             /\ reason = "signal" => drain.abandoned = 0
        BY <1>0, <3>1, <4>1, ZeroIsClean
      <4>3. exitCode' = 0 => drain.abandoned = 0  BY <1>00, <4>2 DEF DrainIsOfASignal
      <4>4. runtime = "stopped"  BY <1>00, <2>1, <3>4 DEF StoppedWithItsRuntime
      <4>5. QED  BY <2>1, <2>2, <3>4, <4>2, <4>3, <4>4 DEF CleanInv, CleanExitIsClean
    <3>5. QED  BY <2>4, <3>2, <3>3, <3>4
  <2>8. QED  BY <2>6, <2>7
<1>15. CASE StopAbandoned
  <2>1. UNCHANGED <<main, result, runtime, drain, reason>>  BY <1>15 DEF StopAbandoned
  <2>2. DrainIsOfASignal' /\ StoppedWithItsRuntime'
    BY <1>00, <2>1 DEF DrainIsOfASignal, StoppedWithItsRuntime
  <2>3. Exit(Answer(stopping, "stop"))  BY <1>15 DEF StopAbandoned
  <2>4. stopping \in Failures \cup {"stopped"}  BY <1>0, <1>15 DEF StopAbandoned, TypeOK
  <2>5. Answer(stopping, "stop").kind # "pending"  BY <2>4, AnswerSettles
  <2>6. CASE exited.kind # "pending"
    <3>1. UNCHANGED exitVars  BY <2>3, <2>5, <2>6, ExitSettles
    <3>2. UNCHANGED <<crashed, unexpected, acquired, teardownErrors>>
      BY <1>15 DEF StopAbandoned
    <3>3. QED  BY <2>1, <2>2, <3>1, <3>2 DEF CleanInv, CleanExitIsClean
  <2>7. CASE exited.kind = "pending"
    <3>1. exitCode' = CodeFor(Answer(stopping, "stop"))  BY <2>3, <2>5, <2>7, ExitSettles
    <3>2. CASE stopping \in Failures
      <4>1. Answer(stopping, "stop") = Failed(stopping)  BY <3>2, AnswerOfFailure
      <4>2. exitCode' # 0  BY <3>1, <3>2, <4>1, FailingIsNotClean
      <4>3. QED  BY <2>2, <4>2 DEF CleanInv, CleanExitIsClean
    <3>3. CASE stopping = "stopped"
      <4>1. Answer(stopping, "stop") = ReportOf(reason, reason = "signal", "stop")
        BY <3>3 DEF Answer, Failures
      <4>2. exitCode' # 0  BY <1>0, <3>1, <4>1, GivingUpIsNotClean
      <4>3. QED  BY <2>2, <4>2 DEF CleanInv, CleanExitIsClean
    <3>4. QED  BY <2>4, <3>2, <3>3
  <2>8. QED  BY <2>6, <2>7
<1>16. CASE StopWithdrawn
  BY <1>00, <1>16
  DEF StopWithdrawn, CleanInv, DrainIsOfASignal, StoppedWithItsRuntime, CleanExitIsClean
<1>17. QED
  BY <1>3, <1>4, <1>5, <1>6, <1>8, <1>9, <1>10, <1>11, <1>12, <1>13, <1>14, <1>15, <1>16
  DEF Ending

LEMMA CleanCorrect == Spec => []CleanInv
<1>1. Init => CleanInv
  BY DEF Init, CleanInv, DrainIsOfASignal, StoppedWithItsRuntime, CleanExitIsClean, NoDrain,
         Pending
<1>2. TypeInv /\ ControlInv /\ CleanInv /\ [Next]_vars => CleanInv'
  <2> SUFFICES ASSUME TypeInv, ControlInv, CleanInv, [Next]_vars
               PROVE  CleanInv'
    OBVIOUS
  <2> USE DEF CleanInv, DrainIsOfASignal, StoppedWithItsRuntime, CleanExitIsClean,
              requestVars, scopeVars, finaliserVars, runtimeVars, callVars, exitVars
  <2>1. CASE Units  BY <2>1 DEF Units, RunUnit, SettleUnit
  <2>2. CASE UNCHANGED vars  BY <2>2 DEF vars
  <2>3. QED
    BY <2>1, <2>2, CleanRequests, CleanStarting, CleanEnding DEF Next
<1>3. QED  BY <1>1, <1>2, ControlCorrect, PTL DEF Spec

\* Exit code 0 is given only to a shutdown that was asked for, of a runtime that is stopped,
\* whose finalisers have all run well and that left no unit behind; and what still happens
\* after it does not make it untrue.
THEOREM ZeroOnlyWhenClean == Spec => []CleanExitIsClean
<1>1. CleanInv => CleanExitIsClean  BY DEF CleanInv
<1>2. QED  BY <1>1, CleanCorrect, PTL

\* The exit code tells how the lifecycle went, both of a crash and of a clean end.
THEOREM ExitCodeAlwaysTells == Spec => []ExitCodeTells
<1>1. CrashExits70 /\ CleanExitIsClean => ExitCodeTells  BY DEF ExitCodeTells
<1>2. QED  BY <1>1, CrashAlwaysExits70, ZeroOnlyWhenClean, PTL

-----------------------------------------------------------------------------
(* Refinement.                                                              *)

\* Either of the ways out, seen from outside: the phase ends with an outcome.
LEMMA ExitMaps ==
  ASSUME TypeInv, ExitFollowsPhase, phase \in {"building", "starting", "stopping", "exited"},
         NEW o, o.kind \in {"report", "failed"}, Exit(o), phase' = "exited"
  PROVE  Abstract!Exit \/ UNCHANGED Abstract!lifecycleVars
<1>1. CASE phase = "exited"
  <2>1. exited' = exited
    BY <1>1, ExitSettles DEF ExitFollowsPhase, exitVars
  <2>2. QED  BY <1>1, <2>1 DEF Abstract!lifecycleVars, Ready
<1>2. CASE phase # "exited"
  <2>1. exited.kind = "pending" /\ exited' = o
    BY <1>2, ExitSettles DEF ExitFollowsPhase
  <2>2. QED  BY <1>2, <2>1 DEF Abstract!Exit, Ready
<1>3. QED  BY <1>1, <1>2

LEMMA AnswerMaps ==
  ASSUME NEW held \in Failures \cup {"stopped", "abandoned"}, NEW at
  PROVE  Answer(held, at).kind \in {"report", "failed"}
BY DEF Answer, Failures, Failed, ReportOf

LEMMA BuildAbandonedMaps ==
  ASSUME TypeInv, ExitFollowsPhase, NEW r, NEW said, BuildAbandoned(r, said),
         phase \in {"building", "starting", "stopping", "exited"}
  PROVE  Abstract!Exit \/ UNCHANGED Abstract!lifecycleVars
<1> DEFINE o == ReportOf(r, FALSE, "build")
<1>1. Exit(o) /\ o.kind = "report"  BY DEF BuildAbandoned, ReportOf
<1>2. phase' = "exited"  BY BuildAbandonedEffect DEF TypeInv
<1> HIDE DEF o
<1>3. QED  BY <1>1, <1>2, ExitMaps

\* A failure moves the phase to `stopping` from wherever it is, and never back.
LEMMA LeaveFailedMaps ==
  ASSUME TypeInv, ControlInv, NEW f \in Failures, NEW failing, LeaveFailed(f, failing),
         UNCHANGED exitVars
  PROVE  Abstract!Stop \/ UNCHANGED Abstract!lifecycleVars
<1>1. phase' = IF phase = "exited" THEN "exited" ELSE "stopping"
  BY LeaveFailedEffect DEF TypeInv
<1>2. phase \in Phases  BY DEF TypeInv, TypeOK
<1>3. QED
  BY <1>1, <1>2 DEF Abstract!Stop, Abstract!lifecycleVars, Ready, Phases, exitVars

LEMMA MapRequests ==
  TypeInv /\ ControlInv /\ Requests => Abstract!Next \/ UNCHANGED Abstract!lifecycleVars
<1> SUFFICES ASSUME TypeInv, ControlInv, Requests
             PROVE  Abstract!Next \/ UNCHANGED Abstract!lifecycleVars
  OBVIOUS
<1> USE DEF trackerVars, exitVars, Ready, Abstract!lifecycleVars
<1>0. TypeOK /\ ExitFollowsPhase /\ PhaseFollowsControl
  BY DEF TypeInv, ControlInv
<1>1. CASE FirstSignal  BY <1>1 DEF FirstSignal
<1>2. CASE SecondSignal
  <2>1. AbandonBuild("signal", <<>>)  BY <1>2 DEF SecondSignal
  <2>2. CASE Abandonable("signal") /\ main # "binding"
    <3>1. BuildAbandoned("signal", <<>>)  BY <1>0, <2>1, <2>2, AbandonBuildEffect
    <3>2. phase \in {"building", "starting", "stopping", "exited"}
      BY <2>2 DEF Abandonable
    <3>3. QED  BY <1>0, <3>1, <3>2, BuildAbandonedMaps DEF Abstract!Next
  <2>3. CASE ~(Abandonable("signal") /\ main # "binding")
    <3>1. UNCHANGED <<phase, exited>>  BY <1>0, <2>1, <2>3, AbandonBuildEffect
    <3>2. QED  BY <1>2, <3>1 DEF SecondSignal
  <2>4. QED  BY <2>2, <2>3
<1>3. CASE Uncaught
  <2>1. AbandonBuild("uncaught", <<"uncaught">>)  BY <1>3 DEF Uncaught
  <2>2. CASE Abandonable("uncaught") /\ main # "binding"
    <3>1. BuildAbandoned("uncaught", <<"uncaught">>)
      BY <1>0, <2>1, <2>2, AbandonBuildEffect
    <3>2. phase \in {"building", "starting", "stopping", "exited"}
      BY <2>2 DEF Abandonable, ControlInv, StopArmedAfterServing
    <3>3. QED  BY <1>0, <3>1, <3>2, BuildAbandonedMaps DEF Abstract!Next
  <2>3. CASE ~(Abandonable("uncaught") /\ main # "binding")
    <3>1. UNCHANGED <<phase, exited>>  BY <1>0, <2>1, <2>3, AbandonBuildEffect
    <3>2. forcedUnready' = TRUE  BY <1>3 DEF Uncaught
    <3>3. CASE Ready
      BY <3>1, <3>2, <3>3 DEF Abstract!LoseReadiness, Abstract!Next
    <3>4. CASE ~Ready
      BY <3>1, <3>2, <3>4
    <3>5. QED  BY <3>3, <3>4
  <2>4. QED  BY <2>2, <2>3
<1>4. ASSUME NEW r \in {"signal", "runtimeStopped"}, CallerRequests(r)
      PROVE  UNCHANGED Abstract!lifecycleVars
  BY <1>4 DEF CallerRequests
<1>5. CASE RuntimeStopped  BY <1>5 DEF RuntimeStopped
<1>6. QED  BY <1>1, <1>2, <1>3, <1>4, <1>5 DEF Requests

LEMMA MapStarting ==
  TypeInv /\ ControlInv /\ Starting => Abstract!Next \/ UNCHANGED Abstract!lifecycleVars
<1> SUFFICES ASSUME TypeInv, ControlInv, Starting
             PROVE  Abstract!Next \/ UNCHANGED Abstract!lifecycleVars
  OBVIOUS
<1> USE DEF trackerVars, exitVars, Ready, Abstract!lifecycleVars
<1>0. TypeOK /\ ExitFollowsPhase /\ PhaseFollowsControl /\ AbandonedBuildExits
  BY DEF TypeInv, ControlInv
<1>1. CASE ProbesUp
  <2>1. CASE abandonedBuild # "none"
    <3>1. BuildAbandoned(abandonedBuild, <<>>)  BY <1>1, <2>1 DEF ProbesUp
    <3>2. phase = "building"  BY <1>0, <1>1 DEF ProbesUp, PhaseFollowsControl
    <3>3. QED  BY <1>0, <3>1, <3>2, BuildAbandonedMaps DEF Abstract!Next
  <2>2. CASE abandonedBuild = "none"  BY <1>1, <2>2 DEF ProbesUp
  <2>3. QED  BY <2>1, <2>2
<1>2. ASSUME NEW f \in {"config", "err"}, ProbesFail(f)
      PROVE  Abstract!Next \/ UNCHANGED Abstract!lifecycleVars
  <2>1. Exit(Failed(f)) /\ Failed(f).kind \in {"report", "failed"}
    BY <1>2 DEF ProbesFail, Failed
  <2>2. phase = "building"  BY <1>0, <1>2 DEF ProbesFail, PhaseFollowsControl
  <2>3. phase' = "exited"  BY <1>0, <1>2, AdvancedTo DEF ProbesFail, DisposeAll
  <2>4. QED  BY <1>0, <2>1, <2>2, <2>3, ExitMaps DEF Abstract!Next
<1>3. CASE Acquire  BY <1>3 DEF Acquire
<1>4. ASSUME NEW f \in Failures, ConstructionFails(f)
      PROVE  Abstract!Next \/ UNCHANGED Abstract!lifecycleVars
  BY <1>4, LeaveFailedMaps DEF ConstructionFails, Abstract!Next
<1>5. CASE ServeAbandoned  BY <1>5 DEF ServeAbandoned
<1>6. CASE StartRuntime
  <2>1. phase = "building" /\ phase' = "starting"
    BY <1>0, <1>6, AdvancedTo DEF StartRuntime, PhaseFollowsControl, AbandonedBuildExits, Unserved
  <2>2. QED  BY <1>6, <2>1 DEF StartRuntime, Abstract!Start, Abstract!Next
<1>7. ASSUME NEW f \in Failures, RuntimeRefuses(f)
      PROVE  Abstract!Next \/ UNCHANGED Abstract!lifecycleVars
  BY <1>7, LeaveFailedMaps DEF RuntimeRefuses, Abstract!Next
<1>8. CASE RuntimeServes
  <2>1. phase = "starting" /\ phase' = "serving" /\ ~forcedUnready
    BY <1>0, <1>8, AdvancedTo
    DEF RuntimeServes, PhaseFollowsControl, AbandonedBuildExits, Unserved
  <2>2. QED  BY <1>0, <1>8, <2>1 DEF RuntimeServes, Abstract!Serve, Abstract!Next, TypeOK
<1>9. CASE RuntimeUpTooLate  BY <1>9 DEF RuntimeUpTooLate
<1>10. QED
  BY <1>1, <1>2, <1>3, <1>4, <1>5, <1>6, <1>7, <1>8, <1>9 DEF Starting

LEMMA MapEnding ==
  TypeInv /\ ControlInv /\ Ending => Abstract!Next \/ UNCHANGED Abstract!lifecycleVars
<1> SUFFICES ASSUME TypeInv, ControlInv, Ending
             PROVE  Abstract!Next \/ UNCHANGED Abstract!lifecycleVars
  OBVIOUS
<1> USE DEF trackerVars, exitVars, Ready, Abstract!lifecycleVars
<1>0. TypeOK /\ ExitFollowsPhase /\ PhaseFollowsControl
  BY DEF TypeInv, ControlInv
<1>1. ASSUME main \in {"serving", "draining"}, EnterStopping, UNCHANGED exitVars
      PROVE  Abstract!Next
  <2>1. phase \in {"serving", "draining"} /\ phase' = "stopping"
    BY <1>0, <1>1, AdvancedTo DEF EnterStopping, PhaseFollowsControl
  <2>2. QED  BY <1>1, <2>1 DEF Abstract!Stop, Abstract!Next
<1>2. CASE FinishAborting  BY <1>1, <1>2 DEF FinishAborting
<1>3. CASE BeginDrain
  <2>1. phase = "serving" /\ phase' = "draining"
    BY <1>0, <1>3, AdvancedTo DEF BeginDrain, PhaseFollowsControl
  <2>2. QED  BY <1>3, <2>1 DEF BeginDrain, Abstract!Drain, Abstract!Next
<1>4. CASE PreDrainOver  BY <1>4 DEF PreDrainOver
<1>5. CASE DrainCallSettles  BY <1>5 DEF DrainCallSettles
<1>6. CASE DrainedIdle  BY <1>1, <1>6 DEF DrainedIdle, SettleDrain
<1>7. CASE DrainDeadline  BY <1>1, <1>7 DEF DrainDeadline, SettleDrain
<1>8. CASE DrainDefects
  BY <1>8, LeaveFailedMaps, "defect" \in Failures DEF DrainDefects, Abstract!Next, Failures
<1>9. CASE ServingStopped  BY <1>9 DEF ServingStopped
<1>10. CASE ServingStopDefects
  BY <1>10, LeaveFailedMaps, "defect" \in Failures
  DEF ServingStopDefects, Abstract!Next, Failures
<1>11. ASSUME NEW ok \in BOOLEAN, Release(ok)
       PROVE  UNCHANGED Abstract!lifecycleVars
  BY <1>11 DEF Release
<1>12. CASE ScopeSettles
  <2>1. result \in Failures \cup {"stopped", "abandoned"}
    BY <1>0, <1>12 DEF ScopeSettles, TypeInv, TypeOK
  <2>2. phase \in {"building", "starting", "stopping", "exited"}
    BY <1>0, <1>12 DEF ScopeSettles, PhaseFollowsControl
  <2>3. Exit(Answer(result, "none")) /\ phase' = "exited"
    BY <1>0, <1>12, AdvancedTo DEF ScopeSettles, DisposeAll
  <2>4. QED  BY <1>0, <2>1, <2>2, <2>3, AnswerMaps, ExitMaps DEF Abstract!Next
<1>13. CASE StopAbandoned
  <2>1. stopping \in Failures \cup {"stopped", "abandoned"}
    BY <1>0, <1>13 DEF StopAbandoned, TypeOK
  <2>2. phase \in {"building", "starting", "stopping", "exited"}
    BY <1>0, <1>13
    DEF StopAbandoned, PhaseFollowsControl, ControlInv, StopArmedAfterServing
  <2>3. Exit(Answer(stopping, "stop")) /\ phase' = "exited"
    BY <1>0, <1>13, AdvancedTo DEF StopAbandoned, DisposeAll
  <2>4. QED  BY <1>0, <2>1, <2>2, <2>3, AnswerMaps, ExitMaps DEF Abstract!Next
<1>14. CASE StopWithdrawn  BY <1>14 DEF StopWithdrawn
<1>15. QED
  BY <1>2, <1>3, <1>4, <1>5, <1>6, <1>7, <1>8, <1>9, <1>10, <1>11, <1>12, <1>13, <1>14
  DEF Ending

\* Every turn of the kernel is a step of the lifecycle, or leaves it where it is.
LEMMA MapStep ==
  TypeInv /\ ControlInv /\ [Next]_vars => Abstract!Next \/ UNCHANGED Abstract!lifecycleVars
<1> SUFFICES ASSUME TypeInv, ControlInv, [Next]_vars
             PROVE  Abstract!Next \/ UNCHANGED Abstract!lifecycleVars
  OBVIOUS
<1>1. CASE Units
  BY <1>1 DEF Units, RunUnit, SettleUnit, trackerVars, exitVars, Ready, Abstract!lifecycleVars
<1>2. CASE UNCHANGED vars
  BY <1>2 DEF vars, trackerVars, exitVars, Ready, Abstract!lifecycleVars
<1>3. QED
  BY <1>1, <1>2, MapRequests, MapStarting, MapEnding DEF Next

\* The kernel implements Lifecycle: readiness is one unbroken interval inside `serving`, the
\* phase follows the documented edges and ends with exactly one outcome, for every graph
\* and every interleaving of signals, crashes, deadlines and units.
THEOREM KernelImplementsLifecycle == Spec => ImplementsLifecycle
<1>1. Init => Abstract!Init
  BY DEF Init, Abstract!Init, Ready, Pending
<1>2. TypeInv /\ ControlInv /\ [Next]_vars => [Abstract!Next]_(Abstract!lifecycleVars)
  BY MapStep
<1>3. QED
  BY <1>1, <1>2, ControlCorrect, PTL DEF Spec, ImplementsLifecycle, Abstract!Spec

-----------------------------------------------------------------------------
(* The drain's book-keeping.                                                *)

\* The answer of awaitIdle stays true: it is asked behind the runtime's own drain, after
\* which only a unit in flight could open another.
IdleMeansEmpty ==
  /\ idle # "unasked" => drainCall = "done"
  /\ idle = "resolved" => open = {}
  /\ main \in Unserved \cup {"serving", "preDrain"} => drainCall = "none"
  /\ main \in Unserved \cup {"serving", "preDrain"} => drain.by = "none"

\* What the drain report is computed from: each unit closed since is one fewer in flight.
DrainSampled ==
  main \in {"preDrain", "draining"} =>
    drain.inFlightAtStart + drain.closedAtStart <= closedCount + InFlight

DrainStarted ==
  main \in {"preDrain", "draining"} => drain.closedAtStart <= closedCount

DrainInv ==
  /\ IdleMeansEmpty /\ DrainSampled /\ DrainStarted
  /\ IdleDrainAbandonsNothing /\ DrainAccountsForUnits

bookVars == <<open, closedCount, idle, drainCall, drain>>

LEMMA InFlightOpens ==
  ASSUME TypeOK, NEW u, OpenUnit(u)
  PROVE  InFlight' = InFlight + 1
<1>1. IsFiniteSet(open)  BY InFlightType DEF TypeOK
<1>2. u \notin open /\ open' = open \cup {u}
  BY DEF OpenUnit, TypeOK, RegistryTypeOK
<1>3. QED  BY <1>1, <1>2, FS_AddElement DEF InFlight

LEMMA InFlightCloses ==
  ASSUME TypeOK, NEW u, CloseUnit(u)
  PROVE  InFlight' = InFlight - 1
<1>1. IsFiniteSet(open)  BY InFlightType DEF TypeOK
<1>2. u \in open /\ open' = open \ {u}  BY DEF CloseUnit
<1>3. QED  BY <1>1, <1>2, FS_RemoveElement DEF InFlight

LEMMA NothingInFlight == open = {} => InFlight = 0
BY FS_EmptySet DEF InFlight

\* The steps that neither touch the books nor bring the control point to a drain.
LEMMA BooksUntouched ==
  ASSUME DrainInv, UNCHANGED bookVars,
         main' = main \/ main' \in {"stopping", "closing", "settled"}
                 \/ (main \in Unserved /\ main' \in Unserved \cup {"serving"})
  PROVE  DrainInv'
<1>1. InFlight' = InFlight  BY DEF InFlight, bookVars
<1>2. QED
  BY <1>1 DEF DrainInv, IdleMeansEmpty, DrainSampled, DrainStarted, IdleDrainAbandonsNothing,
              DrainAccountsForUnits, bookVars, Unserved

LEMMA DrainSettles ==
  ASSUME TypeInv, DrainInv, main = "draining", NEW by \in {"idle", "deadline"},
         by = "idle" => idle = "resolved", SettleDrain(by)
  PROVE  DrainInv'
<1>1. drain \in DrainRecords /\ closedCount \in Nat /\ InFlight \in Nat
  BY InFlightType DEF TypeInv, TypeOK, RegistryTypeOK
<1>2. /\ drain' = [drain EXCEPT !.by = by, !.completed = closedCount - drain.closedAtStart,
                                !.abandoned = InFlight]
      /\ UNCHANGED <<open, closedCount, idle, drainCall>> /\ main' = "stopping"
  BY DEF SettleDrain, EnterStopping, AbortAll, registryVars
<1>3. drain'.inFlightAtStart <= drain'.completed + drain'.abandoned /\ drain'.completed >= 0
  BY <1>1, <1>2 DEF DrainInv, DrainSampled, DrainStarted, DrainRecords
<1>4. drain'.by = "idle" => drain'.abandoned = 0
  BY <1>1, <1>2, NothingInFlight DEF DrainInv, IdleMeansEmpty, DrainRecords
<1>5. QED
  BY <1>2, <1>3, <1>4 DEF DrainInv, IdleMeansEmpty, DrainSampled, DrainStarted, Unserved,
                          IdleDrainAbandonsNothing, DrainAccountsForUnits

LEMMA DrainUnits == TypeInv /\ DrainInv /\ Units => DrainInv'
<1> SUFFICES ASSUME TypeInv, DrainInv, NEW u \in Unit, RunUnit(u) \/ SettleUnit(u)
             PROVE  DrainInv'
  BY DEF Units
<1> USE DEF DrainInv, IdleMeansEmpty, DrainSampled, DrainStarted, IdleDrainAbandonsNothing,
            DrainAccountsForUnits, scopeVars, runtimeVars, callVars
<1>0. /\ TypeOK /\ drain \in DrainRecords /\ closedCount \in Nat /\ InFlight \in Nat
      /\ idle \in IdleStates
  BY InFlightType DEF TypeInv, TypeOK, RegistryTypeOK
<1>1. CASE RunUnit(u)
  <2>1. InFlight' = InFlight + 1  BY <1>0, <1>1, InFlightOpens DEF RunUnit
  <2>2. idle # "resolved"  BY <1>1 DEF RunUnit, Accepting
  <2>3. QED  BY <1>0, <1>1, <2>1, <2>2 DEF RunUnit, OpenUnit, DrainRecords
<1>2. CASE SettleUnit(u)
  <2>1. InFlight' = InFlight - 1  BY <1>0, <1>2, InFlightCloses DEF SettleUnit
  <2>2. QED  BY <1>0, <1>2, <2>1 DEF SettleUnit, CloseUnit, DrainRecords
<1>3. QED  BY <1>1, <1>2

LEMMA DrainRequestsStarting ==
  TypeInv /\ ControlInv /\ DrainInv /\ (Requests \/ Starting) => DrainInv'
<1> SUFFICES ASSUME TypeInv, ControlInv, DrainInv, Requests \/ Starting
             PROVE  DrainInv'
  OBVIOUS
<1> USE DEF registryVars, scopeVars, runtimeVars, callVars, bookVars
<1>0. TypeOK  BY DEF TypeInv
<1>1. CASE FirstSignal  BY <1>1, BooksUntouched DEF FirstSignal
<1>2. CASE SecondSignal
  <2>1. AbandonBuild("signal", <<>>)  BY <1>2 DEF SecondSignal
  <2>2. UNCHANGED <<open, closedCount, idle>>
    BY <2>1 DEF AbandonBuild, BuildAbandoned, AbortAll
  <2>3. QED  BY <1>2, <2>2, BooksUntouched DEF SecondSignal
<1>3. CASE Uncaught
  <2>1. AbandonBuild("uncaught", <<"uncaught">>)  BY <1>3 DEF Uncaught
  <2>2. UNCHANGED <<open, closedCount, idle>>
    BY <2>1 DEF AbandonBuild, BuildAbandoned, AbortAll
  <2>3. QED  BY <1>3, <2>2, BooksUntouched DEF Uncaught
<1>4. ASSUME NEW r \in {"signal", "runtimeStopped"}, CallerRequests(r)
      PROVE  DrainInv'
  BY <1>4, BooksUntouched DEF CallerRequests
<1>5. CASE RuntimeStopped  BY <1>5, BooksUntouched DEF RuntimeStopped
<1>6. CASE ProbesUp
  <2>1. UNCHANGED <<open, closedCount, idle>>
    BY <1>6 DEF ProbesUp, BuildAbandoned, AbortAll
  <2>2. QED  BY <1>6, <2>1, BooksUntouched DEF ProbesUp, Unserved
<1>7. ASSUME NEW f \in {"config", "err"}, ProbesFail(f)
      PROVE  DrainInv'
  BY <1>7, BooksUntouched DEF ProbesFail
<1>8. CASE Acquire  BY <1>8, BooksUntouched DEF Acquire
<1>9. ASSUME NEW f \in Failures, ConstructionFails(f)
      PROVE  DrainInv'
  BY <1>9, BooksUntouched DEF ConstructionFails, LeaveFailed
<1>10. CASE ServeAbandoned  BY <1>10, BooksUntouched DEF ServeAbandoned
<1>11. CASE StartRuntime  BY <1>11, BooksUntouched DEF StartRuntime, Unserved
<1>12. ASSUME NEW f \in Failures, RuntimeRefuses(f)
       PROVE  DrainInv'
  BY <1>12, BooksUntouched DEF RuntimeRefuses, LeaveFailed
<1>13. CASE RuntimeServes  BY <1>13, BooksUntouched DEF RuntimeServes, Unserved
<1>14. CASE RuntimeUpTooLate  BY <1>14, BooksUntouched DEF RuntimeUpTooLate, AbortAll
<1>15. QED
  BY <1>1, <1>2, <1>3, <1>4, <1>5, <1>6, <1>7, <1>8, <1>9, <1>10, <1>11, <1>12, <1>13,
     <1>14 DEF Requests, Starting

LEMMA DrainEnding == TypeInv /\ ControlInv /\ DrainInv /\ Ending => DrainInv'
<1> SUFFICES ASSUME TypeInv, ControlInv, DrainInv, Ending
             PROVE  DrainInv'
  OBVIOUS
<1> USE DEF registryVars, scopeVars, finaliserVars, runtimeVars, callVars, bookVars
<1>0. /\ TypeOK /\ drain \in DrainRecords /\ closedCount \in Nat /\ InFlight \in Nat
      /\ idle \in IdleStates
  BY InFlightType DEF TypeInv, TypeOK, RegistryTypeOK
<1>1. CASE FinishAborting
  BY <1>1, BooksUntouched DEF FinishAborting, EnterStopping, AbortAll
<1>2. CASE BeginDrain
  <2>1. InFlight' = InFlight  BY <1>2 DEF BeginDrain, InFlight
  <2>2. drain' = [drain EXCEPT !.inFlightAtStart = InFlight, !.closedAtStart = closedCount]
    BY <1>2 DEF BeginDrain
  <2>3. /\ drain'.inFlightAtStart = InFlight /\ drain'.closedAtStart = closedCount
        /\ drain'.by = drain.by /\ drain'.completed = drain.completed
        /\ drain'.abandoned = drain.abandoned
    BY <1>0, <2>2 DEF DrainRecords
  <2>4. drain.by = "none"  BY <1>2 DEF BeginDrain, DrainInv, IdleMeansEmpty
  <2>5. QED
    BY <1>0, <1>2, <2>1, <2>3, <2>4
    DEF BeginDrain, DrainInv, IdleMeansEmpty, DrainSampled, DrainStarted, Unserved,
        IdleDrainAbandonsNothing, DrainAccountsForUnits
<1>3. CASE PreDrainOver
  <2>1. InFlight' = InFlight  BY <1>3 DEF PreDrainOver, InFlight
  <2>2. QED
    BY <1>3, <2>1
    DEF PreDrainOver, DrainInv, IdleMeansEmpty, DrainSampled, DrainStarted, Unserved,
        IdleDrainAbandonsNothing, DrainAccountsForUnits
<1>4. CASE DrainCallSettles
  <2>1. InFlight' = InFlight  BY <1>4 DEF DrainCallSettles, AwaitIdle, InFlight
  <2>2. QED
    BY <1>4, <2>1
    DEF DrainCallSettles, AwaitIdle, DrainInv, IdleMeansEmpty, DrainSampled, DrainStarted,
        Unserved, IdleDrainAbandonsNothing, DrainAccountsForUnits
<1>5. CASE DrainedIdle  BY <1>5, DrainSettles DEF DrainedIdle
<1>6. CASE DrainDeadline  BY <1>6, DrainSettles DEF DrainDeadline
<1>7. CASE DrainDefects
  <2>1. InFlight' = InFlight /\ idle = "unasked"
    BY <1>0, <1>7 DEF DrainDefects, InFlight, DrainInv, IdleMeansEmpty
  <2>2. QED
    BY <1>7, <2>1
    DEF DrainDefects, LeaveFailed, DrainInv, IdleMeansEmpty, DrainSampled, DrainStarted,
        Unserved, IdleDrainAbandonsNothing, DrainAccountsForUnits
<1>8. CASE ServingStopped  BY <1>8, BooksUntouched DEF ServingStopped
<1>9. CASE ServingStopDefects
  BY <1>9, BooksUntouched DEF ServingStopDefects, LeaveFailed
<1>10. ASSUME NEW ok \in BOOLEAN, Release(ok)
       PROVE  DrainInv'
  BY <1>10, BooksUntouched DEF Release
<1>11. CASE ScopeSettles  BY <1>11, BooksUntouched DEF ScopeSettles
<1>12. CASE StopAbandoned  BY <1>12, BooksUntouched DEF StopAbandoned
<1>13. CASE StopWithdrawn  BY <1>13, BooksUntouched DEF StopWithdrawn
<1>14. QED
  BY <1>1, <1>2, <1>3, <1>4, <1>5, <1>6, <1>7, <1>8, <1>9, <1>10, <1>11, <1>12, <1>13
  DEF Ending

LEMMA DrainCorrect == Spec => []DrainInv
<1>1. Init => DrainInv
  BY DEF Init, RegistryInit, NoDrain, DrainInv, IdleMeansEmpty, DrainSampled, DrainStarted,
         IdleDrainAbandonsNothing, DrainAccountsForUnits
<1>2. TypeInv /\ ControlInv /\ DrainInv /\ [Next]_vars => DrainInv'
  <2> SUFFICES ASSUME TypeInv, ControlInv, DrainInv, [Next]_vars
               PROVE  DrainInv'
    OBVIOUS
  <2>1. CASE UNCHANGED vars
    BY <2>1, BooksUntouched
    DEF vars, registryVars, scopeVars, runtimeVars, callVars, bookVars
  <2>2. QED
    BY <2>1, DrainRequestsStarting, DrainEnding, DrainUnits DEF Next
<1>3. QED  BY <1>1, <1>2, ControlCorrect, PTL DEF Spec

\* Whatever opens and closes while the kernel drains, the report accounts for every unit
\* that was in flight when the drain began, and never counts a negative number of them.
THEOREM DrainAlwaysAccounts == Spec => []DrainAccountsForUnits
<1>1. DrainInv => DrainAccountsForUnits  BY DEF DrainInv
<1>2. QED  BY <1>1, DrainCorrect, PTL

\* A drain that ended because the registry was idle has abandoned no unit.
THEOREM IdleDrainIsComplete == Spec => []IdleDrainAbandonsNothing
<1>1. DrainInv => IdleDrainAbandonsNothing  BY DEF DrainInv
<1>2. QED  BY <1>1, DrainCorrect, PTL

\* The drain report is true to the units, for any number of them and any interleaving.
THEOREM DrainReportAlwaysTrue == Spec => []DrainReportIsTrue
<1>1. DrainAccountsForUnits /\ IdleDrainAbandonsNothing => DrainReportIsTrue
  BY DEF DrainReportIsTrue
<1>2. QED  BY <1>1, DrainAlwaysAccounts, IdleDrainIsComplete, PTL

-----------------------------------------------------------------------------
(* When units are told to stop.                                             *)

Told == open \subseteq aborted \cup openedLate

\* The lifecycle has been reported, or will be: by the chain that stopped, by the deadline of
\* its stop, or by the build that was given up on.
ReportDue ==
  \/ exited.kind = "report" \/ stopping = "stopped" \/ result = "stopped"
  \/ abandonedBuild # "none" /\ main # "binding"

ToldInv ==
  /\ AbortedOnlyWhenGivenUp
  /\ ReportDue => Told
  /\ runtime = "none" => open = {}

\* Giving up on units is for good.
GivenUpForGood ==
  /\ drain.by = "deadline" => drain'.by = "deadline"
  /\ reason # "none" => reason' = reason
  /\ abandonedBuild # "none" => abandonedBuild' # "none"
  /\ runtime' = "none" => runtime = "none"

LEMMA UnitsLeftAlone ==
  ASSUME ToldInv, GivenUpForGood, UNCHANGED <<open, aborted, openedLate>>,
         ReportDue' => ReportDue \/ open = {}
  PROVE  ToldInv'
<1>1. AbortedOnlyWhenGivenUp'
  BY DEF ToldInv, AbortedOnlyWhenGivenUp, GivenUpForGood
<1>2. QED  BY <1>1 DEF ToldInv, GivenUpForGood, Told

LEMMA UnitsAllTold ==
  ASSUME ToldInv, AbortAll, openedLate' = openedLate, runtime' = "none" => runtime = "none",
         AbortedOnlyWhenGivenUp'
  PROVE  ToldInv'
BY DEF ToldInv, AbortAll, Told

LEMMA ToldByAbandoning ==
  ASSUME TypeInv, ControlInv, ToldInv, NEW r \in {"signal", "uncaught"}, NEW said,
         AbandonBuild(r, said), GivenUpForGood,
         UNCHANGED <<main, result, stopping, openedLate>>
  PROVE  ToldInv'
<1>0. TypeOK  BY DEF TypeInv
<1>1. CASE Abandonable(r) /\ main # "binding"
  <2>1. AbortAll /\ abandonedBuild' = r
    BY <1>0, <1>1, AbandonBuildEffect DEF BuildAbandoned
  <2>2. AbortedOnlyWhenGivenUp'  BY <2>1 DEF AbortedOnlyWhenGivenUp
  <2>3. QED  BY <2>1, <2>2, UnitsAllTold DEF GivenUpForGood
<1>2. CASE ~(Abandonable(r) /\ main # "binding")
  <2>1. UNCHANGED <<open, aborted, exited>>
    BY <1>0, <1>2, AbandonBuildEffect DEF registryVars, exitVars
  <2>2. abandonedBuild' # abandonedBuild => main = "binding"
    BY <1>0, <1>2, AbandonBuildEffect
  <2>3. QED  BY <2>1, <2>2, UnitsLeftAlone DEF ReportDue
<1>3. QED  BY <1>1, <1>2

LEMMA ToldRequests == TypeInv /\ ControlInv /\ ToldInv /\ Requests => ToldInv'
<1> SUFFICES ASSUME TypeInv, ControlInv, ToldInv, Requests
             PROVE  ToldInv'
  OBVIOUS
<1> USE DEF registryVars, scopeVars, runtimeVars, callVars, stopVars, exitVars
<1>1. CASE FirstSignal
  BY <1>1, UnitsLeftAlone DEF FirstSignal, RequestShutdown, GivenUpForGood, ReportDue
<1>2. CASE SecondSignal
  <2>1. AbandonBuild("signal", <<>>) /\ UNCHANGED <<main, result, stopping, openedLate>>
    BY <1>2 DEF SecondSignal
  <2>2. GivenUpForGood  BY <1>2 DEF SecondSignal, GivenUpForGood, AbandonBuild
  <2>3. QED  BY <2>1, <2>2, ToldByAbandoning
<1>3. CASE Uncaught
  <2>1. AbandonBuild("uncaught", <<"uncaught">>) /\ UNCHANGED <<main, result, stopping, openedLate>>
    BY <1>3 DEF Uncaught
  <2>2. GivenUpForGood  BY <1>3 DEF Uncaught, GivenUpForGood, AbandonBuild, RequestShutdown
  <2>3. QED  BY <2>1, <2>2, ToldByAbandoning
<1>4. ASSUME NEW r \in {"signal", "runtimeStopped"}, CallerRequests(r)
      PROVE  ToldInv'
  BY <1>4, UnitsLeftAlone DEF CallerRequests, RequestShutdown, GivenUpForGood, ReportDue
<1>5. CASE RuntimeStopped
  BY <1>5, UnitsLeftAlone DEF RuntimeStopped, RequestShutdown, GivenUpForGood, ReportDue
<1>6. QED  BY <1>1, <1>2, <1>3, <1>4, <1>5 DEF Requests

LEMMA ToldStarting == TypeInv /\ ControlInv /\ ToldInv /\ Starting => ToldInv'
<1> SUFFICES ASSUME TypeInv, ControlInv, ToldInv, Starting
             PROVE  ToldInv'
  OBVIOUS
<1> USE DEF registryVars, requestVars, scopeVars, runtimeVars, callVars, stopVars, exitVars
<1>0. TypeOK /\ ExitFollowsPhase /\ PhaseFollowsControl  BY DEF TypeInv, ControlInv
<1>1. CASE ProbesUp
  <2>1. GivenUpForGood  BY <1>1 DEF ProbesUp, GivenUpForGood
  <2>2. CASE abandonedBuild # "none"
    <3>1. AbortAll /\ openedLate' = openedLate /\ abandonedBuild' # "none"
      BY <1>1, <2>2 DEF ProbesUp, BuildAbandoned
    <3>2. AbortedOnlyWhenGivenUp'  BY <3>1 DEF AbortedOnlyWhenGivenUp
    <3>3. QED  BY <2>1, <3>1, <3>2, UnitsAllTold DEF GivenUpForGood
  <2>3. CASE abandonedBuild = "none"
    BY <1>1, <2>1, <2>3, UnitsLeftAlone DEF ProbesUp, ReportDue
  <2>4. QED  BY <2>2, <2>3
<1>2. ASSUME NEW f \in {"config", "err"}, ProbesFail(f)
      PROVE  ToldInv'
  <2>1. GivenUpForGood  BY <1>2 DEF ProbesFail, GivenUpForGood
  <2>2. open = {}  BY <1>2 DEF ProbesFail, ControlInv, RuntimeFollowsControl, ToldInv
  <2>3. QED  BY <1>2, <2>1, <2>2, UnitsLeftAlone DEF ProbesFail
<1>3. CASE Acquire  BY <1>3, UnitsLeftAlone DEF Acquire, GivenUpForGood, ReportDue
<1>4. ASSUME NEW f \in Failures, ConstructionFails(f)
      PROVE  ToldInv'
  BY <1>4, UnitsLeftAlone
  DEF ConstructionFails, LeaveFailed, ArmStop, GivenUpForGood, ReportDue, Failures
<1>5. CASE ServeAbandoned  BY <1>5, UnitsLeftAlone DEF ServeAbandoned, GivenUpForGood, ReportDue
<1>6. CASE StartRuntime  BY <1>6, UnitsLeftAlone DEF StartRuntime, GivenUpForGood, ReportDue
<1>7. ASSUME NEW f \in Failures, RuntimeRefuses(f)
      PROVE  ToldInv'
  BY <1>7, UnitsLeftAlone
  DEF RuntimeRefuses, LeaveFailed, ArmStop, GivenUpForGood, ReportDue, Failures
<1>8. CASE RuntimeServes  BY <1>8, UnitsLeftAlone DEF RuntimeServes, GivenUpForGood, ReportDue
<1>9. CASE RuntimeUpTooLate
  <2>1. AbortAll /\ openedLate' = openedLate /\ abandonedBuild' # "none" /\ runtime' # "none"
    BY <1>9 DEF RuntimeUpTooLate
  <2>2. AbortedOnlyWhenGivenUp'  BY <2>1 DEF AbortedOnlyWhenGivenUp
  <2>3. QED  BY <2>1, <2>2, UnitsAllTold
<1>10. QED
  BY <1>1, <1>2, <1>3, <1>4, <1>5, <1>6, <1>7, <1>8, <1>9 DEF Starting

LEMMA ToldEnding == TypeInv /\ ControlInv /\ DrainInv /\ ToldInv /\ Ending => ToldInv'
<1> SUFFICES ASSUME TypeInv, ControlInv, DrainInv, ToldInv, Ending
             PROVE  ToldInv'
  OBVIOUS
<1> USE DEF registryVars, requestVars, scopeVars, runtimeVars, callVars, stopVars, exitVars
<1>0. TypeOK /\ drain \in DrainRecords  BY DEF TypeInv, TypeOK
<1>1. CASE FinishAborting
  <2>1. /\ AbortAll /\ openedLate' = openedLate /\ reason' = reason
        /\ reason \in {"runtimeStopped", "uncaught"} /\ runtime' = "stopping"
    BY <1>1 DEF FinishAborting, EnterStopping, Reasons
  <2>2. AbortedOnlyWhenGivenUp'  BY <2>1 DEF AbortedOnlyWhenGivenUp
  <2>3. QED  BY <2>1, <2>2, UnitsAllTold
<1>2. CASE BeginDrain
  <2>1. drain'.by = drain.by  BY <1>0, <1>2 DEF BeginDrain, DrainRecords
  <2>2. QED  BY <1>2, <2>1, UnitsLeftAlone DEF BeginDrain, GivenUpForGood, ReportDue
<1>3. CASE PreDrainOver  BY <1>3, UnitsLeftAlone DEF PreDrainOver, GivenUpForGood, ReportDue
<1>4. CASE DrainCallSettles
  BY <1>4, UnitsLeftAlone DEF DrainCallSettles, AwaitIdle, GivenUpForGood, ReportDue
<1>5. CASE DrainedIdle
  <2>1. open = {}  BY <1>5 DEF DrainedIdle, DrainInv, IdleMeansEmpty
  <2>2. open' = {} /\ runtime' = "stopping"
    BY <1>5, <2>1 DEF DrainedIdle, SettleDrain, EnterStopping, AbortAll
  <2>3. QED  BY <2>2 DEF ToldInv, AbortedOnlyWhenGivenUp, Told
<1>6. CASE DrainDeadline
  <2>1. SettleDrain("deadline")  BY <1>6 DEF DrainDeadline
  <2>2. drain'.by = "deadline"  BY <1>0, <2>1 DEF SettleDrain, DrainRecords
  <2>3. AbortedOnlyWhenGivenUp'  BY <2>2 DEF AbortedOnlyWhenGivenUp
  <2>4. runtime' = "stopping" /\ openedLate' = openedLate
    BY <2>1 DEF SettleDrain, EnterStopping
  <2>5. CASE InFlight > 0
    <3>1. AbortAll  BY <2>1, <2>5 DEF SettleDrain
    <3>2. QED  BY <2>3, <2>4, <3>1, UnitsAllTold
  <2>6. CASE ~(InFlight > 0)
    <3>1. IsFiniteSet(open) /\ InFlight \in Nat  BY <1>0, InFlightType DEF TypeOK
    <3>2. InFlight = 0  BY <2>6, <3>1
    <3>3. open = {}  BY <3>1, <3>2, FS_EmptySet DEF InFlight
    <3>4. open' = {}  BY <2>1, <2>6, <3>3 DEF SettleDrain
    <3>5. QED  BY <2>3, <2>4, <3>4 DEF ToldInv, Told
  <2>7. QED  BY <2>5, <2>6
<1>7. CASE DrainDefects
  BY <1>7, UnitsLeftAlone
  DEF DrainDefects, LeaveFailed, ArmStop, GivenUpForGood, ReportDue, Failures
<1>8. CASE ServingStopped
  BY <1>8, UnitsLeftAlone DEF ServingStopped, GivenUpForGood, ReportDue
<1>9. CASE ServingStopDefects
  BY <1>9, UnitsLeftAlone
  DEF ServingStopDefects, LeaveFailed, ArmStop, GivenUpForGood, ReportDue, Failures
<1>10. ASSUME NEW ok \in BOOLEAN, Release(ok)
       PROVE  ToldInv'
  BY <1>10, UnitsLeftAlone DEF Release, GivenUpForGood, ReportDue
<1>11. CASE ScopeSettles
  <2>1. /\ Exit(Answer(result, "none")) /\ main = "closing"
        /\ UNCHANGED <<open, aborted, openedLate, result, stopping, abandonedBuild, runtime, reason, drain>>
    BY <1>11 DEF ScopeSettles
  <2>2. result \in Failures \cup {"stopped", "abandoned"}
    BY <1>0, <1>11 DEF ScopeSettles, TypeInv, TypeOK
  <2>3. result = "abandoned" => abandonedBuild # "none"  BY DEF TypeInv
  <2>4. result \in Failures => Answer(result, "none").kind # "report"
    BY AnswerOfFailure DEF Failed
  <2>5. exited'.kind = "report" => ReportDue
    BY <2>1, <2>2, <2>3, <2>4 DEF Exit, ReportDue
  <2>6. QED  BY <2>1, <2>5, UnitsLeftAlone DEF GivenUpForGood, ReportDue
<1>12. CASE StopAbandoned
  <2>1. /\ Exit(Answer(stopping, "stop"))
        /\ UNCHANGED <<open, aborted, openedLate, main, result, stopping, abandonedBuild, runtime, reason, drain>>
    BY <1>12 DEF StopAbandoned
  <2>2. stopping \in Failures \cup {"stopped"}  BY <1>0, <1>12 DEF StopAbandoned, TypeOK
  <2>3. stopping \in Failures => Answer(stopping, "stop").kind # "report"
    BY AnswerOfFailure DEF Failed
  <2>4. exited'.kind = "report" => ReportDue
    BY <2>1, <2>2, <2>3 DEF Exit, ReportDue
  <2>5. QED  BY <2>1, <2>4, UnitsLeftAlone DEF GivenUpForGood, ReportDue
<1>13. CASE StopWithdrawn
  BY <1>13, UnitsLeftAlone DEF StopWithdrawn, GivenUpForGood, ReportDue
<1>14. QED
  BY <1>1, <1>2, <1>3, <1>4, <1>5, <1>6, <1>7, <1>8, <1>9, <1>10, <1>11, <1>12, <1>13
  DEF Ending

\* A unit opened once a report is due is opened late, and one that opens was never told.
LEMMA ToldUnits == TypeInv /\ ControlInv /\ ToldInv /\ Units => ToldInv'
<1> SUFFICES ASSUME TypeInv, ControlInv, ToldInv, NEW u \in Unit, RunUnit(u) \/ SettleUnit(u)
             PROVE  ToldInv'
  BY DEF Units
<1>0. aborted \subseteq seen  BY DEF TypeInv, TypeOK, RegistryTypeOK
<1>1. UNCHANGED <<drain, reason, abandonedBuild, runtime, exited, stopping, result, main>>
  BY DEF RunUnit, SettleUnit, requestVars, scopeVars, runtimeVars, callVars, stopVars, exitVars
<1>2. CASE RunUnit(u)
  <2>1. u \notin aborted /\ open' = open \cup {u} /\ aborted' = aborted
    BY <1>0, <1>2 DEF RunUnit, OpenUnit
  <2>2. ReportDue => phase \in {"stopping", "exited"}
    BY DEF ReportDue, ControlInv, ExitFollowsPhase, AbandonedBuildExits, StopArmedAfterServing,
           PhaseFollowsControl
  <2>3. openedLate' = IF phase \in {"stopping", "exited"} THEN openedLate \cup {u} ELSE openedLate
    BY <1>2 DEF RunUnit
  <2>4. ReportDue' => Told'  BY <1>1, <2>1, <2>2, <2>3 DEF ToldInv, ReportDue, Told
  <2>5. AbortedOnlyWhenGivenUp'  BY <1>1, <2>1 DEF ToldInv, AbortedOnlyWhenGivenUp
  <2>6. runtime # "none"  BY <1>2 DEF RunUnit, Accepting
  <2>7. QED  BY <1>1, <2>4, <2>5, <2>6 DEF ToldInv
<1>3. CASE SettleUnit(u)
  <2>1. open' = open \ {u} /\ aborted' = aborted \cup {u} /\ openedLate' = openedLate
    BY <1>3 DEF SettleUnit, CloseUnit
  <2>2. ReportDue' => Told'  BY <1>1, <2>1 DEF ToldInv, ReportDue, Told
  <2>3. AbortedOnlyWhenGivenUp'  BY <1>1, <2>1 DEF ToldInv, AbortedOnlyWhenGivenUp
  <2>4. QED  BY <1>1, <2>1, <2>2, <2>3 DEF ToldInv
<1>4. QED  BY <1>2, <1>3

LEMMA ToldCorrect == Spec => []ToldInv
<1>1. Init => ToldInv
  BY DEF Init, RegistryInit, ToldInv, AbortedOnlyWhenGivenUp, Told
<1>2. TypeInv /\ ControlInv /\ DrainInv /\ ToldInv /\ [Next]_vars => ToldInv'
  <2> SUFFICES ASSUME TypeInv, ControlInv, DrainInv, ToldInv, [Next]_vars
               PROVE  ToldInv'
    OBVIOUS
  <2>1. CASE UNCHANGED vars
    BY <2>1, UnitsLeftAlone
    DEF vars, registryVars, requestVars, scopeVars, runtimeVars, callVars, stopVars, exitVars,
        GivenUpForGood, ReportDue
  <2>2. QED
    BY <2>1, ToldRequests, ToldStarting, ToldEnding, ToldUnits DEF Next
<1>3. QED  BY <1>1, <1>2, ControlCorrect, DrainCorrect, PTL DEF Spec

\* Units are told to stop once the kernel gives up on them and never before, and none that it
\* still runs goes untold when it reports: whoever opened them, and however it came to report.
THEOREM UnitsAlwaysToldInTime == Spec => []UnitsToldInTime
<1>1. ToldInv => UnitsToldInTime
  BY DEF ToldInv, UnitsToldInTime, UnitsToldToStop, ReportDue, Told
<1>2. QED  BY <1>1, ToldCorrect, PTL

-----------------------------------------------------------------------------
(* What the observers are told.                                             *)

SaidIn(s) == {s[i] : i \in 1..Len(s)}

InOrder(s) ==
  /\ \A i, j \in 1..Len(s) : i < j => s[i] # "exited" /\ (s[i] = s[j] => s[i] = "teardownError")
  /\ \A i, j \in 1..Len(s) :
       \/ s[i] = "serving" /\ s[j] \in {"draining", "stopping"}
       \/ s[i] = "draining" /\ s[j] = "drained"
       \/ s[i] \in {"drained", "startFailed"} /\ s[j] = "stopping"
       => i < j
  /\ "exited" \in SaidIn(s) => "stopping" \in SaidIn(s)

\* What may be said next.
MaySay(said, e) ==
  /\ e \in EventTypes /\ "exited" \notin said
  /\ e \in said => e = "teardownError"
  /\ e = "serving" => "draining" \notin said
  /\ e = "draining" => "drained" \notin said
  /\ e \in {"serving", "drained", "startFailed"} => "stopping" \notin said
  /\ e = "exited" => "stopping" \in said

LEMMA OneSaid ==
  ASSUME NEW s \in Seq(EventTypes), NEW e \in EventTypes
  PROVE  /\ s \o <<e>> \in Seq(EventTypes) /\ Len(s \o <<e>>) = Len(s) + 1
         /\ \A i \in 1..Len(s) : (s \o <<e>>)[i] = s[i]
         /\ (s \o <<e>>)[Len(s) + 1] = e
         /\ SaidIn(s \o <<e>>) = SaidIn(s) \cup {e}
<1> DEFINE t == s \o <<e>>
<1>1. /\ t \in Seq(EventTypes) /\ Len(t) = Len(s) + 1 /\ Len(s) \in Nat
      /\ \A i \in 1..Len(s) : t[i] = s[i]
      /\ t[Len(s) + 1] = e
  OBVIOUS
<1> HIDE DEF t
<1>2. SaidIn(t) = SaidIn(s) \cup {e}
  <2>1. 1..Len(t) = (1..Len(s)) \cup {Len(s) + 1}
    BY <1>1
  <2>2. \A x : x \in SaidIn(t) <=> \E i \in 1..Len(t) : x = t[i]
    BY DEF SaidIn
  <2>3. \A x : x \in SaidIn(s) <=> \E i \in 1..Len(s) : x = s[i]
    BY DEF SaidIn
  <2>4. \A x : x \in SaidIn(t) <=> x \in SaidIn(s) \/ x = e
    BY <1>1, <2>1, <2>2, <2>3
  <2>5. QED  BY <2>4
<1>3. QED  BY <1>1, <1>2 DEF t

LEMMA SaidInOrder ==
  ASSUME NEW s \in Seq(EventTypes), NEW e, InOrder(s), MaySay(SaidIn(s), e)
  PROVE  /\ InOrder(s \o <<e>>) /\ s \o <<e>> \in Seq(EventTypes)
         /\ SaidIn(s \o <<e>>) = SaidIn(s) \cup {e}
<1> DEFINE t == s \o <<e>>
           n == Len(s)
<1>1. /\ t \in Seq(EventTypes) /\ Len(t) = n + 1 /\ SaidIn(t) = SaidIn(s) \cup {e}
      /\ \A i \in 1..n : t[i] = s[i]
      /\ t[n + 1] = e /\ n \in Nat
  BY OneSaid DEF MaySay
<1>2. \A i \in 1..n : s[i] \in SaidIn(s)  BY DEF SaidIn
<1> HIDE DEF t, n
<1>3. \A i \in 1..(n + 1) : (i \in 1..n /\ t[i] = s[i] /\ t[i] \in SaidIn(s)) \/ (i = n + 1 /\ t[i] = e)
  BY <1>1, <1>2
<1>4. ASSUME NEW i \in 1..(n + 1), NEW j \in 1..(n + 1)
      PROVE  /\ i < j => t[i] # "exited" /\ (t[i] = t[j] => t[i] = "teardownError")
             /\ \/ t[i] = "serving" /\ t[j] \in {"draining", "stopping"}
                \/ t[i] = "draining" /\ t[j] = "drained"
                \/ t[i] \in {"drained", "startFailed"} /\ t[j] = "stopping"
                => i < j
  <2>1. CASE i \in 1..n /\ j \in 1..n
    BY <1>3, <2>1, <1>1 DEF InOrder, n
  <2>2. CASE i = n + 1 /\ j \in 1..n
    <3>1. t[i] = e /\ t[j] \in SaidIn(s) /\ ~(i < j)
      BY <1>1, <1>3, <2>2
    <3>2. QED  BY <3>1 DEF MaySay
  <2>3. CASE i \in 1..n /\ j = n + 1
    <3>1. t[j] = e /\ t[i] \in SaidIn(s) /\ i < j
      BY <1>1, <1>3, <2>3
    <3>2. QED  BY <3>1 DEF MaySay
  <2>4. CASE i = n + 1 /\ j = n + 1
    <3>1. t[i] = e /\ t[j] = e /\ ~(i < j)
      BY <1>1, <2>4
    <3>2. QED  BY <3>1
  <2>5. QED  BY <1>1, <2>1, <2>2, <2>3, <2>4
<1>5. "exited" \in SaidIn(t) => "stopping" \in SaidIn(t)
  BY <1>1 DEF MaySay, InOrder
<1>6. InOrder(t)
  BY <1>1, <1>4, <1>5 DEF InOrder
<1>7. QED  BY <1>1, <1>6 DEF t

\* Part of what a step says: an event, or nothing.
Part(o, e, said) == o = <<>> \/ (o = <<e>> /\ MaySay(said, e))
SaidBy(o, e) == IF o = <<>> THEN {} ELSE {e}

LEMMA MaybeSaid ==
  ASSUME NEW s \in Seq(EventTypes), NEW e, NEW o, InOrder(s), Part(o, e, SaidIn(s))
  PROVE  /\ InOrder(s \o o) /\ s \o o \in Seq(EventTypes) /\ o \in Seq(EventTypes)
         /\ SaidIn(s \o o) = SaidIn(s) \cup SaidBy(o, e)
<1>1. CASE o = <<>>
  <2>1. s \o o = s  BY <1>1, ConcatEmptySeq
  <2>2. o \in Seq(EventTypes)  BY <1>1
  <2>3. SaidIn(s \o o) = SaidIn(s) \cup SaidBy(o, e)  BY <1>1, <2>1 DEF SaidBy
  <2>4. QED  BY <2>1, <2>2, <2>3
<1>2. CASE o = <<e>> /\ MaySay(SaidIn(s), e)
  <2>1. e \in EventTypes  BY <1>2 DEF MaySay
  <2>2. o # <<>> /\ o \in Seq(EventTypes)  BY <1>2, <2>1
  <2>3. QED  BY <1>2, <2>2, SaidInOrder DEF SaidBy
<1>3. QED  BY <1>1, <1>2 DEF Part

LEMMA TwoSaid ==
  ASSUME NEW s \in Seq(EventTypes), NEW a, NEW b, NEW x, NEW y, InOrder(s),
         Part(a, x, SaidIn(s)), Part(b, y, SaidIn(s) \cup SaidBy(a, x))
  PROVE  /\ InOrder(s \o (a \o b)) /\ a \in Seq(EventTypes) /\ b \in Seq(EventTypes)
         /\ SaidIn(s \o (a \o b)) = SaidIn(s) \cup SaidBy(a, x) \cup SaidBy(b, y)
<1>1. /\ InOrder(s \o a) /\ s \o a \in Seq(EventTypes) /\ a \in Seq(EventTypes)
      /\ SaidIn(s \o a) = SaidIn(s) \cup SaidBy(a, x)
  BY MaybeSaid
<1>2. Part(b, y, SaidIn(s \o a))
  BY <1>1
<1>3. /\ InOrder((s \o a) \o b) /\ b \in Seq(EventTypes)
      /\ SaidIn((s \o a) \o b) = SaidIn(s \o a) \cup SaidBy(b, y)
  <2> DEFINE t == s \o a
  <2>1. t \in Seq(EventTypes) /\ InOrder(t) /\ Part(b, y, SaidIn(t))
    BY <1>1, <1>2
  <2> HIDE DEF t
  <2>2. InOrder(t \o b) /\ b \in Seq(EventTypes) /\ SaidIn(t \o b) = SaidIn(t) \cup SaidBy(b, y)
    BY <2>1, MaybeSaid
  <2>3. QED  BY <2>2 DEF t
<1>4. (s \o a) \o b = s \o (a \o b)
  BY <1>1, <1>3, ConcatAssociative
<1>5. QED  BY <1>1, <1>3, <1>4

LEMMA ThreeSaid ==
  ASSUME NEW s \in Seq(EventTypes), NEW a, NEW b, NEW c, NEW x, NEW y, NEW z, InOrder(s),
         Part(a, x, SaidIn(s)), Part(b, y, SaidIn(s) \cup SaidBy(a, x)),
         Part(c, z, SaidIn(s) \cup SaidBy(a, x) \cup SaidBy(b, y))
  PROVE  /\ InOrder(s \o (a \o b \o c))
         /\ a \in Seq(EventTypes) /\ b \in Seq(EventTypes) /\ c \in Seq(EventTypes)
         /\ SaidIn(s \o (a \o b \o c)) =
              SaidIn(s) \cup SaidBy(a, x) \cup SaidBy(b, y) \cup SaidBy(c, z)
<1> DEFINE ab == a \o b
           t == s \o ab
<1>1. /\ InOrder(t) /\ a \in Seq(EventTypes) /\ b \in Seq(EventTypes)
      /\ SaidIn(t) = SaidIn(s) \cup SaidBy(a, x) \cup SaidBy(b, y)
  BY TwoSaid
<1>2. ab \in Seq(EventTypes)
  BY <1>1, ConcatProperties
<1> HIDE DEF ab
<1>3. t \in Seq(EventTypes)
  BY <1>2, ConcatProperties
<1>4. Part(c, z, SaidIn(t))
  BY <1>1
<1> HIDE DEF t
<1>5. InOrder(t \o c) /\ c \in Seq(EventTypes) /\ SaidIn(t \o c) = SaidIn(t) \cup SaidBy(c, z)
  BY <1>1, <1>3, <1>4, MaybeSaid
<1>6. t \o c = s \o (ab \o c)
  BY <1>2, <1>5, ConcatAssociative DEF t
<1>7. QED  BY <1>1, <1>5, <1>6 DEF ab

FourParts(said, a, x, b, y, c, z, d, w) ==
  /\ Part(a, x, said) /\ Part(b, y, said \cup SaidBy(a, x))
  /\ Part(c, z, said \cup SaidBy(a, x) \cup SaidBy(b, y))
  /\ Part(d, w, said \cup SaidBy(a, x) \cup SaidBy(b, y) \cup SaidBy(c, z))

LEMMA FourSaid ==
  ASSUME NEW s \in Seq(EventTypes), NEW a, NEW b, NEW c, NEW d, NEW x, NEW y, NEW z, NEW w, InOrder(s),
         FourParts(SaidIn(s), a, x, b, y, c, z, d, w)
  PROVE  /\ InOrder(s \o (a \o b \o c \o d))
         /\ SaidIn(s \o (a \o b \o c \o d)) =
              SaidIn(s) \cup SaidBy(a, x) \cup SaidBy(b, y) \cup SaidBy(c, z) \cup SaidBy(d, w)
<1> DEFINE abc == a \o b \o c
           t == s \o abc
<1>0. /\ Part(a, x, SaidIn(s)) /\ Part(b, y, SaidIn(s) \cup SaidBy(a, x))
      /\ Part(c, z, SaidIn(s) \cup SaidBy(a, x) \cup SaidBy(b, y))
      /\ Part(d, w, SaidIn(s) \cup SaidBy(a, x) \cup SaidBy(b, y) \cup SaidBy(c, z))
  BY DEF FourParts
<1>1. /\ InOrder(t) /\ a \in Seq(EventTypes) /\ b \in Seq(EventTypes) /\ c \in Seq(EventTypes)
      /\ SaidIn(t) = SaidIn(s) \cup SaidBy(a, x) \cup SaidBy(b, y) \cup SaidBy(c, z)
  BY <1>0, ThreeSaid
<1>2. abc \in Seq(EventTypes)
  BY <1>1, ConcatProperties
<1> HIDE DEF abc
<1>3. t \in Seq(EventTypes)
  BY <1>2, ConcatProperties
<1>4. Part(d, w, SaidIn(t))
  BY <1>0, <1>1
<1> HIDE DEF t
<1>5. InOrder(t \o d) /\ d \in Seq(EventTypes) /\ SaidIn(t \o d) = SaidIn(t) \cup SaidBy(d, w)
  BY <1>1, <1>3, <1>4, MaybeSaid
<1>6. t \o d = s \o (abc \o d)
  BY <1>2, <1>5, ConcatAssociative DEF t
<1>7. QED  BY <1>1, <1>5, <1>6 DEF abc

\* What has been said tells the phase, a crash and a drain.
StreamInv ==
  LET said == SaidIn(events) IN
  /\ InOrder(events)
  /\ "exited" \in said <=> phase = "exited"
  /\ "stopping" \in said <=> phase \in {"stopping", "exited"}
  /\ "stoppedWaiting" \in said => phase = "exited"
  /\ "startFailed" \in said => phase \in {"stopping", "exited"}
  /\ "serving" \in said => phase \in {"serving", "draining", "stopping", "exited"}
  /\ "draining" \in said => phase \in {"draining", "stopping", "exited"}
  /\ "drained" \in said <=> drain.by # "none"
  /\ drain.by # "none" => phase \in {"stopping", "exited"}
  /\ "uncaught" \in said <=> crashed

LEMMA SaysAbandoned ==
  ASSUME TypeOK, StreamInv, phase \in {"building", "starting", "stopping"},
         NEW r, NEW told \in {<<>>, <<"uncaught">>}, told = <<"uncaught">> => ~crashed,
         BuildAbandoned(r, told)
  PROVE  /\ InOrder(events')
         /\ SaidIn(events') =
              SaidIn(events) \cup SaidBy(told, "uncaught") \cup {"stoppedWaiting", "stopping", "exited"}
<1> DEFINE o == <<"stoppedWaiting">>
           p == Passing("stopping")
           q == Passing("exited")
<1>0. /\ InOrder(events) /\ "exited" \notin SaidIn(events) /\ "stoppedWaiting" \notin SaidIn(events)
      /\ "uncaught" \in SaidIn(events) <=> crashed
      /\ "stopping" \in SaidIn(events) <=> phase = "stopping"
      /\ events \in Seq(EventTypes)
  BY DEF StreamInv, TypeOK
<1>1. /\ p = (IF phase = "stopping" THEN <<>> ELSE <<"stopping">>) /\ q = <<"exited">>
      /\ <<"stopping">> # <<>> /\ <<"exited">> # <<>> /\ o # <<>>
  BY DEF Passing, Rank
<1>2. events' = events \o (told \o o \o p \o q)
  BY DEF BuildAbandoned, Emitted
<1>3. Part(told, "uncaught", SaidIn(events)) /\ SaidBy(told, "uncaught") \subseteq {"uncaught"}
  BY <1>0 DEF Part, MaySay, EventTypes, SaidBy
<1>4. Part(o, "stoppedWaiting", SaidIn(events) \cup SaidBy(told, "uncaught"))
  BY <1>0, <1>3 DEF Part, MaySay, EventTypes
<1> HIDE DEF o, p, q
<1>5. /\ SaidBy(o, "stoppedWaiting") = {"stoppedWaiting"}
      /\ SaidBy(p, "stopping") = IF phase = "stopping" THEN {} ELSE {"stopping"}
      /\ SaidBy(q, "exited") = {"exited"}
  BY <1>1 DEF SaidBy
<1>7. Part(p, "stopping", SaidIn(events) \cup SaidBy(told, "uncaught") \cup SaidBy(o, "stoppedWaiting"))
  BY <1>0, <1>1, <1>3, <1>5 DEF Part, MaySay, EventTypes
<1>8. Part(q, "exited", SaidIn(events) \cup SaidBy(told, "uncaught") \cup SaidBy(o, "stoppedWaiting")
                             \cup SaidBy(p, "stopping"))
  BY <1>0, <1>1, <1>3, <1>5 DEF Part, MaySay, EventTypes
<1>9. /\ InOrder(events \o (told \o o \o p \o q))
      /\ SaidIn(events \o (told \o o \o p \o q)) =
           SaidIn(events) \cup SaidBy(told, "uncaught") \cup SaidBy(o, "stoppedWaiting")
                          \cup SaidBy(p, "stopping") \cup SaidBy(q, "exited")
  <2>1. events \in Seq(EventTypes) /\ InOrder(events)  BY <1>0
  <2>2. FourParts(SaidIn(events), told, "uncaught", o, "stoppedWaiting", p, "stopping", q, "exited")
    BY <1>3, <1>4, <1>7, <1>8 DEF FourParts
  <2>3. QED  BY <2>1, <2>2, FourSaid
<1>10. QED  BY <1>0, <1>2, <1>5, <1>9

LEMMA SaysFailed ==
  ASSUME TypeOK, StreamInv, NEW f, NEW failing, LeaveFailed(f, failing)
  PROVE  /\ InOrder(events')
         /\ SaidIn(events') = SaidIn(events) \cup
              (IF phase \in {"stopping", "exited"} THEN {} ELSE {"startFailed", "stopping"})
<1> DEFINE o == IF phase # "stopping" THEN <<"startFailed">> ELSE <<>>
           p == Passing("stopping")
<1>0. /\ InOrder(events)
      /\ "exited" \in SaidIn(events) <=> phase = "exited"
      /\ "stopping" \in SaidIn(events) <=> phase \in {"stopping", "exited"}
      /\ "startFailed" \in SaidIn(events) => phase \in {"stopping", "exited"}
      /\ events \in Seq(EventTypes)
  BY DEF StreamInv, TypeOK
<1>1. CASE phase = "exited"
  BY <1>0, <1>1 DEF LeaveFailed, Emitted
<1>2. CASE phase # "exited"
  <2>1. events' = events \o (o \o p)
    BY <1>2 DEF LeaveFailed, Emitted
  <2>2. /\ p = (IF phase = "stopping" THEN <<>> ELSE <<"stopping">>)
        /\ o = (IF phase = "stopping" THEN <<>> ELSE <<"startFailed">>)
        /\ <<"stopping">> # <<>> /\ <<"startFailed">> # <<>>
    BY <1>2 DEF Passing, Rank, TypeOK, Phases
  <2> HIDE DEF o, p
  <2>3. /\ SaidBy(o, "startFailed") = IF phase = "stopping" THEN {} ELSE {"startFailed"}
        /\ SaidBy(p, "stopping") = IF phase = "stopping" THEN {} ELSE {"stopping"}
    BY <2>2 DEF SaidBy
  <2>4. Part(o, "startFailed", SaidIn(events))
    <3>1. phase # "stopping" => MaySay(SaidIn(events), "startFailed")
      BY <1>0, <1>2 DEF MaySay, EventTypes
    <3>2. QED  BY <2>2, <3>1 DEF Part
  <2>5. Part(p, "stopping", SaidIn(events) \cup SaidBy(o, "startFailed"))
    <3>1. phase # "stopping" => MaySay(SaidIn(events) \cup SaidBy(o, "startFailed"), "stopping")
      BY <1>0, <1>2, <2>3 DEF MaySay, EventTypes
    <3>2. QED  BY <2>2, <3>1 DEF Part
  <2>6. /\ InOrder(events \o (o \o p))
        /\ SaidIn(events \o (o \o p)) =
             SaidIn(events) \cup SaidBy(o, "startFailed") \cup SaidBy(p, "stopping")
    <3>1. events \in Seq(EventTypes) /\ InOrder(events)  BY <1>0
    <3>2. QED  BY <3>1, <2>4, <2>5, TwoSaid
  <2>7. QED  BY <1>2, <2>1, <2>3, <2>6
<1>3. QED  BY <1>1, <1>2

LEMMA SaysOne ==
  ASSUME TypeOK, StreamInv, NEW e \in EventTypes, phase # "exited", MaySay(SaidIn(events), e),
         events' = events \o <<e>>
  PROVE  InOrder(events') /\ SaidIn(events') = SaidIn(events) \cup {e}
<1>1. events \in Seq(EventTypes) /\ InOrder(events)  BY DEF StreamInv, TypeOK
<1>2. QED  BY <1>1, SaidInOrder

LEMMA SaysProbesFailed ==
  ASSUME TypeOK, StreamInv, phase = "building", drain.by = "none", NEW f, ProbesFail(f)
  PROVE  /\ InOrder(events')
         /\ SaidIn(events') = SaidIn(events) \cup {"startFailed", "stopping", "exited"}
<1> DEFINE o == <<"startFailed">>
           p == Passing("stopping")
           q == Passing("exited")
<1>0. /\ InOrder(events) /\ events \in Seq(EventTypes)
      /\ "exited" \notin SaidIn(events) /\ "stopping" \notin SaidIn(events)
      /\ "startFailed" \notin SaidIn(events)
  BY DEF StreamInv, TypeOK
<1>1. /\ p = <<"stopping">> /\ q = <<"exited">>
      /\ <<"stopping">> # <<>> /\ <<"exited">> # <<>> /\ o # <<>>
  BY DEF Passing, Rank
<1>2. events' = events \o (o \o p \o q)
  BY DEF ProbesFail, Emitted
<1>3. /\ SaidBy(o, "startFailed") = {"startFailed"} /\ SaidBy(p, "stopping") = {"stopping"}
      /\ SaidBy(q, "exited") = {"exited"}
  BY <1>1 DEF SaidBy
<1>4. Part(o, "startFailed", SaidIn(events))
  BY <1>0 DEF Part, MaySay, EventTypes
<1> HIDE DEF o, p, q
<1>5. Part(p, "stopping", SaidIn(events) \cup SaidBy(o, "startFailed"))
  <2>1. MaySay(SaidIn(events) \cup {"startFailed"}, "stopping")
    BY <1>0 DEF MaySay, EventTypes
  <2>2. QED  BY <1>1, <1>3, <2>1 DEF Part
<1>6. Part(q, "exited", SaidIn(events) \cup SaidBy(o, "startFailed") \cup SaidBy(p, "stopping"))
  <2>1. MaySay(SaidIn(events) \cup {"startFailed"} \cup {"stopping"}, "exited")
    BY <1>0 DEF MaySay, EventTypes
  <2>2. QED  BY <1>1, <1>3, <2>1 DEF Part
<1>7. /\ InOrder(events \o (o \o p \o q))
      /\ SaidIn(events \o (o \o p \o q)) = SaidIn(events) \cup SaidBy(o, "startFailed")
                                             \cup SaidBy(p, "stopping") \cup SaidBy(q, "exited")
  <2>1. events \in Seq(EventTypes) /\ InOrder(events)  BY <1>0
  <2>2. QED  BY <2>1, <1>4, <1>5, <1>6, ThreeSaid
<1>8. QED  BY <1>2, <1>3, <1>7

LEMMA SaysSettled ==
  ASSUME TypeOK, StreamInv, phase \in {"stopping", "exited"}, ScopeSettles
  PROVE  /\ InOrder(events')
         /\ SaidIn(events') = SaidIn(events) \cup {"exited"}
<1>0. /\ InOrder(events) /\ events \in Seq(EventTypes)
      /\ ("exited" \in SaidIn(events)) <=> phase = "exited"
      /\ ("stopping" \in SaidIn(events))
  BY DEF StreamInv, TypeOK
<1>1. CASE phase = "exited"
  <2>1. events' = events  BY <1>1 DEF ScopeSettles, Emitted
  <2>2. QED  BY <1>0, <1>1, <2>1
<1>2. CASE phase = "stopping"
  <2>1. Passing("stopping") = <<>> /\ Passing("exited") = <<"exited">>
    BY <1>2 DEF Passing, Rank
  <2>2. (IF result \in Failures /\ phase # "stopping" THEN <<"startFailed">> ELSE <<>>) = <<>>
    BY <1>2
  <2>3. (IF result \in Failures THEN Passing("stopping") ELSE <<>>) = <<>>
    BY <2>1
  <2>4. events' = events \o (<<>> \o <<>> \o <<"exited">>)
    BY <1>2, <2>1, <2>2, <2>3 DEF ScopeSettles, Emitted
  <2>5. <<>> \o <<>> \o <<"exited">> = <<"exited">>
    OBVIOUS
  <2>6. MaySay(SaidIn(events), "exited")
    BY <1>0, <1>2 DEF MaySay, EventTypes
  <2>7. QED  BY <1>2, <2>4, <2>5, <2>6, SaysOne DEF EventTypes
<1>3. QED  BY <1>1, <1>2

LEMMA SaysStopAbandoned ==
  ASSUME TypeOK, StreamInv, phase \in {"stopping", "exited"}, StopAbandoned
  PROVE  /\ InOrder(events')
         /\ SaidIn(events') =
              SaidIn(events) \cup (IF phase = "exited" THEN {} ELSE {"stoppedWaiting", "exited"})
<1>0. /\ InOrder(events) /\ events \in Seq(EventTypes)
      /\ ("exited" \in SaidIn(events)) <=> phase = "exited"
      /\ ("stoppedWaiting" \in SaidIn(events)) => phase = "exited"
      /\ ("stopping" \in SaidIn(events))
  BY DEF StreamInv, TypeOK
<1>1. CASE phase = "exited"
  <2>1. events' = events  BY <1>1 DEF StopAbandoned, Emitted
  <2>2. QED  BY <1>0, <1>1, <2>1
<1>2. CASE phase = "stopping"
  <2> DEFINE o == <<"stoppedWaiting">>
             q == <<"exited">>
  <2>1. Passing("exited") = q  BY <1>2 DEF Passing, Rank
  <2>2. events' = events \o (o \o q)
    BY <1>2, <2>1 DEF StopAbandoned, Emitted
  <2>3. SaidBy(o, "stoppedWaiting") = {"stoppedWaiting"} /\ SaidBy(q, "exited") = {"exited"}
    BY DEF SaidBy
  <2>4. Part(o, "stoppedWaiting", SaidIn(events))
    BY <1>0, <1>2 DEF Part, MaySay, EventTypes
  <2>5. Part(q, "exited", SaidIn(events) \cup SaidBy(o, "stoppedWaiting"))
    <3>1. MaySay(SaidIn(events) \cup {"stoppedWaiting"}, "exited")
      BY <1>0, <1>2 DEF MaySay, EventTypes
    <3>2. QED  BY <2>3, <3>1 DEF Part
  <2> HIDE DEF o, q
  <2>6. /\ InOrder(events \o (o \o q))
        /\ SaidIn(events \o (o \o q)) =
             SaidIn(events) \cup SaidBy(o, "stoppedWaiting") \cup SaidBy(q, "exited")
    <3>1. events \in Seq(EventTypes) /\ InOrder(events)  BY <1>0
    <3>2. QED  BY <3>1, <2>4, <2>5, TwoSaid
  <2>7. QED  BY <1>2, <2>2, <2>3, <2>6
<1>3. QED  BY <1>1, <1>2

LEMMA SaysDrained ==
  ASSUME TypeOK, StreamInv, phase = "draining", NEW by, SettleDrain(by)
  PROVE  /\ InOrder(events')
         /\ SaidIn(events') = SaidIn(events) \cup {"drained", "stopping"}
<1> DEFINE o == <<"drained">>
           q == <<"stopping">>
<1>0. /\ InOrder(events) /\ events \in Seq(EventTypes)
      /\ "exited" \notin SaidIn(events) /\ "stopping" \notin SaidIn(events)
      /\ "drained" \notin SaidIn(events)
  BY DEF StreamInv, TypeOK
<1>1. Passing("stopping") = q  BY DEF Passing, Rank
<1>2. events' = events \o (o \o q)
  BY <1>1 DEF SettleDrain, Emitted
<1>3. SaidBy(o, "drained") = {"drained"} /\ SaidBy(q, "stopping") = {"stopping"}
  BY DEF SaidBy
<1>4. Part(o, "drained", SaidIn(events))
  BY <1>0 DEF Part, MaySay, EventTypes
<1>5. Part(q, "stopping", SaidIn(events) \cup SaidBy(o, "drained"))
  <2>1. MaySay(SaidIn(events) \cup {"drained"}, "stopping")
    BY <1>0 DEF MaySay, EventTypes
  <2>2. QED  BY <1>3, <2>1 DEF Part
<1> HIDE DEF o, q
<1>6. /\ InOrder(events \o (o \o q))
      /\ SaidIn(events \o (o \o q)) =
           SaidIn(events) \cup SaidBy(o, "drained") \cup SaidBy(q, "stopping")
  <2>1. events \in Seq(EventTypes) /\ InOrder(events)  BY <1>0
  <2>2. QED  BY <2>1, <1>4, <1>5, TwoSaid
<1>7. QED  BY <1>2, <1>3, <1>6

ReportTrue ==
  exited.kind = "report" =>
    /\ exited.drained <=> drain.by # "none"
    /\ exited.abandonedAt # "none" <=> "stoppedWaiting" \in SaidIn(events)
    /\ exited.reason = "uncaught" <=> crashed

\* What the report will be made of: only a crash is the reason `uncaught`, and a chain that
\* stops has drained exactly if a signal asked for it.
DecidedTrue ==
  /\ reason = "uncaught" => crashed
  /\ abandonedBuild = "uncaught" => crashed
  /\ stopping = "stopped" \/ result = "stopped" => (reason = "signal" <=> drain.by # "none")
  /\ drain.by # "none" => ~startupFailing

SaidInv == StreamInv /\ ReportTrue /\ DecidedTrue

\* Once the lifecycle has exited nothing is said, crashes or drains, so the report stays true.
LEMMA ReportKept ==
  ASSUME SaidInv, ControlInv, UNCHANGED <<exited, crashed>>, drain'.by = drain.by,
         phase # "exited" \/ UNCHANGED events
  PROVE  ReportTrue'
BY DEF SaidInv, ReportTrue, ControlInv, ExitFollowsPhase

LEMMA SaidByAbandoning ==
  ASSUME TypeOK, ControlInv, SaidInv, phase \in {"building", "starting", "stopping"},
         drain.by = "none", drain' = drain,
         NEW r, NEW told \in {<<>>, <<"uncaught">>}, BuildAbandoned(r, told),
         told = <<"uncaught">> <=> crashed' /\ ~crashed, crashed' <=> crashed \/ r = "uncaught"
  PROVE  StreamInv' /\ ReportTrue'
<1>1. /\ InOrder(events')
      /\ SaidIn(events') =
           SaidIn(events) \cup SaidBy(told, "uncaught") \cup {"stoppedWaiting", "stopping", "exited"}
  BY SaysAbandoned DEF SaidInv
<1>2. phase' = "exited"  BY BuildAbandonedEffect
<1>3. SaidBy(told, "uncaught") = IF told = <<"uncaught">> THEN {"uncaught"} ELSE {}
  <2>1. <<"uncaught">> # <<>>  OBVIOUS
  <2>2. QED  BY <2>1 DEF SaidBy
<1>4. StreamInv'
  BY <1>1, <1>2, <1>3 DEF SaidInv, StreamInv
<1>5. exited' = ReportOf(r, FALSE, "build")
  <2>1. exited.kind = "pending"  BY DEF ControlInv, ExitFollowsPhase
  <2>2. QED  BY <2>1 DEF BuildAbandoned, Exit
<1>6. ReportTrue'
  <2>1. "stoppedWaiting" \in SaidIn(events')  BY <1>1
  <2>2. /\ exited'.drained = FALSE /\ exited'.abandonedAt = "build"
        /\ exited'.reason = IF crashed THEN "uncaught" ELSE r
    BY <1>5 DEF ReportOf
  <2>3. QED  BY <2>1, <2>2 DEF ReportTrue
<1>7. QED  BY <1>4, <1>6

LEMMA SaidRequests == TypeInv /\ ControlInv /\ CleanInv /\ SaidInv /\ Requests => SaidInv'
<1> SUFFICES ASSUME TypeInv, ControlInv, CleanInv, SaidInv, Requests
             PROVE  SaidInv'
  OBVIOUS
<1>0. TypeOK  BY DEF TypeInv
<1> USE DEF trackerVars, scopeVars, finaliserVars, runtimeVars, callVars, stopVars, exitVars
\* A request that abandons nothing: a reason, once there is one, stays.
<1>1. ASSUME UNCHANGED <<events, phase, crashed, drain, stopping, result, startupFailing, exited>>,
             reason' = reason \/ (reason = "none" /\ reason' # "uncaught"),
             abandonedBuild' = "uncaught" => crashed
      PROVE  SaidInv'
  <2>1. StreamInv'  BY <1>1 DEF SaidInv, StreamInv
  <2>2. ReportTrue'  BY <1>1 DEF SaidInv, ReportTrue
  <2>3. "stopped" \in {stopping, result} => reason # "none"  BY DEF TypeInv
  <2>4. DecidedTrue'  BY <1>1, <2>3 DEF SaidInv, DecidedTrue
  <2>5. QED  BY <2>1, <2>2, <2>4 DEF SaidInv
<1>2. "uncaught" = abandonedBuild => crashed  BY DEF SaidInv, DecidedTrue
<1>3. CASE FirstSignal  BY <1>1, <1>2, <1>3 DEF FirstSignal, RequestShutdown
<1>4. phase \in {"building", "starting"} => drain.by = "none"
  BY DEF SaidInv, StreamInv
<1>5. CASE SecondSignal
  <2>1. AbandonBuild("signal", <<>>)  BY <1>5 DEF SecondSignal
  <2>2. UNCHANGED <<crashed, drain, stopping, result, startupFailing, reason>>
    BY <1>5 DEF SecondSignal
  <2>3. CASE Abandonable("signal") /\ main # "binding"
    <3>1. BuildAbandoned("signal", <<>>) /\ abandonedBuild' = "signal"
      BY <1>0, <2>1, <2>3, AbandonBuildEffect
    <3>2. phase \in {"building", "starting"}  BY <2>3 DEF Abandonable
    <3>3. <<>> # <<"uncaught">>  OBVIOUS
    <3>4. StreamInv' /\ ReportTrue'
      BY <1>0, <1>4, <2>2, <3>1, <3>2, <3>3, SaidByAbandoning
    <3>5. DecidedTrue'  BY <2>2, <3>1 DEF SaidInv, DecidedTrue
    <3>6. QED  BY <3>4, <3>5 DEF SaidInv
  <2>4. CASE ~(Abandonable("signal") /\ main # "binding")
    <3>1. UNCHANGED <<phase, exited>> /\ abandonedBuild' \in {abandonedBuild, "signal"}
      BY <1>0, <2>1, <2>4, AbandonBuildEffect
    <3>2. events' = events
      BY <1>0, <2>1, <2>4 DEF AbandonBuild, Emitted, TypeOK
    <3>3. QED  BY <1>1, <1>2, <2>2, <3>1, <3>2
  <2>5. QED  BY <2>3, <2>4
<1>6. CASE Uncaught
  <2>1. AbandonBuild("uncaught", <<"uncaught">>)  BY <1>6 DEF Uncaught
  <2>2. /\ UNCHANGED <<drain, stopping, result, startupFailing>>
        /\ ~crashed /\ crashed' /\ reason' = IF reason = "none" THEN "uncaught" ELSE reason
    BY <1>6 DEF Uncaught, RequestShutdown
  <2>3. phase # "exited"  BY <1>6 DEF Uncaught, ControlInv, ExitFollowsPhase
  <2>4. DecidedTrue'
    <3>1. "stopped" \in {stopping, result} => reason # "none"  BY DEF TypeInv
    <3>2. QED  BY <2>2, <3>1 DEF SaidInv, DecidedTrue
  <2>5. CASE Abandonable("uncaught") /\ main # "binding"
    <3>1. BuildAbandoned("uncaught", <<"uncaught">>)
      BY <1>0, <2>1, <2>5, AbandonBuildEffect
    <3>2. phase \in {"building", "starting", "stopping"} /\ drain.by = "none"
      BY <1>4, <2>3, <2>5 DEF Abandonable, SaidInv, DecidedTrue, ControlInv, StopArmedAfterServing
    <3>3. StreamInv' /\ ReportTrue'
      BY <1>0, <2>2, <3>1, <3>2, SaidByAbandoning
    <3>4. QED  BY <2>4, <3>3 DEF SaidInv
  <2>6. CASE ~(Abandonable("uncaught") /\ main # "binding")
    <3>1. UNCHANGED <<phase, exited>>
      BY <1>0, <2>1, <2>6, AbandonBuildEffect
    <3>2. events' = events \o <<"uncaught">>
      BY <2>1, <2>3, <2>6 DEF AbandonBuild, Emitted
    <3>3. MaySay(SaidIn(events), "uncaught")
      BY <2>2, <2>3 DEF MaySay, EventTypes, SaidInv, StreamInv
    <3>4. InOrder(events') /\ SaidIn(events') = SaidIn(events) \cup {"uncaught"}
      BY <1>0, <2>3, <3>2, <3>3, SaysOne DEF SaidInv, EventTypes
    <3>5. StreamInv'  BY <2>2, <3>1, <3>4 DEF SaidInv, StreamInv
    <3>6. ReportTrue'  BY <2>3, <3>1 DEF ReportTrue, ControlInv, ExitFollowsPhase
    <3>7. QED  BY <2>4, <3>5, <3>6 DEF SaidInv
  <2>7. QED  BY <2>5, <2>6
<1>7. ASSUME NEW r \in {"signal", "runtimeStopped"}, CallerRequests(r)
      PROVE  SaidInv'
  BY <1>1, <1>2, <1>7 DEF CallerRequests, RequestShutdown
<1>8. CASE RuntimeStopped  BY <1>1, <1>2, <1>8 DEF RuntimeStopped, RequestShutdown
<1>9. QED  BY <1>3, <1>5, <1>6, <1>7, <1>8 DEF Requests

\* A step that says nothing, or says what SaysFailed lists, and settles nothing.
LEMMA SaidByFailing ==
  ASSUME TypeInv, ControlInv, SaidInv, NEW f \in Failures, NEW failing, LeaveFailed(f, failing),
         UNCHANGED <<crashed, drain, exited, reason, abandonedBuild>>,
         drain.by # "none" => ~failing
  PROVE  SaidInv'
<1>0. TypeOK  BY DEF TypeInv
<1>1. /\ InOrder(events')
      /\ SaidIn(events') = SaidIn(events) \cup
           (IF phase \in {"stopping", "exited"} THEN {} ELSE {"startFailed", "stopping"})
  BY <1>0, SaysFailed DEF SaidInv
<1>2. /\ phase' = IF phase = "exited" THEN "exited" ELSE "stopping"
      /\ stopping' = IF stopping = "none" THEN f ELSE stopping
      /\ result' = f /\ startupFailing' = failing
  BY <1>0, LeaveFailedEffect
<1>3. StreamInv'  BY <1>1, <1>2 DEF SaidInv, StreamInv
<1>4. ReportTrue'
  <2>1. ("stoppedWaiting" \in SaidIn(events')) <=> ("stoppedWaiting" \in SaidIn(events))
    BY <1>1
  <2>2. QED  BY <2>1 DEF SaidInv, ReportTrue
<1>5. f # "stopped"  BY DEF Failures
<1>6. DecidedTrue'  BY <1>2, <1>5 DEF SaidInv, DecidedTrue
<1>7. QED  BY <1>3, <1>4, <1>6 DEF SaidInv

\* A step that says nothing and settles nothing.
LEMMA SaidNothing ==
  ASSUME SaidInv, UNCHANGED <<events, crashed, drain, exited>>,
         phase' = phase \/ (phase = "building" /\ phase' = "starting"), DecidedTrue'
  PROVE  SaidInv'
<1>1. StreamInv'  BY DEF SaidInv, StreamInv
<1>2. ReportTrue'  BY DEF SaidInv, ReportTrue
<1>3. QED  BY <1>1, <1>2 DEF SaidInv

LEMMA SaidStarting == TypeInv /\ ControlInv /\ DrainInv /\ SaidInv /\ Starting => SaidInv'
<1> SUFFICES ASSUME TypeInv, ControlInv, DrainInv, SaidInv, Starting
             PROVE  SaidInv'
  OBVIOUS
<1> USE DEF trackerVars, scopeVars, finaliserVars, runtimeVars, callVars, stopVars, exitVars, requestVars
<1>0. TypeOK  BY DEF TypeInv
<1>1. main \in Unserved => drain.by = "none"
  BY DEF DrainInv, IdleMeansEmpty
<1>2. CASE ProbesUp
  <2>0. UNCHANGED <<crashed, drain, reason, abandonedBuild, stopping, result, startupFailing>>
    BY <1>2 DEF ProbesUp
  <2>1. phase = "building" /\ main = "binding"
    BY <1>2 DEF ProbesUp, ControlInv, PhaseFollowsControl
  <2>2. DecidedTrue'  BY <2>0 DEF SaidInv, DecidedTrue
  <2>3. CASE abandonedBuild # "none"
    <3>1. BuildAbandoned(abandonedBuild, <<>>)  BY <1>2, <2>3 DEF ProbesUp
    <3>2. <<>> # <<"uncaught">>  OBVIOUS
    <3>3. abandonedBuild = "uncaught" => crashed  BY DEF SaidInv, DecidedTrue
    <3>4. StreamInv' /\ ReportTrue'
      BY <1>0, <1>1, <2>0, <2>1, <3>1, <3>2, <3>3, SaidByAbandoning DEF Unserved
    <3>5. QED  BY <2>2, <3>4 DEF SaidInv
  <2>4. CASE abandonedBuild = "none"
    <3>1. UNCHANGED <<events, phase, exited>>  BY <1>2, <2>4 DEF ProbesUp
    <3>2. QED  BY <2>0, <2>2, <3>1, SaidNothing
  <2>5. QED  BY <2>3, <2>4
<1>3. ASSUME NEW f \in {"config", "err"}, ProbesFail(f)
      PROVE  SaidInv'
  <2>0. UNCHANGED <<crashed, drain, reason, abandonedBuild, stopping, startupFailing>> /\ result' = f
    BY <1>3 DEF ProbesFail
  <2>1. phase = "building" /\ main = "binding" /\ exited.kind = "pending"
    BY <1>3 DEF ProbesFail, ControlInv, PhaseFollowsControl, ExitFollowsPhase
  <2>2. /\ InOrder(events')
        /\ SaidIn(events') = SaidIn(events) \cup {"startFailed", "stopping", "exited"}
    BY <1>0, <1>1, <1>3, <2>1, SaysProbesFailed DEF SaidInv, Unserved
  <2>3. phase' = "exited"  BY <1>0, <1>3, AdvancedTo DEF ProbesFail, DisposeAll
  <2>4. StreamInv'  BY <2>0, <2>2, <2>3 DEF SaidInv, StreamInv
  <2>5. exited' = Failed(f)  BY <1>3, <2>1 DEF ProbesFail, Exit
  <2>6. ReportTrue'  BY <2>5 DEF ReportTrue, Failed
  <2>7. DecidedTrue'  BY <2>0 DEF SaidInv, DecidedTrue
  <2>8. QED  BY <2>4, <2>6, <2>7 DEF SaidInv
<1>4. ASSUME UNCHANGED <<crashed, drain, reason, abandonedBuild, stopping, startupFailing>>,
             result' # "stopped" \/ result' = result
      PROVE  DecidedTrue'
  BY <1>4 DEF SaidInv, DecidedTrue
<1>5. CASE Acquire  BY <1>4, <1>5, SaidNothing DEF Acquire
<1>6. ASSUME NEW f \in Failures, ConstructionFails(f)
      PROVE  SaidInv'
  <2>1. drain.by = "none"  BY <1>1, <1>6 DEF ConstructionFails, Unserved
  <2>2. QED  BY <1>6, <2>1, SaidByFailing DEF ConstructionFails
<1>7. CASE ServeAbandoned  BY <1>4, <1>7, SaidNothing DEF ServeAbandoned
<1>8. CASE StartRuntime
  <2>1. phase' = phase \/ (phase = "building" /\ phase' = "starting")
    BY <1>0, <1>8, AdvancedTo DEF StartRuntime, ControlInv, AbandonedBuildExits, PhaseFollowsControl, Advanced, Rank
  <2>2. QED  BY <1>4, <1>8, <2>1, SaidNothing DEF StartRuntime
<1>9. ASSUME NEW f \in Failures, RuntimeRefuses(f)
      PROVE  SaidInv'
  <2>1. drain.by = "none"  BY <1>1, <1>9 DEF RuntimeRefuses, Unserved
  <2>2. QED  BY <1>9, <2>1, SaidByFailing DEF RuntimeRefuses
<1>10. CASE RuntimeServes
  <2>1. phase = "starting" /\ phase' = "serving"
    <3>1. phase = "starting"
      BY <1>10 DEF RuntimeServes, ControlInv, PhaseFollowsControl, AbandonedBuildExits, Unserved
    <3>2. QED  BY <1>0, <1>10, <3>1, AdvancedTo DEF RuntimeServes
  <2>2. events' = events \o <<"serving">>
    BY <1>10, <2>1 DEF RuntimeServes, Emitted, Passing, Rank
  <2>3. MaySay(SaidIn(events), "serving")
    BY <2>1 DEF MaySay, EventTypes, SaidInv, StreamInv
  <2>4. InOrder(events') /\ SaidIn(events') = SaidIn(events) \cup {"serving"}
    BY <1>0, <2>1, <2>2, <2>3, SaysOne DEF SaidInv, EventTypes
  <2>5. UNCHANGED <<crashed, drain, reason, abandonedBuild, stopping, result, startupFailing, exited>>
    BY <1>10 DEF RuntimeServes
  <2>6. StreamInv'  BY <2>1, <2>4, <2>5 DEF SaidInv, StreamInv
  <2>7. ReportTrue'  BY <2>1, <2>5, ReportKept
  <2>8. QED  BY <1>4, <2>5, <2>6, <2>7 DEF SaidInv
<1>11. CASE RuntimeUpTooLate  BY <1>4, <1>11, SaidNothing DEF RuntimeUpTooLate
<1>12. QED
  BY <1>2, <1>3, <1>5, <1>6, <1>7, <1>8, <1>9, <1>10, <1>11 DEF Starting

LEMMA SaidEnding == TypeInv /\ ControlInv /\ CleanInv /\ DrainInv /\ SaidInv /\ Ending => SaidInv'
<1> SUFFICES ASSUME TypeInv, ControlInv, CleanInv, DrainInv, SaidInv, Ending
             PROVE  SaidInv'
  OBVIOUS
<1> USE DEF trackerVars, scopeVars, finaliserVars, runtimeVars, callVars, stopVars, exitVars, requestVars
<1>0. TypeOK  BY DEF TypeInv
<1>1. main \in {"stopping", "closing"} => phase \in {"stopping", "exited"}
  BY DEF ControlInv, PhaseFollowsControl
<1>2. phase = "serving" => drain.by = "none"
  BY DEF SaidInv, StreamInv
\* One event is said on a way that is not given up.
<1>3. ASSUME NEW e \in EventTypes, phase # "exited", MaySay(SaidIn(events), e),
             events' = events \o <<e>>, UNCHANGED <<exited, crashed>>, drain'.by = drain.by
      PROVE  ReportTrue' /\ InOrder(events') /\ SaidIn(events') = SaidIn(events) \cup {e}
  BY <1>0, <1>3, SaysOne, ReportKept DEF SaidInv
<1>4. CASE FinishAborting
  <2>1. main = "serving" /\ phase = "serving" /\ phase' = "stopping" /\ reason # "signal"
    BY <1>0, <1>4, AdvancedTo DEF FinishAborting, EnterStopping, ControlInv, PhaseFollowsControl
  <2>2. UNCHANGED <<crashed, drain, reason, abandonedBuild, startupFailing, exited>>
    BY <1>4 DEF FinishAborting
  <2>3. events' = events \o <<"stopping">>
    BY <1>4, <2>1 DEF FinishAborting, Emitted, Passing, Rank
  <2>4. MaySay(SaidIn(events), "stopping")
    BY <2>1 DEF MaySay, EventTypes, SaidInv, StreamInv
  <2>5. ReportTrue' /\ InOrder(events') /\ SaidIn(events') = SaidIn(events) \cup {"stopping"}
    BY <1>3, <2>1, <2>2, <2>3, <2>4 DEF EventTypes
  <2>6. StreamInv'  BY <2>1, <2>2, <2>5 DEF SaidInv, StreamInv
  <2>7. DecidedTrue'  BY <1>2, <2>1, <2>2 DEF SaidInv, DecidedTrue
  <2>8. QED  BY <2>5, <2>6, <2>7 DEF SaidInv
<1>5. CASE BeginDrain
  <2>1. phase = "serving" /\ phase' = "draining"
    BY <1>0, <1>5, AdvancedTo DEF BeginDrain, ControlInv, PhaseFollowsControl
  <2>2. UNCHANGED <<crashed, reason, abandonedBuild, startupFailing, exited, stopping, result>>
    BY <1>5 DEF BeginDrain
  <2>3. drain'.by = drain.by  BY <1>0, <1>5 DEF BeginDrain, TypeOK, DrainRecords
  <2>4. events' = events \o <<"draining">>
    BY <1>5, <2>1 DEF BeginDrain, Emitted
  <2>5. MaySay(SaidIn(events), "draining")
    BY <1>2, <2>1 DEF MaySay, EventTypes, SaidInv, StreamInv
  <2>6. ReportTrue' /\ InOrder(events') /\ SaidIn(events') = SaidIn(events) \cup {"draining"}
    BY <1>3, <2>1, <2>2, <2>3, <2>4, <2>5 DEF EventTypes
  <2>7. StreamInv'  BY <1>2, <2>1, <2>2, <2>3, <2>6 DEF SaidInv, StreamInv
  <2>8. DecidedTrue'  BY <2>2, <2>3 DEF SaidInv, DecidedTrue
  <2>9. QED  BY <2>6, <2>7, <2>8 DEF SaidInv
<1>6. ASSUME UNCHANGED <<crashed, drain, reason, abandonedBuild, stopping, result, startupFailing>>
      PROVE  DecidedTrue'
  BY <1>6 DEF SaidInv, DecidedTrue
<1>7. CASE PreDrainOver  BY <1>6, <1>7, SaidNothing DEF PreDrainOver
<1>8. CASE DrainCallSettles  BY <1>6, <1>8, SaidNothing DEF DrainCallSettles
<1>9. ASSUME NEW by \in {"idle", "deadline"}, main = "draining", SettleDrain(by)
      PROVE  SaidInv'
  <2>1. phase = "draining" /\ phase' = "stopping" /\ exited.kind = "pending"
    BY <1>0, <1>9, AdvancedTo
    DEF SettleDrain, EnterStopping, ControlInv, PhaseFollowsControl, ExitFollowsPhase
  <2>2. UNCHANGED <<crashed, reason, abandonedBuild, startupFailing, exited>>
    BY <1>9 DEF SettleDrain
  <2>3. drain'.by = by  BY <1>0, <1>9 DEF SettleDrain, TypeOK, DrainRecords
  <2>4. InOrder(events') /\ SaidIn(events') = SaidIn(events) \cup {"drained", "stopping"}
    BY <1>0, <1>9, <2>1, SaysDrained DEF SaidInv
  <2>5. StreamInv'  BY <2>1, <2>2, <2>3, <2>4 DEF SaidInv, StreamInv
  <2>6. ReportTrue'  BY <2>1, <2>2 DEF ReportTrue
  <2>7. reason = "signal"  BY <1>9 DEF CleanInv, DrainIsOfASignal
  <2>8. ~startupFailing  BY <2>1 DEF ControlInv, StopArmedAfterServing
  <2>9. DecidedTrue'  BY <2>2, <2>3, <2>7, <2>8 DEF SaidInv, DecidedTrue
  <2>10. QED  BY <2>5, <2>6, <2>9 DEF SaidInv
<1>10. CASE DrainedIdle  BY <1>9, <1>10 DEF DrainedIdle
<1>11. CASE DrainDeadline  BY <1>9, <1>11 DEF DrainDeadline
<1>12. "defect" \in Failures  BY DEF Failures
<1>13. CASE DrainDefects
  <2>1. phase = "draining"  BY <1>13 DEF DrainDefects, ControlInv, PhaseFollowsControl
  <2>2. drain.by = "none"  BY <2>1 DEF SaidInv, StreamInv
  <2>3. QED  BY <1>12, <1>13, <2>2, SaidByFailing DEF DrainDefects
<1>14. CASE ServingStopped  BY <1>6, <1>14, SaidNothing DEF ServingStopped
<1>15. CASE ServingStopDefects
  <2>1. phase # "starting"  BY <1>1, <1>15 DEF ServingStopDefects
  <2>2. drain.by # "none" => ~startupFailing  BY DEF SaidInv, DecidedTrue
  <2>3. QED  BY <1>12, <1>15, <2>1, <2>2, SaidByFailing DEF ServingStopDefects
<1>16. ASSUME NEW ok \in BOOLEAN, Release(ok)
       PROVE  SaidInv'
  <2>1. UNCHANGED <<crashed, drain, reason, abandonedBuild, stopping, result, startupFailing, exited, phase>>
    BY <1>16 DEF Release
  <2>2. CASE events' = events  BY <1>6, <2>1, <2>2, SaidNothing
  <2>3. CASE phase # "exited" /\ events' = events \o <<"teardownError">>
    <3>1. MaySay(SaidIn(events), "teardownError")
      BY <2>3 DEF MaySay, EventTypes, SaidInv, StreamInv
    <3>2. /\ ReportTrue' /\ InOrder(events')
          /\ SaidIn(events') = SaidIn(events) \cup {"teardownError"}
      BY <1>3, <2>1, <2>3, <3>1 DEF EventTypes
    <3>3. StreamInv'  BY <2>1, <3>2 DEF SaidInv, StreamInv
    <3>4. QED  BY <1>6, <2>1, <3>2, <3>3 DEF SaidInv
  <2>4. QED  BY <1>16, <2>2, <2>3 DEF Release, Emitted
<1>17. CASE ScopeSettles
  <2>1. phase \in {"stopping", "exited"} /\ phase' = "exited"
    BY <1>0, <1>1, <1>17, AdvancedTo DEF ScopeSettles, DisposeAll
  <2>2. UNCHANGED <<crashed, drain, reason, abandonedBuild, stopping, result, startupFailing>>
    BY <1>17 DEF ScopeSettles
  <2>3. InOrder(events') /\ SaidIn(events') = SaidIn(events) \cup {"exited"}
    BY <1>0, <1>17, <2>1, SaysSettled DEF SaidInv
  <2>4. StreamInv'  BY <2>1, <2>2, <2>3 DEF SaidInv, StreamInv
  <2>5. ReportTrue'
    <3>0. ("stoppedWaiting" \in SaidIn(events')) <=> ("stoppedWaiting" \in SaidIn(events))
      BY <2>3
    <3>1. Exit(Answer(result, "none"))  BY <1>17 DEF ScopeSettles
    <3>2. result \in Failures \cup {"stopped", "abandoned"}
      BY <1>0, <1>17 DEF ScopeSettles, TypeInv, TypeOK
    <3>3. CASE phase = "exited"
      <4>1. exited' = exited
        BY <3>1, <3>2, <3>3, AnswerSettles, ExitSettles DEF ControlInv, ExitFollowsPhase
      <4>2. QED  BY <2>2, <3>0, <4>1 DEF SaidInv, ReportTrue
    <3>4. CASE phase = "stopping"
      <4>1. exited' = Answer(result, "none")
        BY <3>1, <3>2, <3>4, AnswerSettles, ExitSettles DEF ControlInv, ExitFollowsPhase
      <4>2. CASE result \in Failures
        BY <4>1, <4>2, AnswerOfFailure DEF ReportTrue, Failed
      <4>3. result # "abandoned"  BY <3>4 DEF ControlInv, StopArmedAfterServing
      <4>4. CASE result = "stopped"
        <5>1. exited' = ReportOf(reason, reason = "signal", "none")
          BY <4>1, <4>4 DEF Answer, Failures
        <5>2. /\ exited'.drained <=> reason = "signal"
              /\ exited'.abandonedAt = "none"
              /\ exited'.reason = IF crashed THEN "uncaught" ELSE reason
          BY <5>1 DEF ReportOf
        <5>3. "stoppedWaiting" \notin SaidIn(events)
          BY <3>4 DEF SaidInv, StreamInv
        <5>4. QED  BY <2>2, <3>0, <4>4, <5>2, <5>3 DEF SaidInv, ReportTrue, DecidedTrue
      <4>5. QED  BY <3>2, <4>2, <4>3, <4>4
    <3>5. QED  BY <2>1, <3>3, <3>4
  <2>6. QED  BY <1>6, <2>2, <2>4, <2>5 DEF SaidInv
<1>18. CASE StopAbandoned
  <2>1. phase \in {"stopping", "exited"} /\ phase' = "exited"
    BY <1>0, <1>18, AdvancedTo
    DEF StopAbandoned, DisposeAll, ControlInv, StopArmedAfterServing, PhaseFollowsControl
  <2>2. UNCHANGED <<crashed, drain, reason, abandonedBuild, stopping, result, startupFailing>>
    BY <1>18 DEF StopAbandoned
  <2>3. /\ InOrder(events')
        /\ SaidIn(events') =
             SaidIn(events) \cup (IF phase = "exited" THEN {} ELSE {"stoppedWaiting", "exited"})
    BY <1>0, <1>18, <2>1, SaysStopAbandoned DEF SaidInv
  <2>4. StreamInv'  BY <2>1, <2>2, <2>3 DEF SaidInv, StreamInv
  <2>5. ReportTrue'
    <3>1. Exit(Answer(stopping, "stop"))  BY <1>18 DEF StopAbandoned
    <3>2. stopping \in Failures \cup {"stopped"}  BY <1>0, <1>18 DEF StopAbandoned, TypeOK
    <3>3. CASE phase = "exited"
      <4>1. exited' = exited
        BY <3>1, <3>2, <3>3, AnswerSettles, ExitSettles DEF ControlInv, ExitFollowsPhase
      <4>2. SaidIn(events') = SaidIn(events)  BY <2>3, <3>3
      <4>3. QED  BY <2>2, <4>1, <4>2 DEF SaidInv, ReportTrue
    <3>4. CASE phase = "stopping"
      <4>1. exited' = Answer(stopping, "stop")
        BY <3>1, <3>2, <3>4, AnswerSettles, ExitSettles DEF ControlInv, ExitFollowsPhase
      <4>2. CASE stopping \in Failures
        BY <4>1, <4>2, AnswerOfFailure DEF ReportTrue, Failed
      <4>3. CASE stopping = "stopped"
        <5>1. exited' = ReportOf(reason, reason = "signal", "stop")
          BY <4>1, <4>3 DEF Answer, Failures
        <5>2. /\ exited'.drained <=> reason = "signal"
              /\ exited'.abandonedAt = "stop"
              /\ exited'.reason = IF crashed THEN "uncaught" ELSE reason
          BY <5>1 DEF ReportOf
        <5>3. "stoppedWaiting" \in SaidIn(events')
          BY <2>3, <3>4
        <5>4. QED  BY <2>2, <4>3, <5>2, <5>3 DEF SaidInv, ReportTrue, DecidedTrue
      <4>4. QED  BY <3>2, <4>2, <4>3
    <3>5. QED  BY <2>1, <3>3, <3>4
  <2>6. QED  BY <1>6, <2>2, <2>4, <2>5 DEF SaidInv
<1>19. CASE StopWithdrawn  BY <1>6, <1>19, SaidNothing DEF StopWithdrawn
<1>20. QED
  BY <1>4, <1>5, <1>7, <1>8, <1>10, <1>11, <1>13, <1>14, <1>15, <1>16, <1>17, <1>18, <1>19
  DEF Ending

LEMMA SaidCorrect == Spec => []SaidInv
<1>1. Init => SaidInv
  <2>1. ASSUME Init
        PROVE  SaidIn(events) = {"building"} /\ InOrder(events)
    <3>1. events = <<"building">> /\ Len(events) = 1 /\ events[1] = "building"
      BY <2>1 DEF Init
    <3>2. 1..Len(events) = {1}  BY <3>1
    <3>3. QED  BY <3>1, <3>2 DEF SaidIn, InOrder
  <2>2. ASSUME Init
        PROVE  /\ phase = "building" /\ ~crashed /\ drain.by = "none" /\ exited.kind = "pending"
               /\ reason = "none" /\ abandonedBuild = "none" /\ stopping = "none"
               /\ result = "none"
    BY <2>2 DEF Init, NoDrain, Pending
  <2>3. ASSUME Init
        PROVE  StreamInv
    BY <2>1, <2>2, <2>3 DEF StreamInv
  <2>4. ASSUME Init
        PROVE  ReportTrue /\ DecidedTrue
    BY <2>2, <2>4 DEF ReportTrue, DecidedTrue
  <2>5. QED  BY <2>3, <2>4 DEF SaidInv
<1>2. TypeInv /\ ControlInv /\ CleanInv /\ DrainInv /\ SaidInv /\ [Next]_vars => SaidInv'
  <2> SUFFICES ASSUME TypeInv, ControlInv, CleanInv, DrainInv, SaidInv, [Next]_vars
               PROVE  SaidInv'
    OBVIOUS
  <2>1. ASSUME UNCHANGED <<events, crashed, drain, exited, phase, reason, abandonedBuild,
                           stopping, result, startupFailing>>
        PROVE  SaidInv'
    BY <2>1 DEF SaidInv, StreamInv, ReportTrue, DecidedTrue
  <2>2. CASE Units
    BY <2>1, <2>2
    DEF Units, RunUnit, SettleUnit, trackerVars, requestVars, scopeVars, runtimeVars, callVars,
        stopVars, exitVars
  <2>3. CASE UNCHANGED vars
    BY <2>1, <2>3
    DEF vars, trackerVars, requestVars, scopeVars, runtimeVars, callVars, stopVars, exitVars
  <2>4. QED
    BY <2>2, <2>3, SaidRequests, SaidStarting, SaidEnding DEF Next
<1>3. QED  BY <1>1, <1>2, ControlCorrect, CleanCorrect, DrainCorrect, PTL DEF Spec

\* The event stream is the lifecycle's, in its order and closed by `exited`, and the report
\* says of drain, crash and giving up what the stream has said: for every path out and for
\* what a losing arm of the race does afterwards.
THEOREM AlwaysToldAlike == Spec => []ToldAlike
<1>1. SaidInv => ToldAlike
  <2> SUFFICES ASSUME SaidInv PROVE ToldAlike
    OBVIOUS
  <2>1. \A e : Said(e) <=> e \in SaidIn(events)  BY DEF Said, SaidIn
  <2>2. ReportAgreesWithEvents
    BY <2>1 DEF SaidInv, StreamInv, ReportTrue, ReportAgreesWithEvents
  <2>3. EventStreamWellFormed
    <3>1. InOrder(events)  BY DEF SaidInv, StreamInv
    <3>2. Said("exited") => Said("stopping")  BY <2>1, <3>1 DEF InOrder
    <3>3. /\ Before("serving", "draining") /\ Before("draining", "drained")
          /\ Before("drained", "stopping")
          /\ Before("serving", "stopping") /\ Before("startFailed", "stopping")
      BY <3>1 DEF InOrder, Before
    <3>4. QED  BY <3>1, <3>2, <3>3 DEF InOrder, EventStreamWellFormed
  <2>4. QED  BY <2>2, <2>3 DEF ToldAlike
<1>2. QED  BY <1>1, SaidCorrect, PTL

-----------------------------------------------------------------------------
(* The probes of a running kernel.                                          *)

\* serve() knows the graph's checks in the turn that enters `starting`.
MonitoredInv == monitored \in BOOLEAN /\ (phase = "starting" => monitored)

LEMMA ProbedTurns == [ProbedNext]_<<vars, probingVars>> => [Next]_vars
BY DEF ProbedNext, Listens

\* The listener takes no step of the kernel's.
LEMMA ProbedRunsKernel == ProbedSpec => Spec
<1>1. ProbedInit => Init  BY DEF ProbedInit
<1>2. QED  BY <1>1, ProbedTurns, PTL DEF ProbedSpec, Spec

LEMMA ListensSteps == Listens => Prober!Next
BY DEF Listens, Prober!Next

LEMMA ListensMonitors == Listens => UNCHANGED <<phase, monitored>>
<1> SUFFICES ASSUME Listens PROVE UNCHANGED <<phase, monitored>>
  OBVIOUS
<1> USE DEF Prober!monitorVars
<1>1. UNCHANGED phase  BY DEF Listens, vars, trackerVars
<1>2. ASSUME NEW p \in Probe,
             \/ Prober!Livez(p) \/ Prober!ReadyzUnready(p) \/ Prober!Readyz(p)
             \/ Prober!Healthz(p) \/ Prober!Answer(p) \/ Prober!Gone(p)
      PROVE  UNCHANGED monitored
  BY <1>2 DEF Prober!Livez, Prober!ReadyzUnready, Prober!Readyz, Prober!Healthz,
              Prober!Answer, Prober!Gone, Prober!Asks
<1>3. ASSUME NEW k, NEW report, NEW answered, Prober!SettleShared(k, report, answered)
      PROVE  UNCHANGED monitored
  BY <1>3 DEF Prober!SettleShared
<1>4. ASSUME NEW p, NEW k, NEW report, NEW answered, Prober!SettleOwn(p, k, report, answered)
      PROVE  UNCHANGED monitored
  BY <1>4 DEF Prober!SettleOwn
<1>5. ASSUME NEW k, Prober!IntervalEnds(k) PROVE UNCHANGED monitored
  BY <1>5 DEF Prober!IntervalEnds
<1>6. QED  BY <1>1, <1>2, <1>3, <1>4, <1>5 DEF Listens

LEMMA MonitoredStep ==
  MonitoredInv /\ [ProbedNext]_<<vars, probingVars>> => MonitoredInv'
<1> SUFFICES ASSUME MonitoredInv, [ProbedNext]_<<vars, probingVars>> PROVE MonitoredInv'
  OBVIOUS
<1> USE DEF MonitoredInv
<1>1. CASE Monitored  BY <1>1 DEF Monitored
<1>2. CASE Listens  BY <1>2, ListensMonitors
<1>3. CASE UNCHANGED <<vars, probingVars>>  BY <1>3 DEF vars, trackerVars, probingVars
<1>4. QED  BY <1>1, <1>2, <1>3 DEF ProbedNext

LEMMA ProbedCorrect == ProbedSpec => [](TypeInv /\ ControlInv /\ MonitoredInv)
<1>1. ProbedInit => MonitoredInv
  BY DEF ProbedInit, Init, Prober!Init, MonitoredInv
<1>2. QED
  BY <1>1, MonitoredStep, ProbedRunsKernel, ControlCorrect, PTL DEF ProbedSpec

\* A turn of the kernel that moves nothing an observer sees leaves the listener alone too.
LEMMA ProbedStep ==
  TypeInv /\ ControlInv /\ MonitoredInv /\ [ProbedNext]_<<vars, probingVars>>
    => [Prober!Next]_(Prober!probesVars)
<1> SUFFICES ASSUME TypeInv, ControlInv, MonitoredInv, [ProbedNext]_<<vars, probingVars>>
             PROVE  Prober!Next \/ UNCHANGED Prober!probesVars
  OBVIOUS
<1> USE DEF Prober!probesVars, Prober!lifecycle, Prober!monitorVars
<1>1. CASE Next /\ Monitored
  <2>1. CASE Abstract!Next
    <3>1. Prober!App!Next
      BY <2>1
      DEF Abstract!Next, Abstract!Start, Abstract!Serve, Abstract!LoseReadiness,
          Abstract!Drain, Abstract!Stop, Abstract!Exit,
          Prober!App!Next, Prober!App!Start, Prober!App!Serve, Prober!App!LoseReadiness,
          Prober!App!Drain, Prober!App!Stop, Prober!App!Exit
    <3>2. QED  BY <1>1, <3>1 DEF Monitored, Prober!Lives, Prober!Next
  <2>2. CASE UNCHANGED Abstract!lifecycleVars
    <3>1. UNCHANGED monitored
      BY <1>1, <2>2 DEF Monitored, MonitoredInv, Abstract!lifecycleVars
    <3>2. QED  BY <1>1, <2>2, <3>1 DEF Monitored, Abstract!lifecycleVars
  <2>3. QED  BY <1>1, <2>1, <2>2, MapStep
<1>2. CASE Listens  BY <1>2, ListensSteps
<1>3. CASE UNCHANGED <<vars, probingVars>>
  BY <1>3 DEF vars, trackerVars, exitVars, probingVars, Ready
<1>4. QED  BY <1>1, <1>2, <1>3 DEF ProbedNext

\* Over the kernel, with its signals, crashes, deadlines and abandoned builds, the listener
\* is the one of module Probes: all that is checked and proved there holds of a real
\* application.
THEOREM KernelRunsProbes == ProbedSpec => ImplementsProbes
<1>1. ProbedInit => Prober!Init  BY DEF ProbedInit
<1>2. QED
  BY <1>1, ProbedStep, ProbedCorrect, PTL DEF ProbedSpec, ImplementsProbes, Prober!Spec

\* What a probe keeps while it waits.
Query == [asks : {"none", "livez", "readyz", "healthz"},
          got : [Prober!Check -> {"none", "healthy", "unhealthy"}],
          awaits : SUBSET Prober!Check, answer : {"none", "ok", "unavailable"}]

QueriesInv ==
  /\ cached \in [Prober!Check -> {"none", "healthy", "unhealthy"}]
  /\ probe \in [Probe -> Query]

\* The readiness a crash takes away never comes back.
CrashUnready == crashed => forcedUnready

\* One query changes: it was open and is answered "ready" only if the application is.
LEMMA QueryMoves ==
  ASSUME QueriesInv, NEW p \in Probe, NEW is \in Query,
         probe' = [probe EXCEPT ![p] = is], UNCHANGED cached,
         is.asks = "readyz" /\ is.answer = "ok" => Ready
  PROVE  QueriesInv' /\ \A q \in Probe : SaysReady(q) => Ready
<1>1. /\ probe' \in [Probe -> Query] /\ probe'[p] = is
      /\ \A q \in Probe : q # p => probe'[q] = probe[q]
  BY DEF QueriesInv
<1>2. QED  BY <1>1 DEF QueriesInv, SaysReady

LEMMA ToldIsQuery ==
  ASSUME QueriesInv, NEW p \in Probe, NEW k \in probe[p].awaits, NEW report \in Prober!Reports
  PROVE  /\ Prober!Told(p, k, report) \in Query
         /\ Prober!Told(p, k, report).answer = probe[p].answer
         /\ Prober!Told(p, k, report).asks = probe[p].asks
<1>1. probe[p] \in Query /\ k \in Prober!Check  BY DEF QueriesInv, Query
<1>2. [probe[p].got EXCEPT ![k] = report] \in [Prober!Check -> {"none", "healthy", "unhealthy"}]
  BY <1>1 DEF Prober!Reports, Query
<1>3. QED  BY <1>1, <1>2 DEF Prober!Told, Query

LEMMA ListensReady ==
  QueriesInv /\ Listens => QueriesInv' /\ \A p \in Probe : SaysReady(p) => Ready
<1> SUFFICES ASSUME QueriesInv, Listens
             PROVE  QueriesInv' /\ \A p \in Probe : SaysReady(p) => Ready
  OBVIOUS
<1> USE DEF Prober!monitorVars
<1>1. Prober!IdleProbe \in Query  BY DEF Prober!IdleProbe, Query
<1>2. ASSUME NEW p \in Probe, Prober!Livez(p)
      PROVE  QueriesInv' /\ \A q \in Probe : SaysReady(q) => Ready
  <2> DEFINE is == [Prober!IdleProbe EXCEPT !.asks = "livez", !.answer = "ok"]
  <2>1. is \in Query /\ is.asks = "livez"  BY DEF Prober!IdleProbe, Query
  <2>2. probe' = [probe EXCEPT ![p] = is] /\ UNCHANGED cached  BY <1>2 DEF Prober!Livez
  <2> HIDE DEF is
  <2>3. QED  BY <2>1, <2>2, QueryMoves
<1>3. ASSUME NEW p \in Probe, Prober!ReadyzUnready(p)
      PROVE  QueriesInv' /\ \A q \in Probe : SaysReady(q) => Ready
  <2> DEFINE is == [Prober!IdleProbe EXCEPT !.asks = "readyz", !.answer = "unavailable"]
  <2>1. is \in Query /\ is.answer = "unavailable"  BY DEF Prober!IdleProbe, Query
  <2>2. probe' = [probe EXCEPT ![p] = is] /\ UNCHANGED cached
    BY <1>3 DEF Prober!ReadyzUnready
  <2> HIDE DEF is
  <2>3. QED  BY <2>1, <2>2, QueryMoves
<1>4. ASSUME NEW p \in Probe, NEW kind \in {"readyz", "healthz"},
             NEW asked \in SUBSET Prober!Check, Prober!Asks(p, kind, asked)
      PROVE  QueriesInv' /\ \A q \in Probe : SaysReady(q) => Ready
  <2> DEFINE is == [asks |-> kind, awaits |-> {k \in asked : Prober!AtOnce(k) = "none"},
                    answer |-> "none",
                    got |-> [k \in Prober!Check |->
                               IF k \in asked THEN Prober!AtOnce(k) ELSE "none"]]
  <2>1. \A k \in Prober!Check : Prober!AtOnce(k) \in {"none", "healthy", "unhealthy"}
    BY DEF Prober!AtOnce, QueriesInv
  <2>2. is \in Query /\ is.answer = "none"  BY <2>1 DEF Query
  <2>3. probe' = [probe EXCEPT ![p] = is] /\ UNCHANGED cached  BY <1>4 DEF Prober!Asks
  <2> HIDE DEF is
  <2>4. QED  BY <2>2, <2>3, QueryMoves
<1>5. ASSUME NEW p \in Probe, Prober!Readyz(p) \/ Prober!Healthz(p)
      PROVE  QueriesInv' /\ \A q \in Probe : SaysReady(q) => Ready
  BY <1>4, <1>5 DEF Prober!Readyz, Prober!Healthz, Prober!Check
<1>6. ASSUME NEW p \in Probe, Prober!Answer(p)
      PROVE  QueriesInv' /\ \A q \in Probe : SaysReady(q) => Ready
  <2> DEFINE ok == /\ \A k \in Prober!Check : probe[p].got[k] # "unhealthy"
                   /\ probe[p].asks = "readyz" => Ready
             answered == IF ok THEN "ok" ELSE "unavailable"
             is == [probe[p] EXCEPT !.answer = answered, !.awaits = {}]
  <2>1. probe' = [probe EXCEPT ![p] = is] /\ UNCHANGED cached
    BY <1>6 DEF Prober!Answer, Prober!Respond
  <2>2. probe[p] \in Query  BY DEF QueriesInv
  <2>3. answered \in {"ok", "unavailable"} /\ (answered = "ok" => ok)  OBVIOUS
  <2>4. ok /\ probe[p].asks = "readyz" => Ready  OBVIOUS
  <2> HIDE DEF answered, ok
  <2>5. is \in Query /\ is.asks = probe[p].asks /\ (is.answer = "ok" => ok)
    BY <2>2, <2>3 DEF Query
  <2> HIDE DEF is
  <2>6. QED  BY <2>1, <2>4, <2>5, QueryMoves
<1>7. ASSUME NEW p \in Probe, Prober!Gone(p)
      PROVE  QueriesInv' /\ \A q \in Probe : SaysReady(q) => Ready
  <2>1. Prober!IdleProbe.answer = "none"  BY DEF Prober!IdleProbe
  <2>2. probe' = [probe EXCEPT ![p] = Prober!IdleProbe] /\ UNCHANGED cached
    BY <1>7 DEF Prober!Gone
  <2>3. QED  BY <1>1, <2>1, <2>2, QueryMoves
<1>8. ASSUME NEW k \in Prober!Check, NEW report \in Prober!Reports, NEW answered \in BOOLEAN,
             Prober!SettleShared(k, report, answered)
      PROVE  QueriesInv' /\ \A q \in Probe : SaysReady(q) => Ready
  <2>1. /\ probe' = [p \in Probe |-> IF k \in probe[p].awaits
                                     THEN Prober!Told(p, k, report) ELSE probe[p]]
        /\ cached' = [cached EXCEPT ![k] = report]
    BY <1>8 DEF Prober!SettleShared
  <2>2. cached' \in [Prober!Check -> {"none", "healthy", "unhealthy"}]
    BY <2>1 DEF QueriesInv, Prober!Reports
  <2>3. \A p \in Probe : probe[p] \in Query  BY DEF QueriesInv
  <2>4. \A p \in Probe : probe'[p] \in Query /\ probe'[p].answer = probe[p].answer
    BY <2>1, <2>3, ToldIsQuery
  <2>5. QED  BY <2>1, <2>2, <2>4 DEF QueriesInv, SaysReady
<1>9. ASSUME NEW p \in Probe, NEW k \in Prober!Check, NEW report \in Prober!Reports,
             NEW answered \in BOOLEAN, Prober!SettleOwn(p, k, report, answered)
      PROVE  QueriesInv' /\ \A q \in Probe : SaysReady(q) => Ready
  <2> DEFINE is == Prober!Told(p, k, report)
  <2>1. k \in probe[p].awaits /\ probe' = [probe EXCEPT ![p] = is] /\ UNCHANGED cached
    BY <1>9 DEF Prober!SettleOwn
  <2>2. is \in Query /\ is.answer = probe[p].answer  BY <2>1, ToldIsQuery
  <2> HIDE DEF is
  <2>3. /\ probe' \in [Probe -> Query]
        /\ \A q \in Probe : probe'[q].answer = probe[q].answer
    BY <2>1, <2>2 DEF QueriesInv
  <2>4. QED  BY <2>1, <2>3 DEF QueriesInv, SaysReady
<1>10. ASSUME NEW k \in Prober!Check, Prober!IntervalEnds(k)
       PROVE  QueriesInv' /\ \A q \in Probe : SaysReady(q) => Ready
  BY <1>10 DEF Prober!IntervalEnds, QueriesInv, SaysReady
<1>11. QED
  BY <1>2, <1>3, <1>5, <1>6, <1>7, <1>8, <1>9, <1>10 DEF Listens

LEMMA CrashUnreadyStep == CrashUnready /\ [Next]_vars => CrashUnready'
<1> SUFFICES ASSUME CrashUnready, [Next]_vars PROVE CrashUnready'
  OBVIOUS
<1> USE DEF CrashUnready, trackerVars, requestVars
<1>1. CASE Requests
  <2>1. CASE Uncaught  BY <2>1 DEF Uncaught
  <2>2. CASE SecondSignal  BY <2>2 DEF SecondSignal
  <2>3. CASE FirstSignal \/ RuntimeStopped  BY <2>3 DEF FirstSignal, RuntimeStopped
  <2>4. ASSUME NEW r, CallerRequests(r) PROVE CrashUnready'  BY <2>4 DEF CallerRequests
  <2>5. QED  BY <1>1, <2>1, <2>2, <2>3, <2>4 DEF Requests
<1>2. CASE Starting
  BY <1>2 DEF Starting, ProbesUp, ProbesFail, Acquire, ConstructionFails, ServeAbandoned,
              StartRuntime, RuntimeRefuses, RuntimeServes, RuntimeUpTooLate, LeaveFailed
<1>3. CASE Ending
  BY <1>3 DEF Ending, FinishAborting, BeginDrain, PreDrainOver, DrainCallSettles, DrainedIdle,
              DrainDeadline, SettleDrain, DrainDefects, ServingStopped, ServingStopDefects,
              Release, ScopeSettles, StopAbandoned, StopWithdrawn, LeaveFailed
<1>4. CASE Units
  <2>1. ASSUME NEW u, RunUnit(u) PROVE UNCHANGED <<crashed, forcedUnready>>
    BY <2>1 DEF RunUnit
  <2>2. ASSUME NEW u, SettleUnit(u) PROVE UNCHANGED <<crashed, forcedUnready>>
    BY <2>2 DEF SettleUnit
  <2>3. QED  BY <1>4, <2>1, <2>2 DEF Units
<1>5. CASE UNCHANGED vars  BY <1>5 DEF vars
<1>6. QED  BY <1>1, <1>2, <1>3, <1>4, <1>5 DEF Next

ProbedInv ==
  TypeInv /\ ControlInv /\ DrainInv /\ CrashUnready /\ QueriesInv

\* The kernel is ready in no other state.
LEMMA ReadyServes ==
  TypeInv /\ ControlInv /\ DrainInv /\ CrashUnready /\ Ready =>
    /\ ~crashed /\ abandonedBuild = "none"
    /\ main = "serving" /\ runtime = "up" /\ drain.by = "none"
    /\ exited.kind = "pending"
<1> SUFFICES ASSUME TypeInv, ControlInv, DrainInv, CrashUnready, Ready
             PROVE  /\ ~crashed /\ abandonedBuild = "none"
                    /\ main = "serving" /\ runtime = "up" /\ drain.by = "none"
                    /\ exited.kind = "pending"
  OBVIOUS
<1>1. phase = "serving" /\ ~forcedUnready  BY DEF Ready
<1>2. main \in Controls  BY DEF TypeInv, TypeOK
<1>3. main = "serving"  BY <1>1, <1>2 DEF ControlInv, PhaseFollowsControl, Controls
<1>4. ~crashed  BY <1>1 DEF CrashUnready
<1>5. runtime = "up"  BY <1>3 DEF ControlInv, RuntimeFollowsControl
<1>6. abandonedBuild = "none"  BY <1>1, <1>3 DEF ControlInv, AbandonedBuildExits
<1>7. exited.kind = "pending"  BY <1>1 DEF ControlInv, ExitFollowsPhase
<1>8. drain.by = "none"  BY <1>3 DEF DrainInv, IdleMeansEmpty
<1>9. QED  BY <1>3, <1>4, <1>5, <1>6, <1>7, <1>8

\* No probe says "ready" of a kernel that crashed, gave up on its build, drains, stops or has
\* exited, whatever it was when the probe came and however long the checks took to answer.
THEOREM ReadyOnlyWhileServing == ProbedSpec => ReadyMeansServing
<1>1. Init => CrashUnready  BY DEF Init, CrashUnready
<1>2. Spec => []CrashUnready  BY <1>1, CrashUnreadyStep, PTL DEF Spec
<1>3. ProbedInit => QueriesInv
  <2>1. Prober!IdleProbe \in Query  BY DEF Prober!IdleProbe, Query
  <2>2. QED  BY <2>1 DEF ProbedInit, Prober!Init, QueriesInv
<1>4. QueriesInv /\ [ProbedNext]_<<vars, probingVars>>
        => QueriesInv' /\ \A p \in Probe : SaysReady(p) => Ready
  <2>1. CASE Listens  BY <2>1, ListensReady
  <2>2. CASE Monitored  BY <2>2 DEF Monitored, QueriesInv, SaysReady
  <2>3. CASE UNCHANGED <<vars, probingVars>>  BY <2>3 DEF probingVars, QueriesInv, SaysReady
  <2>4. QED  BY <2>1, <2>2, <2>3 DEF ProbedNext
<1> DEFINE Serves == \A p \in Probe : SaysReady(p) =>
                       /\ ~crashed /\ abandonedBuild = "none"
                       /\ main = "serving" /\ runtime = "up" /\ drain.by = "none"
                       /\ exited.kind = "pending"
<1>5. ProbedInv /\ [ProbedNext]_<<vars, probingVars>> => [Serves]_<<vars, probingVars>>
  BY <1>4, ReadyServes DEF ProbedInv
<1>6. ProbedSpec => []ProbedInv
  <2>1. QueriesInv /\ [ProbedNext]_<<vars, probingVars>> => QueriesInv'  BY <1>4
  <2>2. ProbedSpec => []QueriesInv  BY <1>3, <2>1, PTL DEF ProbedSpec
  <2>3. QED
    BY <1>2, <2>2, ProbedRunsKernel, ControlCorrect, DrainCorrect, PTL DEF ProbedInv
<1>7. QED  BY <1>5, <1>6, PTL DEF ProbedSpec, ReadyMeansServing
=============================================================================
