---------------------------- MODULE SafetyProofs ----------------------------
(***************************************************************************)
(* Proofs about the safety package: the guard, the supervisor's callbacks  *)
(* around it, and the VLA filter that reads it.                            *)
(***************************************************************************)
EXTENDS SafetySupervisor, TLAPS

\* What every method of the guard preserves, whoever calls it.
GuardInv == GuardTypeOK /\ StopLatchConsistent /\ NormalMeansNoViolations

LEMMA GuardStarts == GuardInit => GuardInv
  BY DEF GuardInit, GuardInv, GuardTypeOK, StopLatchConsistent,
         NormalMeansNoViolations, Levels

\* A batch that leaves the level at normal holds no event at all.
LEMMA ProcessKeepsGuard ==
  ASSUME GuardInv, NEW events \in SUBSET Events, ProcessViolations(events)
  PROVE  GuardInv'
<1>1. CASE eStopLatched
  BY <1>1 DEF ProcessViolations, guardVars, GuardInv, GuardTypeOK,
              StopLatchConsistent, NormalMeansNoViolations
<1>2. CASE ~eStopLatched
  <2>1. /\ activeViolations' = activeViolations \cup {e.type : e \in events}
        /\ Escalate(events)
    BY <1>2 DEF ProcessViolations
  <2>2. GuardTypeOK'
    BY <2>1 DEF GuardInv, GuardTypeOK, Escalate, AnyAt, Events, Levels
  <2>3. StopLatchConsistent'
    BY <2>1, <1>2 DEF GuardInv, GuardTypeOK, StopLatchConsistent, Escalate, Levels
  <2>4. ASSUME level' = "normal" PROVE activeViolations' = {}
    <3>1. level = "normal" /\ \A l \in Levels \ {"normal"} : ~AnyAt(events, l)
      BY <2>1, <2>4 DEF Escalate, Levels, GuardInv, GuardTypeOK
    <3>2. events = {}
      BY <3>1 DEF AnyAt, Events
    <3> QED
      BY <2>1, <3>1, <3>2 DEF GuardInv, NormalMeansNoViolations
  <2> QED
    BY <2>2, <2>3, <2>4 DEF GuardInv, NormalMeansNoViolations
<1> QED
  BY <1>1, <1>2

LEMMA StopKeepsGuard ==
  ASSUME GuardInv, EmergencyStop
  PROVE  GuardInv'
  BY DEF GuardInv, EmergencyStop, GuardTypeOK, StopLatchConsistent,
         NormalMeansNoViolations, Levels

LEMMA ReleaseKeepsGuard ==
  ASSUME GuardInv, NEW operator, ReleaseStop(operator)
  PROVE  GuardInv'
  BY DEF GuardInv, ReleaseStop, GuardTypeOK, StopLatchConsistent,
         NormalMeansNoViolations, Levels, guardVars

LEMMA SafeModeKeepsGuard ==
  ASSUME GuardInv, EnterSafeMode
  PROVE  GuardInv'
  BY DEF GuardInv, EnterSafeMode, GuardTypeOK, StopLatchConsistent,
         NormalMeansNoViolations, Levels, guardVars

LEMMA ClearKeepsGuard ==
  ASSUME GuardInv, ClearViolations
  PROVE  GuardInv'
  BY DEF GuardInv, ClearViolations, GuardTypeOK, StopLatchConsistent,
         NormalMeansNoViolations, Levels, guardVars

LEMMA GuardUnchanged ==
  ASSUME GuardInv, UNCHANGED guardVars
  PROVE  GuardInv'
  BY DEF GuardInv, GuardTypeOK, StopLatchConsistent, NormalMeansNoViolations, guardVars

LEMMA GuardNextKeepsGuard ==
  ASSUME GuardInv, GuardNext
  PROVE  GuardInv'
  BY GuardAssumption, ProcessKeepsGuard, StopKeepsGuard, ReleaseKeepsGuard,
     SafeModeKeepsGuard, ClearKeepsGuard
     DEF GuardNext

-----------------------------------------------------------------------------
\* Used by anybody in any order, the guard keeps its types, its three records
\* of an emergency stop agree, and a normal level has nothing listed.
THEOREM GuardInvariant == GuardSpec => []GuardStateOK
<1>1. GuardInv /\ [GuardNext]_guardVars => GuardInv'
  BY GuardNextKeepsGuard, GuardUnchanged
<1>2. GuardInv => GuardStateOK
  BY DEF GuardInv, GuardStateOK
<1> QED
  BY GuardStarts, <1>1, <1>2, PTL DEF GuardSpec

\* LatchedStopIsFrozen: a latched stop ends by a release, and nothing else
\* touches the guard before it.
THEOREM StopStaysLatched == GuardSpec => LatchedStopIsFrozen
<1>1. ASSUME GuardInv, GuardNext, eStopLatched, guardVars' # guardVars
      PROVE  /\ level' = "normal" /\ activeViolations' = {}
             /\ ~eStopActive' /\ ~eStopLatched'
  <2>1. level = "emergency_stop" /\ eStopActive
    BY <1>1 DEF GuardInv, StopLatchConsistent
  <2>2. ASSUME NEW events \in Batches, ProcessViolations(events) PROVE FALSE
    BY <1>1, <2>2 DEF ProcessViolations
  <2>3. ASSUME EmergencyStop PROVE FALSE
    BY <1>1, <2>1, <2>3 DEF EmergencyStop, guardVars, GuardInv, GuardTypeOK
  <2>4. ASSUME EnterSafeMode PROVE FALSE
    BY <1>1, <2>4 DEF EnterSafeMode
  <2>5. ASSUME ClearViolations PROVE FALSE
    BY <1>1, <2>5 DEF ClearViolations
  <2>6. PICK operator : ReleaseStop(operator)
    BY <1>1, <2>2, <2>3, <2>4, <2>5 DEF GuardNext
  <2> QED
    BY <1>1, <2>6 DEF ReleaseStop
<1>2. GuardInv /\ [GuardNext]_guardVars => GuardInv'
  BY GuardNextKeepsGuard, GuardUnchanged
<1>3. GuardInv /\ [GuardNext]_guardVars
        => [eStopLatched => /\ level' = "normal" /\ activeViolations' = {}
                            /\ ~eStopActive' /\ ~eStopLatched']_guardVars
  BY <1>1
<1> QED
  BY GuardStarts, <1>2, <1>3, PTL DEF GuardSpec, LatchedStopIsFrozen

-----------------------------------------------------------------------------
\* The clamp: never larger than the bound.
LEMMA ClampBounds ==
  ASSUME NEW d \in Int, NEW bound \in Nat
  PROVE  /\ Clamp(d, bound) \in Int
         /\ -bound <= Clamp(d, bound) /\ Clamp(d, bound) <= bound
  BY DEF Clamp

\* What a call does to the commanded pose: nothing, or one clamped step.
LEMMA FilterMoves ==
  ASSUME \A a \in VLAActions : a.target = NoPose,
         NEW action \in VLAActions, NEW maxStep \in MaxSteps, NEW id \in WorkspaceIds,
         NEW pose \in Poses, FilterAction(action, maxStep, id, pose)
  PROVE  \/ commanded' = commanded
         \/ /\ ~eStopActive
            /\ action.delta \in Int
            /\ commanded' = commanded + Clamp(action.delta, maxStep)
<1>1. CASE reply' # "approved" \/ action.delta = NoPose
  BY <1>1 DEF FilterAction, Destination
<1>2. CASE reply' = "approved" /\ action.delta # NoPose
  <2>1. action.delta \in Int
    BY <1>2, FilterAssumption
  <2>2. commanded' = commanded + Clamp(action.delta, maxStep)
    BY <1>2 DEF FilterAction, Destination
  <2>3. ~eStopActive
    BY <1>2 DEF FilterAction, Verdict
  <2> QED
    BY <2>1, <2>2, <2>3
<1> QED
  BY <1>1, <1>2

FilterInv == GuardInv /\ FilterTypeOK

LEMMA FilterTypeKept ==
  ASSUME FilterInv, [FilterNext]_filterVars
  PROVE  FilterInv'
<1>1. ASSUME NEW action \in VLAActions, NEW maxStep \in MaxSteps, NEW id \in WorkspaceIds,
             NEW pose \in Poses, FilterAction(action, maxStep, id, pose)
      PROVE  FilterInv'
  <2>1. GuardInv'
    BY <1>1, GuardUnchanged DEF FilterInv, FilterAction
  <2>2. reply' \in Replies
    BY <1>1 DEF FilterAction, Verdict, Replies
  <2>3. commanded' \in Int
    BY <1>1, FilterAssumption DEF FilterAction
  <2> QED
    BY <2>1, <2>2, <2>3 DEF FilterInv, FilterTypeOK, GuardInv
<1>2. CASE FilterVLA
  <2>1. GuardInv'
    BY <1>2, GuardUnchanged DEF FilterInv, FilterVLA
  <2> QED
    BY <1>2, <2>1 DEF FilterVLA, FilterInv, FilterTypeOK, GuardInv, Replies
<1>3. CASE GuardStep
  BY <1>3, GuardNextKeepsGuard DEF GuardStep, FilterInv, FilterTypeOK, GuardInv
<1>4. CASE UNCHANGED filterVars
  BY <1>4, GuardUnchanged DEF filterVars, guardVars, FilterInv, FilterTypeOK, GuardInv
<1> QED
  BY <1>1, <1>2, <1>3, <1>4 DEF FilterNext

LEMMA FilterStarts == FilterInit => FilterInv
  BY GuardStarts DEF FilterInit, FilterInv, FilterTypeOK, GuardInv, Replies

\* No approval commands more than one clamped step, with a pose or without.
LEMMA StepsAreSmall ==
  ASSUME \A a \in VLAActions : a.target = NoPose, FilterInv, [FilterNext]_filterVars
  PROVE  [StepIsSmall]_filterVars
<1>1. ASSUME commanded' = commanded PROVE StepIsSmall
  <2>1. commanded' - commanded = 0
    BY <1>1 DEF FilterInv, FilterTypeOK
  <2> QED
    BY <2>1 DEF StepIsSmall
<1>2. ASSUME NEW action \in VLAActions, NEW maxStep \in MaxSteps, NEW id \in WorkspaceIds,
             NEW pose \in Poses, FilterAction(action, maxStep, id, pose)
      PROVE  StepIsSmall
  <2>1. maxStep \in Nat
    BY FilterAssumption
  <2>2. CASE commanded' = commanded
    BY <1>1, <2>2
  <2>3. CASE action.delta \in Int /\ commanded' = commanded + Clamp(action.delta, maxStep)
    <3>1. /\ Clamp(action.delta, maxStep) \in Int
          /\ -maxStep <= Clamp(action.delta, maxStep)
          /\ Clamp(action.delta, maxStep) <= maxStep
      BY <2>1, <2>3, ClampBounds
    <3>2. commanded \in Int
      BY DEF FilterInv, FilterTypeOK
    <3>3. -maxStep <= commanded' - commanded /\ commanded' - commanded <= maxStep
      BY <2>1, <2>3, <3>1, <3>2
    <3> QED
      BY <3>3 DEF StepIsSmall
  <2> QED
    BY <1>2, <2>2, <2>3, FilterMoves
<1>3. ASSUME GuardStep \/ FilterVLA PROVE StepIsSmall
  BY <1>1, <1>3 DEF GuardStep, FilterVLA
<1> QED
  BY <1>2, <1>3 DEF FilterNext

\* From the moment the level is emergency_stop to the release, no request moves
\* the commanded pose or is answered "approved".
LEMMA StopsAreRespected ==
  ASSUME FilterInv, [FilterNext]_filterVars
  PROVE  [StopIsRespected]_filterVars
<1>1. ASSUME NEW action \in VLAActions, NEW maxStep \in MaxSteps, NEW id \in WorkspaceIds,
             NEW pose \in Poses, FilterAction(action, maxStep, id, pose),
             level = "emergency_stop"
      PROVE  commanded' = commanded /\ reply' = "emergency_stop"
  <2>1. eStopActive
    BY <1>1 DEF FilterInv, GuardInv, StopLatchConsistent
  <2> QED
    BY <1>1, <2>1 DEF FilterAction, Verdict
<1>2. ASSUME GuardStep \/ FilterVLA PROVE StopIsRespected
  BY <1>2 DEF GuardStep, FilterVLA, StopIsRespected
<1> QED
  BY <1>1, <1>2 DEF FilterNext, StopIsRespected

\* ApprovalsAreLimited: a stream of approvals moves in clamped steps, and not at
\* all during a stop, when the motions proposed are relative.
THEOREM ApprovalsLimited ==
  ASSUME \A a \in VLAActions : a.target = NoPose
  PROVE  FilterSpec => ApprovalsAreLimited
<1>1. FilterInv /\ [FilterNext]_filterVars => FilterInv'
  BY FilterTypeKept
<1>2. FilterInv /\ [FilterNext]_filterVars => [StepIsSmall /\ StopIsRespected]_filterVars
  BY StepsAreSmall, StopsAreRespected
<1> QED
  BY FilterStarts, <1>1, <1>2, PTL DEF FilterSpec, ApprovalsAreLimited

-----------------------------------------------------------------------------
\* A step of the supervisor's process, seen from the guard and the filter.
LEMMA SupervisorStepIsFilterStep ==
  ASSUME [SupervisorNext]_supervisorVars
  PROVE  [FilterNext]_filterVars
<1>1. ASSUME NEW arms, RobotState(arms) PROVE [FilterNext]_filterVars
  <2>1. CASE ClearViolations /\ UNCHANGED <<commanded, reply>>
    BY <2>1 DEF FilterNext, GuardStep, GuardNext
  <2>2. CASE UNCHANGED guardVars /\ UNCHANGED <<commanded, reply>>
    BY <2>2 DEF guardVars, filterVars
  <2> QED
    BY <1>1, <2>1, <2>2 DEF RobotState
<1>2. CASE WatchdogCheck
  <2>1. ProcessViolations({TimeoutEvent}) /\ UNCHANGED <<commanded, reply>>
    BY <1>2 DEF WatchdogCheck
  <2>2. GuardNext
    BY <2>1, SupervisorAssumption DEF GuardNext
  <2> QED
    BY <2>1, <2>2 DEF FilterNext, GuardStep
<1>3. CASE SafetyControl
  BY <1>3 DEF SafetyControl, FilterNext, GuardStep, GuardNext
<1>4. CASE FilterRequest
  BY <1>4 DEF FilterRequest, FilterNext
<1>5. CASE Elapse
  BY <1>5 DEF Elapse, guardVars, filterVars
<1>6. CASE FilterNext
  BY <1>6
<1>7. CASE UNCHANGED supervisorVars
  BY <1>7 DEF supervisorVars, filterVars
<1> QED
  BY <1>1, <1>2, <1>3, <1>4, <1>5, <1>6, <1>7 DEF SupervisorNext, NodeNext

\* The supervisor's callbacks, next to any other use of its guard and filter,
\* use the two as FilterSpec allows.
THEOREM SupervisorUsesFilter == SupervisorSpec => FilterSpec
<1>1. SupervisorInit => FilterInit
  BY DEF SupervisorInit
<1>2. [SupervisorNext]_supervisorVars => [FilterNext]_filterVars
  BY SupervisorStepIsFilterStep
<1> QED
  BY <1>1, <1>2, PTL DEF SupervisorSpec, FilterSpec

\* In the supervisor's process, with whatever else holds its guard and filter,
\* the records of a stop agree, a normal level lists nothing, every variable
\* has its type, and approvals move in clamped steps and not during a stop.
THEOREM SupervisorKeepsGuard ==
  ASSUME \A a \in VLAActions : a.target = NoPose
  PROVE  SupervisorSpec => [](SupervisorTypeOK /\ GuardStateOK) /\ ApprovalsAreLimited
<1> DEFINE Inv == FilterInv /\ silence \in 0..MaxSilence
<1>1. SupervisorInit => Inv
  BY FilterStarts, SupervisorAssumption DEF SupervisorInit
<1>2. ASSUME Inv, [SupervisorNext]_supervisorVars PROVE Inv'
  <2>1. FilterInv'
    BY <1>2, SupervisorStepIsFilterStep, FilterTypeKept
  <2>2. silence' \in 0..MaxSilence
    <3>1. silence' \in {silence, 0} \/ Elapse
      BY <1>2 DEF SupervisorNext, NodeNext, RobotState, WatchdogCheck, SafetyControl,
                  FilterRequest, supervisorVars
    <3> QED
      BY <1>2, <3>1, SupervisorAssumption DEF Elapse
  <2> QED
    BY <2>1, <2>2
<1>3. Inv => SupervisorTypeOK /\ GuardStateOK
  BY DEF FilterInv, GuardInv, GuardStateOK, SupervisorTypeOK
<1>4. SupervisorSpec => ApprovalsAreLimited
  BY SupervisorUsesFilter, ApprovalsLimited
<1> QED
  BY <1>1, <1>2, <1>3, <1>4, PTL DEF SupervisorSpec
=============================================================================
