------------------------- MODULE TaskExecutorProofs -------------------------
(***************************************************************************)
(* Proofs about the task executor on top of the orchestrator, for any      *)
(* plans and any number of dispatches: the skills of a plan run in plan    *)
(* order, no success is published that was not earned, and, when no task   *)
(* is dispatched twice, the executor is a proper client of the             *)
(* orchestrator, so that the orchestrator's theorems hold of the composed  *)
(* system.                                                                 *)
(***************************************************************************)
EXTENDS TaskExecutor, SkillOrchestratorProofs

ExecutorShapeOK ==
  /\ plan \in [Dispatches -> Plans \cup {NoPlan}]
  /\ activeTree \in {0} \cup Dispatches
  /\ cursor \in Nat \ {0}
  /\ activeTask \in TaskIds \cup {NoTaskId}
  /\ call \in [Invocations -> Calls \cup {NoCall}]
  /\ phase \in [Invocations -> Phases]
  /\ result \in [Invocations -> Results]
  /\ outcome \in [Invocations -> Outcomes]

ActiveTreeWasDispatched ==
  activeTree # 0 => activeTree \in Dispatched /\ activeTask = plan[activeTree].task

CallsFollowPlans ==
  \A d \in Dispatches, k \in 1..MaxNodes :
    call[<<d, k>>] # NoCall => d \in Dispatched /\ Id(<<d, k>>) = <<plan[d].task, k>>

AbsentMeansNoCall ==
  \A i \in Invocations : phase[i] = "absent" <=> call[i] = NoCall

TasksDispatchedOnce ==
  UniqueIds => \A d, e \in Dispatched : d # e => plan[d].task # plan[e].task

CursorHasPassed ==
  activeTree # 0 =>
    \A k \in SkillNodes(activeTree) : k < cursor => Succeeded(activeTree, k)

ExecutorInv ==
  /\ ExecutorShapeOK
  /\ ActiveTreeWasDispatched
  /\ CallsFollowPlans
  /\ AbsentMeansNoCall
  /\ TasksDispatchedOnce
  /\ CursorHasPassed
  /\ SkillsRunInPlanOrder

-----------------------------------------------------------------------------
(* Single steps *)

\* A dispatched plan fits the bounds and names skills.
LEMMA PlanShape ==
  ASSUME ExecutorShapeOK, NEW d \in Dispatched
  PROVE  /\ d \in Dispatches
         /\ plan[d] \in Plans
         /\ plan[d].task \in TaskIds
         /\ Len(plan[d].nodes) \in Nat
         /\ Len(plan[d].nodes) <= MaxNodes
         /\ SkillNodes(d) \subseteq 1..MaxNodes
         /\ \A k \in SkillNodes(d) : plan[d].nodes[k] \in Skills
<1>1. d \in Dispatches /\ plan[d] \in Plans
  BY DEF Dispatched, ExecutorShapeOK
<1>2. /\ plan[d].task \in TaskIds
      /\ plan[d].nodes \in Seq(Skills \cup {Condition})
      /\ Len(plan[d].nodes) <= MaxNodes
      /\ MaxNodes \in Nat
  BY <1>1, ExecutorAssumption
<1>3. Len(plan[d].nodes) \in Nat
  BY <1>2
<1>4. \A k \in 1..Len(plan[d].nodes) : plan[d].nodes[k] \in Skills \cup {Condition}
  BY <1>2
<1> QED BY <1>1, <1>2, <1>3, <1>4 DEF SkillNodes

\* What a started node looks like: it is a skill node of the active plan, every
\* skill before it has succeeded, and its call is the one the plan gives it.
LEMMA StartFacts ==
  ASSUME ExecutorInv, activeTree # 0, NEW k \in cursor..(Length + 1),
         Reaches(k), TickStarts(k)
  PROVE  /\ activeTree \in Dispatched
         /\ k \in SkillNodes(activeTree)
         /\ <<activeTree, k>> \in Invocations
         /\ phase[<<activeTree, k>>] = "absent"
         /\ [id |-> <<activeTask, k>>, skill |-> plan[activeTree].nodes[k]] \in Calls
         /\ \A j \in SkillNodes(activeTree) : j < k => Succeeded(activeTree, j)
<1>1. activeTree \in Dispatched /\ activeTask = plan[activeTree].task
  BY DEF ExecutorInv, ActiveTreeWasDispatched
<1>2. /\ activeTree \in Dispatches
      /\ plan[activeTree].task \in TaskIds
      /\ Length \in Nat /\ Length <= MaxNodes
      /\ \A n \in SkillNodes(activeTree) : plan[activeTree].nodes[n] \in Skills
  BY <1>1, PlanShape DEF ExecutorInv, Length
<1>3. k \in 1..Length
  BY <1>2 DEF ExecutorInv, ExecutorShapeOK, TickStarts
<1>4. k \in SkillNodes(activeTree)
  BY <1>3 DEF Reaches, Passed
<1>5. k \in 1..MaxNodes
  BY <1>2, <1>3, ExecutorAssumption
<1>6. <<activeTree, k>> \in Invocations /\ <<activeTask, k>> \in Holders
  BY <1>1, <1>2, <1>5, ExecutorAssumption
<1>7. ASSUME NEW j \in SkillNodes(activeTree), j < k PROVE Succeeded(activeTree, j)
  <2>1. j \in Nat
    BY DEF SkillNodes
  <2>2. CASE j < cursor
    BY <2>2 DEF ExecutorInv, CursorHasPassed
  <2>3. CASE j >= cursor
    <3>1. j \in cursor..(k - 1)
      BY <1>3, <1>7, <2>1, <2>3 DEF ExecutorInv, ExecutorShapeOK
    <3> QED BY <3>1 DEF Reaches, Passed
  <2> QED BY <2>1, <2>2, <2>3 DEF ExecutorInv, ExecutorShapeOK
<1> QED BY <1>1, <1>2, <1>4, <1>6, <1>7 DEF TickStarts, CreateTask, Calls

\* The orchestrator's steps start no node and never take back a success.
LEMMA OrchestrationKeeps ==
  ASSUME ExecutorInv, Orchestration
  PROVE  /\ phase' \in [Invocations -> Phases]
         /\ result' \in [Invocations -> Results]
         /\ outcome' \in [Invocations -> Outcomes]
         /\ call' = call
         /\ \A i \in Invocations : phase'[i] = "absent" <=> phase[i] = "absent"
         /\ \A d \in Dispatches, k \in 1..MaxNodes :
              Succeeded(d, k) => Succeeded(d, k)'
<1> USE DEF ExecutorInv, ExecutorShapeOK
<1>1. CASE UNCHANGED <<call, phase, result>> /\ outcome' \in [Invocations -> Outcomes]
  BY <1>1 DEF Succeeded
<1>2. ASSUME NEW i \in Invocations, NEW r \in Results,
             phase[i] \in {"created", "waiting"},
             phase' = [phase EXCEPT ![i] = "done"],
             result' = [result EXCEPT ![i] = r],
             UNCHANGED <<call, outcome>>
      PROVE  /\ phase' \in [Invocations -> Phases]
             /\ result' \in [Invocations -> Results]
             /\ \A j \in Invocations : phase'[j] = "absent" <=> phase[j] = "absent"
             /\ \A d \in Dispatches, k \in 1..MaxNodes : Succeeded(d, k) => Succeeded(d, k)'
  BY <1>2, ExecutorAssumption DEF Phases, Succeeded
<1>3. ASSUME NEW s \in Skills, RegisterSkill(s)
      PROVE  UNCHANGED <<call, phase, result, outcome>>
  BY <1>3 DEF RegisterSkill, taskVars
<1>4. ASSUME NEW i \in Invocations,
             StartSkill(i) \/ FinishSkill(i) \/ UnwindSkill(i) \/ Expire(i)
      PROVE  UNCHANGED <<call, phase, result>> /\ outcome' \in [Invocations -> Outcomes]
  BY <1>4 DEF StartSkill, FinishSkill, UnwindSkill, Expire, EndSkill, Outcomes
<1>5. ASSUME NEW i \in Invocations, Begin(i)
      PROVE  \/ \E r \in Results : /\ phase[i] \in {"created", "waiting"}
                                   /\ phase' = [phase EXCEPT ![i] = "done"]
                                   /\ result' = [result EXCEPT ![i] = r]
                                   /\ UNCHANGED <<call, outcome>>
             \/ Launch(i) /\ phase[i] = "created" /\ UNCHANGED <<call, outcome>>
  BY <1>5 DEF Begin, RejectUnknownSkill, RejectConflict, RejectPrecondition, Finally,
              Results, Failures
<1>6. ASSUME NEW i \in Invocations, Resume(i)
      PROVE  \E r \in Results : /\ phase[i] \in {"created", "waiting"}
                                /\ phase' = [phase EXCEPT ![i] = "done"]
                                /\ result' = [result EXCEPT ![i] = r]
                                /\ UNCHANGED <<call, outcome>>
  <2>1. PICK r \in Returns(i) : Finally(i, r)
    BY <1>6 DEF Resume
  <2>2. r \in Results
    BY DEF Returns, Results, Failures, Outcomes
  <2> QED BY <1>6, <2>1, <2>2 DEF Resume, Live, Finally
<1>7. ASSUME NEW i \in Invocations, Launch(i), phase[i] = "created", UNCHANGED <<call, outcome>>
      PROVE  /\ phase' \in [Invocations -> Phases]
             /\ result' \in [Invocations -> Results]
             /\ \A j \in Invocations : phase'[j] = "absent" <=> phase[j] = "absent"
             /\ \A d \in Dispatches, k \in 1..MaxNodes : Succeeded(d, k) => Succeeded(d, k)'
  BY <1>7, ExecutorAssumption DEF Launch, Phases, Succeeded
<1> QED BY <1>1, <1>2, <1>3, <1>4, <1>5, <1>6, <1>7 DEF Orchestration, LoopStep

-----------------------------------------------------------------------------
(* The invariant *)

\* Dispatch makes a new tree, none of whose nodes has been started.
LEMMA DispatchKeepsInv ==
  ASSUME ExecutorInv, NEW d \in Dispatches, NEW p \in Plans, Dispatch(d, p)
  PROVE  ExecutorInv'
<1> USE ExecutorAssumption DEF ExecutorInv, Dispatch
<1>1. UNCHANGED <<call, phase, result, outcome>>
  BY DEF orchestratorVars, taskVars
<1>2. ExecutorShapeOK'
  BY <1>1 DEF ExecutorShapeOK
<1>3. Dispatched' = Dispatched \cup {d} /\ d \notin Dispatched /\ plan'[d] = p
  BY DEF Dispatched, ExecutorShapeOK
<1>4. \A e \in Dispatched : plan'[e] = plan[e] /\ e \in Dispatches
  BY <1>3 DEF ExecutorShapeOK, Dispatched
<1>5. ActiveTreeWasDispatched' /\ AbsentMeansNoCall' /\ TasksDispatchedOnce'
  BY <1>1, <1>3, <1>4
  DEF ActiveTreeWasDispatched, AbsentMeansNoCall, TasksDispatchedOnce
<1>6. CallsFollowPlans'
  BY <1>1, <1>3, <1>4 DEF CallsFollowPlans, Id
<1>7. CursorHasPassed'
  BY <1>3 DEF CursorHasPassed, SkillNodes
<1>8. ASSUME NEW e \in Dispatched', NEW k \in SkillNodes(e)', phase'[<<e, k>>] # "absent",
             NEW j \in SkillNodes(e)', j < k
      PROVE  Succeeded(e, j)'
  <2>1. CASE e = d
    <3>1. k \in 1..MaxNodes /\ <<d, k>> \in Invocations
      BY <1>3, <2>1 DEF SkillNodes
    <3>2. phase[<<d, k>>] = "absent"
      BY <1>3, <3>1 DEF AbsentMeansNoCall, CallsFollowPlans
    <3> QED BY <1>1, <1>8, <2>1, <3>2
  <2>2. CASE e \in Dispatched
    BY <1>1, <1>4, <1>8, <2>2 DEF SkillsRunInPlanOrder, SkillNodes, Succeeded
  <2> QED BY <1>3, <2>1, <2>2
<1> QED BY <1>2, <1>5, <1>6, <1>7, <1>8 DEF SkillsRunInPlanOrder

\* Steps that touch neither the plans nor any call keep the invariant, as long
\* as they leave the active tree alone or drop it.
LEMMA TreeKeptOrDropped ==
  ASSUME ExecutorInv, UNCHANGED <<call, phase, result, outcome, plan>>,
         \/ UNCHANGED <<activeTree, activeTask>>
         \/ activeTree' = 0 /\ activeTask' \in {activeTask, NoTaskId},
         cursor' \in Nat \ {0},
         activeTree' # 0 => \A k \in SkillNodes(activeTree) : k < cursor' => Succeeded(activeTree, k)
  PROVE  ExecutorInv'
<1> USE DEF ExecutorInv
<1>1. ExecutorShapeOK' /\ ActiveTreeWasDispatched'
  BY DEF ExecutorShapeOK, ActiveTreeWasDispatched, Dispatched
<1>2. CallsFollowPlans' /\ AbsentMeansNoCall' /\ TasksDispatchedOnce'
  BY DEF CallsFollowPlans, AbsentMeansNoCall, TasksDispatchedOnce, Dispatched, Id
<1>3. CursorHasPassed'
  BY DEF CursorHasPassed, SkillNodes, Succeeded
<1>4. SkillsRunInPlanOrder'
  BY DEF SkillsRunInPlanOrder, Dispatched, SkillNodes, Succeeded
<1> QED BY <1>1, <1>2, <1>3, <1>4

\* tick() starts at most the next node, and never before its turn.
LEMMA TickKeepsInv ==
  ASSUME ExecutorInv, Tick
  PROVE  ExecutorInv'
<1>1. PICK k \in cursor..(Length + 1) :
        /\ Reaches(k)
        /\ TickStarts(k) \/ TickWaits(k) \/ TickFails(k) \/ TickSucceeds(k)
        /\ cursor' = k
  BY DEF Tick
<1>2. /\ activeTree \in Dispatched
      /\ cursor \in Nat \ {0} /\ Length \in Nat
      /\ UNCHANGED <<plan, activeTask>>
      /\ activeTree # 0
  BY PlanShape DEF Tick, ExecutorInv, ActiveTreeWasDispatched, ExecutorShapeOK, Length
<1>3. k \in Nat \ {0}
  BY <1>2
<1>4. ASSUME NEW j \in SkillNodes(activeTree), j < k PROVE Succeeded(activeTree, j)
  <2>1. j \in Nat
    BY DEF SkillNodes
  <2>2. CASE j < cursor
    BY <1>2, <2>2 DEF ExecutorInv, CursorHasPassed
  <2>3. CASE j >= cursor
    <3>1. j \in cursor..(k - 1)
      BY <1>2, <1>3, <1>4, <2>1, <2>3
    <3> QED BY <1>1, <3>1 DEF Reaches, Passed
  <2> QED BY <1>2, <2>1, <2>2, <2>3
<1>5. CASE TickWaits(k) \/ TickFails(k) \/ TickSucceeds(k)
  <2>1. /\ UNCHANGED <<call, phase, result, outcome, plan>>
        /\ UNCHANGED <<activeTree, activeTask>> \/ (activeTree' = 0 /\ activeTask' = activeTask)
    BY <1>2, <1>5 DEF TickWaits, TickFails, TickSucceeds, EndTree, orchestratorVars, taskVars
  <2> QED BY <1>1, <1>3, <1>4, <2>1, TreeKeptOrDropped
<1>6. CASE TickStarts(k)
  <2> DEFINE i == <<activeTree, k>>
  <2> DEFINE c == [id |-> <<activeTask, k>>, skill |-> plan[activeTree].nodes[k]]
  <2>1. /\ k \in SkillNodes(activeTree)
        /\ i \in Invocations
        /\ phase[i] = "absent"
        /\ c \in Calls /\ c # NoCall
    BY <1>1, <1>2, <1>6, StartFacts, NullAssumption
  <2>2. /\ phase' = [phase EXCEPT ![i] = "created"]
        /\ call' = [call EXCEPT ![i] = c]
        /\ UNCHANGED <<result, outcome, plan, activeTree, activeTask>>
    BY <1>2, <1>6 DEF TickStarts, CreateTask
  <2> HIDE DEF c
  <2>3. /\ call' \in [Invocations -> Calls \cup {NoCall}]
        /\ phase' \in [Invocations -> Phases]
        /\ \A j \in Invocations : j # i => call'[j] = call[j] /\ phase'[j] = phase[j]
        /\ call'[i] = c /\ phase'[i] = "created"
    BY <2>1, <2>2 DEF ExecutorInv, ExecutorShapeOK, Phases
  <2>4. ExecutorShapeOK' /\ ActiveTreeWasDispatched' /\ TasksDispatchedOnce'
    BY <1>1, <1>3, <2>2, <2>3
    DEF ExecutorInv, ExecutorShapeOK, ActiveTreeWasDispatched, TasksDispatchedOnce, Dispatched
  <2>5. AbsentMeansNoCall'
    BY <2>1, <2>3 DEF ExecutorInv, AbsentMeansNoCall
  <2>6. CallsFollowPlans'
    <3> SUFFICES ASSUME NEW d \in Dispatches, NEW n \in 1..MaxNodes, call'[<<d, n>>] # NoCall
                 PROVE  d \in Dispatched /\ call'[<<d, n>>].id = <<plan[d].task, n>>
      BY <2>2 DEF CallsFollowPlans, Dispatched, Id
    <3>1. CASE <<d, n>> = i
      <4>1. d = activeTree /\ n = k
        BY <3>1
      <4> QED BY <1>2, <2>3, <4>1 DEF c, ExecutorInv, ActiveTreeWasDispatched
    <3>2. CASE <<d, n>> # i
      BY <2>3, <3>2, ExecutorAssumption DEF ExecutorInv, CallsFollowPlans, Id
    <3> QED BY <3>1, <3>2
  <2>7. \A d \in Dispatches, n \in 1..MaxNodes : Succeeded(d, n) => Succeeded(d, n)'
    BY <2>1, <2>2, <2>3, ExecutorAssumption DEF Succeeded
  <2>8. SkillNodes(activeTree) \subseteq 1..MaxNodes /\ activeTree \in Dispatches
    BY <1>2, PlanShape DEF ExecutorInv
  <2>9. CursorHasPassed'
    BY <1>1, <1>4, <2>2, <2>7, <2>8 DEF CursorHasPassed, SkillNodes
  <2>10. SkillsRunInPlanOrder'
    <3> SUFFICES ASSUME NEW d \in Dispatched, NEW n \in SkillNodes(d),
                        phase'[<<d, n>>] # "absent", NEW j \in SkillNodes(d), j < n
                 PROVE  Succeeded(d, j)'
      BY <2>2 DEF SkillsRunInPlanOrder, Dispatched, SkillNodes
    <3>1. /\ d \in Dispatches
          /\ SkillNodes(d) \subseteq 1..MaxNodes
          /\ <<d, n>> \in Invocations
      BY PlanShape, ExecutorAssumption DEF ExecutorInv
    <3>2. CASE <<d, n>> = i
      <4>1. d = activeTree /\ n = k
        BY <3>2
      <4> QED BY <1>4, <2>7, <3>1, <4>1
    <3>3. CASE <<d, n>> # i
      <4>1. Succeeded(d, j)
        BY <2>3, <3>1, <3>3 DEF ExecutorInv, SkillsRunInPlanOrder
      <4> QED BY <2>7, <3>1, <4>1
    <3> QED BY <3>2, <3>3
  <2> QED BY <2>4, <2>5, <2>6, <2>9, <2>10 DEF ExecutorInv
<1> QED BY <1>1, <1>5, <1>6

\* The loop and the skills change no plan and no cursor.
LEMMA OrchestrationKeepsInv ==
  ASSUME ExecutorInv, Orchestration
  PROVE  ExecutorInv'
<1>1. UNCHANGED <<plan, activeTree, cursor, activeTask>>
  BY DEF Orchestration, executorVars
<1> USE <1>1, OrchestrationKeeps DEF ExecutorInv
<1>2. ExecutorShapeOK' /\ ActiveTreeWasDispatched' /\ TasksDispatchedOnce'
  BY DEF ExecutorShapeOK, ActiveTreeWasDispatched, TasksDispatchedOnce, Dispatched
<1>3. CallsFollowPlans' /\ AbsentMeansNoCall'
  BY DEF CallsFollowPlans, AbsentMeansNoCall, Dispatched, Id
<1>4. CursorHasPassed'
  <2> SUFFICES ASSUME activeTree # 0, NEW k \in SkillNodes(activeTree), k < cursor
               PROVE  Succeeded(activeTree, k)'
    BY DEF CursorHasPassed, SkillNodes
  <2>1. activeTree \in Dispatches /\ k \in 1..MaxNodes
    BY PlanShape DEF ActiveTreeWasDispatched
  <2> QED BY <2>1 DEF CursorHasPassed
<1>5. SkillsRunInPlanOrder'
  <2> SUFFICES ASSUME NEW d \in Dispatched, NEW k \in SkillNodes(d), phase'[<<d, k>>] # "absent",
                      NEW j \in SkillNodes(d), j < k
               PROVE  Succeeded(d, j)'
    BY DEF SkillsRunInPlanOrder, Dispatched, SkillNodes
  <2>1. d \in Dispatches /\ k \in 1..MaxNodes /\ j \in 1..MaxNodes /\ <<d, k>> \in Invocations
    BY PlanShape, ExecutorAssumption
  <2> QED BY <2>1 DEF SkillsRunInPlanOrder
<1> QED BY <1>2, <1>3, <1>4, <1>5

\* The invariant holds of every behaviour of the executor.
THEOREM ExecutorInvariant == ExecutorSpec => []ExecutorInv
<1>1. ExecutorInit => ExecutorInv
  <2> SUFFICES ASSUME ExecutorInit PROVE ExecutorInv
    OBVIOUS
  <2> USE ExecutorAssumption DEF ExecutorInit, OrchestratorInit
  <2>1. Dispatched = {}
    BY DEF Dispatched
  <2>2. ExecutorShapeOK
    BY DEF ExecutorShapeOK, Phases, Results, Outcomes
  <2>3. CallsFollowPlans /\ AbsentMeansNoCall
    BY DEF CallsFollowPlans, AbsentMeansNoCall
  <2> QED
    BY <2>1, <2>2, <2>3
    DEF ExecutorInv, ActiveTreeWasDispatched, TasksDispatchedOnce, CursorHasPassed,
        SkillsRunInPlanOrder
<1>2. ExecutorInv /\ [ExecutorNext]_allVars => ExecutorInv'
  <2> SUFFICES ASSUME ExecutorInv, [ExecutorNext]_allVars PROVE ExecutorInv'
    OBVIOUS
  <2>1. cursor \in Nat \ {0}
        /\ (activeTree # 0 => \A k \in SkillNodes(activeTree) : k < cursor => Succeeded(activeTree, k))
    BY DEF ExecutorInv, ExecutorShapeOK, CursorHasPassed
  <2>2. CASE UNCHANGED allVars
    BY <2>1, <2>2, TreeKeptOrDropped DEF allVars, executorVars, orchestratorVars, taskVars
  <2>3. ASSUME NEW t \in Controllable, PauseTask(t) \/ ResumeTask(t) \/ CancelTask(t)
        PROVE  ExecutorInv'
    BY <2>1, <2>3, TreeKeptOrDropped
    DEF PauseTask, ResumeTask, CancelTask, orchestratorVars, taskVars
  <2>4. CASE Requests
    BY <2>3, <2>4, DispatchKeepsInv DEF Requests
  <2> QED BY <2>2, <2>4, TickKeepsInv, OrchestrationKeepsInv DEF ExecutorNext
<1> QED BY <1>1, <1>2, PTL DEF ExecutorSpec

-----------------------------------------------------------------------------
(* Theorems *)

\* The skills of a plan run in plan order.
THEOREM PlanOrderKept == ExecutorSpec => []SkillsRunInPlanOrder
<1>1. ExecutorInv => SkillsRunInPlanOrder
  BY DEF ExecutorInv
<1> QED BY <1>1, ExecutorInvariant, PTL

\* When no task is dispatched twice, every step of the executor is a step of
\* the orchestrator with callers that never reuse an id, or none at all.
THEOREM ExecutorImplementsOrchestrator ==
  ASSUME UniqueIds
  PROVE  ExecutorSpec => ImplementsOrchestrator
<1>1. ExecutorInit => OrchestratorInit
  BY DEF ExecutorInit
<1>2. ExecutorInv /\ [ExecutorNext]_allVars => [OrchestratorNext]_orchestratorVars
  <2> SUFFICES ASSUME ExecutorInv, [ExecutorNext]_allVars
               PROVE  OrchestratorNext \/ UNCHANGED orchestratorVars
    OBVIOUS
  <2>1. CASE UNCHANGED allVars \/ Requests
    BY <2>1 DEF allVars, Requests, Dispatch, PauseTask, ResumeTask, CancelTask
  <2>2. CASE Orchestration
    BY <2>2 DEF Orchestration, OrchestratorNext
  <2>3. CASE Tick
    <3>1. PICK k \in cursor..(Length + 1) :
            /\ Reaches(k)
            /\ TickStarts(k) \/ TickWaits(k) \/ TickFails(k) \/ TickSucceeds(k)
      BY <2>3 DEF Tick
    <3>2. CASE TickWaits(k) \/ TickFails(k) \/ TickSucceeds(k)
      BY <3>2 DEF TickWaits, TickFails, TickSucceeds, EndTree
    <3>3. CASE TickStarts(k)
      <4> DEFINE i == <<activeTree, k>>
      <4> DEFINE c == [id |-> <<activeTask, k>>, skill |-> plan[activeTree].nodes[k]]
      <4>1. /\ activeTree \in Dispatched
            /\ i \in Invocations /\ phase[i] = "absent" /\ c \in Calls
            /\ activeTree # 0
        BY <2>3, <3>1, <3>3, StartFacts DEF Tick
      <4>2. activeTask = plan[activeTree].task
        BY <4>1 DEF ExecutorInv, ActiveTreeWasDispatched
      <4>3. ASSUME NEW j \in Invocations, call[j] # NoCall PROVE Id(j) # c.id
        <5>1. PICK e \in Dispatches, n \in 1..MaxNodes : j = <<e, n>>
          BY ExecutorAssumption
        <5>2. e \in Dispatched /\ Id(j) = <<plan[e].task, n>>
          BY <4>3, <5>1 DEF ExecutorInv, CallsFollowPlans
        <5>3. j # i
          BY <4>1, <4>3 DEF ExecutorInv, AbsentMeansNoCall
        <5>4. CASE e = activeTree
          BY <5>1, <5>2, <5>3, <5>4
        <5>5. CASE e # activeTree
          BY <4>1, <4>2, <5>2, <5>5 DEF ExecutorInv, TasksDispatchedOnce
        <5> QED BY <5>4, <5>5
      <4>4. CreateTask(i, c)
            /\ UNCHANGED <<lockVars, registry, skillTask, outcome, expired, result, running>>
        BY <3>3 DEF TickStarts
      <4>5. Submit(i, c)
        BY <4>3, <4>4 DEF Submit
      <4> QED BY <4>1, <4>5 DEF OrchestratorNext
    <3> QED BY <3>1, <3>2, <3>3
  <2> QED BY <2>1, <2>2, <2>3 DEF ExecutorNext
<1> QED BY <1>1, <1>2, ExecutorInvariant, PTL
        DEF ExecutorSpec, ImplementsOrchestrator, OrchestratorSpec

\* In the runtime as a whole, skills of plans never compete while they execute,
\* as long as no task is dispatched twice: not even when a plan is cancelled or
\* replaced and its skills are left running.
THEOREM PlansExclude ==
  ASSUME UniqueIds, Cancellable = {}
  PROVE  ExecutorSpec => []MutualExclusion
BY ExecutorImplementsOrchestrator, CompetingSkillsExclude, PTL DEF ImplementsOrchestrator

-----------------------------------------------------------------------------
(* What is published *)

\* SuccessIsEarned with the types of what the executor keeps itself.
StatusInv ==
  /\ cursor \in 1..(MaxNodes + 1)
  /\ paused \in BOOLEAN
  /\ taskStatus \in TaskStatuses
  /\ published \in [TaskIds -> TaskStatuses]
  /\ SuccessIsEarned

\* No step takes a success or a plan back.
LEMMA SuccessIsStable ==
  ASSUME ExecutorInv, [ExecutorNext]_allVars
  PROVE  /\ \A d \in Dispatches, k \in 1..MaxNodes : Succeeded(d, k) => Succeeded(d, k)'
         /\ \A d \in Dispatched : d \in Dispatched' /\ plan'[d] = plan[d]
<1>1. CASE UNCHANGED <<phase, result, plan>>
  BY <1>1 DEF Succeeded, Dispatched
<1>2. CASE Orchestration
  BY <1>2, OrchestrationKeeps DEF Orchestration, executorVars, Dispatched
<1>3. CASE Requests
  <2>1. ASSUME NEW t \in Controllable, PauseTask(t) \/ ResumeTask(t) \/ CancelTask(t)
        PROVE  UNCHANGED <<phase, result, plan>>
    BY <2>1 DEF PauseTask, ResumeTask, CancelTask, orchestratorVars, taskVars
  <2>2. ASSUME NEW d \in Dispatches, NEW p \in Plans, Dispatch(d, p)
        PROVE  /\ UNCHANGED <<phase, result>>
               /\ \A e \in Dispatched : e \in Dispatched' /\ plan'[e] = plan[e]
    BY <2>2, ExecutorAssumption
    DEF Dispatch, ExecutorInv, ExecutorShapeOK, Dispatched, orchestratorVars, taskVars
  <2> QED BY <1>1, <1>3, <2>1, <2>2 DEF Requests, Succeeded
<1>4. CASE Tick
  <2>1. PICK k \in cursor..(Length + 1) :
          /\ Reaches(k)
          /\ TickStarts(k) \/ TickWaits(k) \/ TickFails(k) \/ TickSucceeds(k)
    BY <1>4 DEF Tick
  <2>2. CASE TickWaits(k) \/ TickFails(k) \/ TickSucceeds(k)
    BY <1>1, <1>4, <2>2
    DEF Tick, TickWaits, TickFails, TickSucceeds, EndTree, orchestratorVars, taskVars
  <2>3. CASE TickStarts(k)
    <3> DEFINE i == <<activeTree, k>>
    <3>1. /\ phase[i] = "absent" /\ phase' = [phase EXCEPT ![i] = "created"]
          /\ UNCHANGED <<result, plan>>
      BY <1>4, <2>3 DEF Tick, TickStarts, CreateTask
    <3>2. \A j \in Invocations : phase[j] = "done" => phase'[j] = "done"
      BY <3>1 DEF ExecutorInv, ExecutorShapeOK
    <3> QED BY <3>1, <3>2, ExecutorAssumption DEF Succeeded, Dispatched
  <2> QED BY <2>1, <2>2, <2>3
<1> QED BY <1>1, <1>2, <1>3, <1>4 DEF ExecutorNext, allVars, executorVars, orchestratorVars, taskVars

\* A step that publishes nothing new as succeeded leaves the old successes earned.
LEMMA EarnedStaysEarned ==
  ASSUME ExecutorInv, SuccessIsEarned, [ExecutorNext]_allVars,
         NEW t \in TaskIds, published[t] = "succeeded"
  PROVE  \E d \in Dispatched' : /\ plan'[d].task = t
                                /\ \A k \in SkillNodes(d)' : Succeeded(d, k)'
<1>1. PICK d \in Dispatched : plan[d].task = t /\ \A k \in SkillNodes(d) : Succeeded(d, k)
  BY DEF SuccessIsEarned
<1>2. d \in Dispatched' /\ plan'[d] = plan[d]
  BY SuccessIsStable
<1>3. d \in Dispatches /\ SkillNodes(d) \subseteq 1..MaxNodes
  BY PlanShape DEF ExecutorInv
<1>4. SkillNodes(d)' = SkillNodes(d)
  BY <1>2 DEF SkillNodes
<1> QED BY <1>1, <1>2, <1>3, <1>4, SuccessIsStable

\* What a tree that ends has passed: all of its skills, when it succeeds.
LEMMA SuccessfulTree ==
  ASSUME ExecutorInv, activeTree # 0, NEW k \in cursor..(Length + 1),
         Reaches(k), k > Length
  PROVE  \A j \in SkillNodes(activeTree) : Succeeded(activeTree, j)
<1>1. /\ cursor \in Nat \ {0} /\ Length \in Nat
  BY PlanShape DEF ExecutorInv, ActiveTreeWasDispatched, ExecutorShapeOK, Length
<1>2. ASSUME NEW j \in SkillNodes(activeTree) PROVE Succeeded(activeTree, j)
  <2>1. j \in 1..Length
    BY DEF SkillNodes, Length
  <2>2. CASE j < cursor
    BY <2>2 DEF ExecutorInv, CursorHasPassed
  <2>3. CASE j >= cursor
    <3>1. j \in cursor..(k - 1)
      BY <1>1, <2>1, <2>3
    <3> QED BY <3>1 DEF Reaches, Passed
  <2> QED BY <1>1, <2>1, <2>2, <2>3
<1> QED BY <1>2

\* A status published for one task leaves those of the others alone.
LEMMA PublishOne ==
  ASSUME published \in [TaskIds -> TaskStatuses], NEW task \in TaskIds \cup {NoTaskId},
         NEW status \in TaskStatuses, Publish(task, status)
  PROVE  /\ published' \in [TaskIds -> TaskStatuses]
         /\ \A t \in TaskIds : published'[t] = IF t = task THEN status ELSE published[t]
BY ExecutorAssumption DEF Publish

\* A request publishes no success.
LEMMA RequestKeepsStatus ==
  ASSUME ExecutorInv, StatusInv, Requests
  PROVE  StatusInv'
<1>1. PICK task \in TaskIds \cup {NoTaskId}, status \in TaskStatuses \ {"succeeded"} :
        /\ Publish(task, status)
        /\ cursor' \in {1, cursor} /\ paused' \in BOOLEAN /\ taskStatus' = status
  <2>1. CASE \E d \in Dispatches, p \in Plans : Dispatch(d, p)
    BY <2>1, ExecutorAssumption DEF Dispatch, TaskStatuses
  <2>2. ASSUME NEW t \in Controllable, PauseTask(t) \/ ResumeTask(t) \/ CancelTask(t)
        PROVE  \E task \in TaskIds \cup {NoTaskId}, status \in TaskStatuses \ {"succeeded"} :
                 /\ Publish(task, status)
                 /\ cursor' \in {1, cursor} /\ paused' \in BOOLEAN /\ taskStatus' = status
    BY <2>2 DEF PauseTask, ResumeTask, CancelTask, TaskStatuses, ExecutorInv, ExecutorShapeOK
  <2> QED BY <2>1, <2>2 DEF Requests
<1>2. /\ published' \in [TaskIds -> TaskStatuses]
      /\ \A t \in TaskIds : published'[t] = "succeeded" => published[t] = "succeeded"
  BY <1>1, PublishOne DEF StatusInv
<1>3. [ExecutorNext]_allVars
  BY DEF ExecutorNext
<1>4. SuccessIsEarned'
  BY <1>2, <1>3, EarnedStaysEarned DEF StatusInv, SuccessIsEarned
<1> QED BY <1>1, <1>2, <1>4, ExecutorAssumption DEF StatusInv

\* tick() publishes a success only of a tree whose skills have all succeeded.
LEMMA TickKeepsStatus ==
  ASSUME ExecutorInv, StatusInv, Tick
  PROVE  StatusInv'
<1>1. PICK k \in cursor..(Length + 1) :
        /\ Reaches(k)
        /\ TickStarts(k) \/ TickWaits(k) \/ TickFails(k) \/ TickSucceeds(k)
        /\ cursor' = k
  BY DEF Tick
<1>2. /\ activeTree # 0 /\ activeTree \in Dispatched
      /\ activeTask = plan[activeTree].task /\ activeTask \in TaskIds
      /\ Length \in Nat /\ Length <= MaxNodes /\ UNCHANGED <<plan, paused>>
  BY PlanShape DEF Tick, ExecutorInv, ActiveTreeWasDispatched, Length
<1>3. cursor' \in 1..(MaxNodes + 1) /\ paused' \in BOOLEAN
  BY <1>1, <1>2, ExecutorAssumption DEF StatusInv
<1>4. [ExecutorNext]_allVars
  BY DEF ExecutorNext
<1>5. CASE TickStarts(k) \/ TickWaits(k)
  <2>1. UNCHANGED <<taskStatus, published>>
    BY <1>5 DEF TickStarts, TickWaits
  <2>2. SuccessIsEarned'
    BY <1>4, <2>1, EarnedStaysEarned DEF StatusInv, SuccessIsEarned
  <2> QED BY <1>3, <2>1, <2>2 DEF StatusInv
<1>6. CASE TickFails(k)
  <2>1. Publish(activeTask, "failed") /\ taskStatus' = "failed" /\ "failed" \in TaskStatuses
    BY <1>6 DEF TickFails, EndTree, TaskStatuses
  <2>2. /\ published' \in [TaskIds -> TaskStatuses]
        /\ \A t \in TaskIds : published'[t] = "succeeded" => published[t] = "succeeded"
    BY <1>2, <2>1, PublishOne DEF StatusInv
  <2>3. SuccessIsEarned'
    BY <1>4, <2>2, EarnedStaysEarned DEF StatusInv, SuccessIsEarned
  <2> QED BY <1>3, <2>1, <2>2, <2>3 DEF StatusInv
<1>7. CASE TickSucceeds(k)
  <2>1. /\ Publish(activeTask, "succeeded") /\ taskStatus' = "succeeded"
        /\ "succeeded" \in TaskStatuses /\ k > Length
    BY <1>7 DEF TickSucceeds, EndTree, TaskStatuses
  <2>2. /\ published' \in [TaskIds -> TaskStatuses]
        /\ \A t \in TaskIds : published'[t] = "succeeded" =>
                                t = activeTask \/ published[t] = "succeeded"
    BY <1>2, <2>1, PublishOne DEF StatusInv
  <2>3. \A j \in SkillNodes(activeTree) : Succeeded(activeTree, j)
    BY <1>1, <1>2, <2>1, SuccessfulTree
  <2>4. PICK d \in Dispatched : d = activeTree
    BY <1>2
  <2>5. /\ d \in Dispatched' /\ plan'[d] = plan[d]
        /\ \A j \in SkillNodes(d)' : Succeeded(d, j)'
    <3>1. UNCHANGED <<phase, result>>
      BY <1>7 DEF TickSucceeds, EndTree, orchestratorVars, taskVars
    <3> QED BY <1>2, <2>3, <2>4, <3>1 DEF Dispatched, SkillNodes, Succeeded
  <2>6. SuccessIsEarned'
    <3> SUFFICES ASSUME NEW t \in TaskIds, published'[t] = "succeeded"
                 PROVE  \E e \in Dispatched' : /\ plan'[e].task = t
                                               /\ \A j \in SkillNodes(e)' : Succeeded(e, j)'
      BY DEF SuccessIsEarned
    <3>1. CASE t = activeTask
      BY <1>2, <2>4, <2>5, <3>1
    <3>2. CASE published[t] = "succeeded"
      BY <1>4, <3>2, EarnedStaysEarned DEF StatusInv
    <3> QED BY <2>2, <3>1, <3>2
  <2> QED BY <1>3, <2>1, <2>2, <2>6 DEF StatusInv
<1> QED BY <1>1, <1>5, <1>6, <1>7

\* "succeeded" is published only of a task one of whose plans has had all its
\* skills succeed, for any plans and dispatches, the same task dispatched again,
\* paused, cancelled or replaced included (tick, _notify_task_status).
THEOREM SuccessEarned == ExecutorSpec => [](StatusInv /\ SuccessIsEarned)
<1>1. ExecutorInit => StatusInv
  <2> SUFFICES ASSUME ExecutorInit PROVE StatusInv
    OBVIOUS
  <2>1. cursor \in 1..(MaxNodes + 1)
    BY ExecutorAssumption DEF ExecutorInit
  <2>2. \A t \in TaskIds : published[t] # "succeeded"
    BY DEF ExecutorInit
  <2> QED BY <2>1, <2>2 DEF ExecutorInit, StatusInv, SuccessIsEarned, TaskStatuses
<1>2. ExecutorInv /\ StatusInv /\ [ExecutorNext]_allVars => StatusInv'
  <2> SUFFICES ASSUME ExecutorInv, StatusInv, [ExecutorNext]_allVars PROVE StatusInv'
    OBVIOUS
  <2>1. CASE UNCHANGED allVars \/ Orchestration
    <3>1. UNCHANGED executorVars
      BY <2>1 DEF Orchestration, allVars
    <3>2. SuccessIsEarned'
      BY <3>1, EarnedStaysEarned DEF StatusInv, SuccessIsEarned, executorVars
    <3> QED BY <3>1, <3>2 DEF StatusInv, executorVars
  <2> QED BY <2>1, RequestKeepsStatus, TickKeepsStatus DEF ExecutorNext
<1>3. StatusInv => SuccessIsEarned
  BY DEF StatusInv
<1> QED BY <1>1, <1>2, <1>3, ExecutorInvariant, PTL DEF ExecutorSpec

\* ExecutorStateOK, when no task is dispatched twice and nobody calls
\* cancel_skill: the types of the composed system, the resources a plan's
\* skills hold while they execute, and the successes published.
THEOREM ExecutorStateKept ==
  ASSUME UniqueIds, Cancellable = {}
  PROVE  ExecutorSpec => []ExecutorStateOK
<1>1. ExecutorSpec => OrchestratorSpec
  BY ExecutorImplementsOrchestrator DEF ImplementsOrchestrator
<1>2. OrchestratorInv => OrchestratorTypeOK
  BY DEF OrchestratorInv
<1>3. ExecutorInv /\ StatusInv /\ OrchestratorTypeOK => ExecutorTypeOK
  BY DEF ExecutorInv, ExecutorShapeOK, StatusInv, ExecutorTypeOK
<1>4. ExecutorTypeOK /\ HeldWhileExecuting /\ SuccessIsEarned => ExecutorStateOK
  BY DEF ExecutorStateOK
<1> QED
  BY <1>1, <1>2, <1>3, <1>4, ExecutorInvariant, SuccessEarned, OrchestratorInvariant,
     ExecutingHoldsResources, PTL

=============================================================================
