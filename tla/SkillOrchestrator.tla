------------------------- MODULE SkillOrchestrator -------------------------
(***************************************************************************)
(* roboweave_runtime/skill_orchestrator.py on one asyncio loop.            *)
(*                                                                         *)
(* An invocation is one asyncio task running execute_skill(call).  The     *)
(* coroutine gives up control only at "await asyncio.wait_for(task, ...)", *)
(* so all that happens before it is one action (Begin), all that happens   *)
(* after it another (Resume), and the skill's own task, wrapped by         *)
(* ensure_future, runs between the two.  An exception raised anywhere in   *)
(* execute_skill leaves through its finally block and is the result        *)
(* "raised".                                                               *)
(***************************************************************************)
EXTENDS ResourceManager

CONSTANTS
  Invocations,    \* asyncio tasks running execute_skill
  Skills,         \* skill names
  Required,       \* descriptor.required_resources of each skill
  Exclusive,      \* descriptor.exclusive_resources of each skill
  SkillStatuses,  \* statuses a skill may return, "success" among them
  UniqueIds,      \* do callers give every call an id of its own?
  Cancellable,    \* skill_call_ids somebody may pass to cancel_skill
  NoCall, NoTask

ASSUME SkillsAssumption ==
  /\ Required \in [Skills -> SUBSET Resources]
  /\ Exclusive \in [Skills -> SUBSET Resources]

ASSUME CallersAssumption ==
  /\ UniqueIds \in BOOLEAN
  /\ Cancellable \subseteq Holders

VARIABLES
  registry,   \* _registry: the skills registered so far
  call,       \* the SkillCall of each invocation
  phase,      \* where the execute_skill coroutine is
  skillTask,  \* the state of the skill's own asyncio task
  outcome,    \* what that task ended with
  expired,    \* has wait_for's deadline passed?
  result,     \* what execute_skill returned
  running     \* _running: the skill task registered under each skill_call_id

taskVars == <<call, phase, skillTask, outcome, expired, result>>
orchestratorVars == <<lockVars, registry, taskVars, running>>

Calls == [id : Holders, skill : Skills]

ASSUME NullAssumption == NoTask \notin Invocations /\ NoCall \notin Calls

Phases == {"absent", "created", "waiting", "done"}

\* "ready": scheduled, not one step taken; "aborting": cancelled in that state;
\* "cancelling": a CancelledError is on its way into, or inside, the skill.
SkillTaskStates ==
  {"none", "ready", "executing", "aborting", "cancelling", "finished"}

Outcomes == SkillStatuses \cup {"none", "cancelled", "raised"}

Failures == {"TSK_SKILL_NOT_FOUND", "TSK_RESOURCE_CONFLICT",
             "TSK_PRECONDITION_FAILED", "TSK_POSTCONDITION_FAILED"}

Results == SkillStatuses \cup Failures \cup {"none", "timeout", "cancelled", "raised"}

Id(i) == call[i].id
SharedNeed(i) == Required[call[i].skill]
ExclusiveNeed(i) == Exclusive[call[i].skill]

\* The skill's code is running: it may still move the robot.
Executing(i) == skillTask[i] \in {"executing", "cancelling"}

\* The invocation is between its acquire() and its finally block.
Live(i) == phase[i] = "waiting"

-----------------------------------------------------------------------------
(* Callers *)

RegisterSkill(s) ==
  /\ registry' = registry \cup {s}
  /\ UNCHANGED <<lockVars, taskVars, running>>

\* loop.create_task(orchestrator.execute_skill(call))
CreateTask(i, c) ==
  /\ phase[i] = "absent"
  /\ phase' = [phase EXCEPT ![i] = "created"]
  /\ call' = [call EXCEPT ![i] = c]

Submit(i, c) ==
  /\ UniqueIds => \A j \in Invocations : call[j] # NoCall => Id(j) # c.id
  /\ CreateTask(i, c)
  /\ UNCHANGED <<lockVars, registry, skillTask, outcome, expired, result, running>>

\* task.cancel(): a task that has not started never will; one that has gets a
\* CancelledError at its current await; a finished one is left alone.
CancelState(state) ==
  IF state = "ready" THEN "aborting"
  ELSE IF state = "executing" THEN "cancelling" ELSE state

\* Mutant: the entry is popped before it is read.
CancelSkillForgetting(id) ==
  /\ running' = [running EXCEPT ![id] = NoTask]
  /\ Release(id)
  /\ UNCHANGED <<registry, taskVars>>

\* cancel_skill(): has no await, so it is one step.  It frees the locks at once.
CancelSkill(id) ==
  /\ skillTask' = IF running[id] = NoTask THEN skillTask
                  ELSE [skillTask EXCEPT ![running[id]] = CancelState(@)]
  /\ Release(id)
  /\ running' = [running EXCEPT ![id] = NoTask]
  /\ UNCHANGED <<registry, call, phase, outcome, expired, result>>

-----------------------------------------------------------------------------
(* execute_skill up to its await *)

\* return or raise, through "finally: release(holder); _running.pop(id)"
Finally(i, r) ==
  /\ phase' = [phase EXCEPT ![i] = "done"]
  /\ result' = [result EXCEPT ![i] = r]
  /\ Release(Id(i))
  /\ running' = [running EXCEPT ![Id(i)] = NoTask]

\* The lookup is before the try block: nothing is released.
RejectUnknownSkill(i) ==
  /\ call[i].skill \notin registry
  /\ phase' = [phase EXCEPT ![i] = "done"]
  /\ result' = [result EXCEPT ![i] = "TSK_SKILL_NOT_FOUND"]
  /\ UNCHANGED <<lockVars, running, skillTask>>

RejectConflict(i) ==
  /\ call[i].skill \in registry
  /\ ~ Grantable(Id(i), SharedNeed(i), ExclusiveNeed(i))
  /\ Finally(i, "TSK_RESOURCE_CONFLICT")
  /\ UNCHANGED skillTask

\* Mutant: the refusal returns past the finally block.
RejectPreconditionLeaking(i) ==
  /\ call[i].skill \in registry
  /\ Acquire(Id(i), SharedNeed(i), ExclusiveNeed(i))
  /\ phase' = [phase EXCEPT ![i] = "done"]
  /\ result' = [result EXCEPT ![i] = "TSK_PRECONDITION_FAILED"]
  /\ UNCHANGED <<running, skillTask>>

\* check_precondition refuses or raises: the locks just taken go back.
RejectPrecondition(i) ==
  /\ call[i].skill \in registry
  /\ Grantable(Id(i), SharedNeed(i), ExclusiveNeed(i))
  /\ \E r \in {"TSK_PRECONDITION_FAILED", "raised"} : Finally(i, r)
  /\ UNCHANGED skillTask

Launch(i) ==
  /\ call[i].skill \in registry
  /\ Acquire(Id(i), SharedNeed(i), ExclusiveNeed(i))
  /\ phase' = [phase EXCEPT ![i] = "waiting"]
  /\ skillTask' = [skillTask EXCEPT ![i] = "ready"]
  /\ running' = [running EXCEPT ![Id(i)] = i]
  /\ UNCHANGED result

Begin(i) ==
  /\ phase[i] = "created"
  /\ \/ RejectUnknownSkill(i)
     \/ RejectConflict(i)
     \/ RejectPrecondition(i)
     \/ Launch(i)
  /\ UNCHANGED <<registry, call, outcome, expired>>

-----------------------------------------------------------------------------
(* The skill's own task *)

StartSkill(i) ==
  /\ skillTask[i] = "ready"
  /\ skillTask' = [skillTask EXCEPT ![i] = "executing"]
  /\ UNCHANGED <<lockVars, registry, call, phase, outcome, expired, result, running>>

EndSkill(i, o) ==
  /\ skillTask' = [skillTask EXCEPT ![i] = "finished"]
  /\ outcome' = [outcome EXCEPT ![i] = o]
  /\ UNCHANGED <<lockVars, registry, call, phase, expired, result, running>>

\* execute() returns a SkillResult or raises.
FinishSkill(i) ==
  /\ skillTask[i] = "executing"
  /\ \E o \in SkillStatuses \cup {"raised"} : EndSkill(i, o)

\* The CancelledError ends the task, or the skill swallows it and still
\* returns a result, or its clean-up raises.
UnwindSkill(i) ==
  \/ skillTask[i] = "aborting" /\ EndSkill(i, "cancelled")
  \/ /\ skillTask[i] = "cancelling"
     /\ \E o \in SkillStatuses \cup {"cancelled", "raised"} : EndSkill(i, o)

\* Mutant: the deadline gives the locks back at once.
ExpireReleasing(i) ==
  /\ Live(i)
  /\ ~ expired[i]
  /\ expired' = [expired EXCEPT ![i] = TRUE]
  /\ skillTask' = [skillTask EXCEPT ![i] = CancelState(@)]
  /\ Release(Id(i))
  /\ UNCHANGED <<registry, call, phase, outcome, result, running>>

\* Mutant: the deadline does not cancel the skill (a shielded task).
ExpireShielded(i) ==
  /\ Live(i)
  /\ ~ expired[i]
  /\ expired' = [expired EXCEPT ![i] = TRUE]
  /\ UNCHANGED <<lockVars, registry, call, phase, skillTask, outcome, result, running>>

\* wait_for's deadline: it cancels the skill's task and goes on waiting for it.
\* A task that finished in the same loop turn keeps its result up to Python
\* 3.11 and loses it from 3.12 on.
Expire(i) ==
  /\ Live(i)
  /\ ~ expired[i]
  /\ expired' = [expired EXCEPT ![i] = TRUE]
  /\ skillTask' = [skillTask EXCEPT ![i] = CancelState(@)]
  /\ \/ UNCHANGED outcome
     \/ /\ skillTask[i] = "finished"
        /\ outcome' = [outcome EXCEPT ![i] = "cancelled"]
  /\ UNCHANGED <<lockVars, registry, call, phase, result, running>>

-----------------------------------------------------------------------------
(* execute_skill after its await *)

\* What execute_skill may return for the way its skill ended.
Returns(i) ==
  CASE outcome[i] = "cancelled" -> IF expired[i] THEN {"timeout"} ELSE {"cancelled"}
    [] outcome[i] = "success" -> {"success", "TSK_POSTCONDITION_FAILED", "raised"}
    [] OTHER -> {outcome[i]}

Resume(i) ==
  /\ Live(i)
  /\ skillTask[i] = "finished"
  /\ \E r \in Returns(i) : Finally(i, r)
  /\ UNCHANGED <<registry, call, skillTask, outcome, expired>>

-----------------------------------------------------------------------------

OrchestratorInit ==
  /\ Init
  /\ registry = {}
  /\ call = [i \in Invocations |-> NoCall]
  /\ phase = [i \in Invocations |-> "absent"]
  /\ skillTask = [i \in Invocations |-> "none"]
  /\ outcome = [i \in Invocations |-> "none"]
  /\ expired = [i \in Invocations |-> FALSE]
  /\ result = [i \in Invocations |-> "none"]
  /\ running = [id \in Holders |-> NoTask]

\* One turn of the event loop on behalf of an invocation.
LoopStep(i) == Begin(i) \/ StartSkill(i) \/ UnwindSkill(i) \/ Expire(i) \/ Resume(i)

OrchestratorNext ==
  \/ \E s \in Skills : RegisterSkill(s)
  \/ \E i \in Invocations, c \in Calls : Submit(i, c)
  \/ \E id \in Cancellable : CancelSkill(id)
  \/ \E i \in Invocations : LoopStep(i) \/ FinishSkill(i)

OrchestratorSpec == OrchestratorInit /\ [][OrchestratorNext]_orchestratorVars

\* The loop runs every callback that is ready, so no such step waits forever.
\* Nothing makes a skill finish by itself (FinishSkill) or a caller call; a
\* skill that was cancelled is taken to end some day, with or without a result.
LoopFairness ==
  \A i \in Invocations :
    /\ WF_orchestratorVars(Begin(i))
    /\ WF_orchestratorVars(StartSkill(i))
    /\ WF_orchestratorVars(UnwindSkill(i))
    /\ WF_orchestratorVars(Expire(i))
    /\ WF_orchestratorVars(Resume(i))

OrchestratorFairSpec == OrchestratorSpec /\ LoopFairness

-----------------------------------------------------------------------------
(* Properties *)

OrchestratorTypeOK ==
  /\ TypeOK
  /\ registry \subseteq Skills
  /\ call \in [Invocations -> Calls \cup {NoCall}]
  /\ phase \in [Invocations -> Phases]
  /\ skillTask \in [Invocations -> SkillTaskStates]
  /\ outcome \in [Invocations -> Outcomes]
  /\ expired \in [Invocations -> BOOLEAN]
  /\ result \in [Invocations -> Results]
  /\ running \in [Holders -> Invocations \cup {NoTask}]

\* Two invocations need the same resource, one of them exclusively.
Compete(i, j) ==
  \/ ExclusiveNeed(i) \cap (ExclusiveNeed(j) \cup SharedNeed(j)) # {}
  \/ ExclusiveNeed(j) \cap SharedNeed(i) # {}

\* Skills that compete for a resource never execute at the same time, not even
\* while one of them is still unwinding after its timeout (execute_skill: the
\* locks go back in the finally block, after wait_for has seen the skill end).
MutualExclusion ==
  \A i, j \in Invocations :
    i # j /\ Executing(i) /\ Executing(j) => ~ Compete(i, j)

\* A skill holds what its descriptor asks for as long as its code runs: no
\* other call's conflict, timeout or finally block takes it away
\* (execute_skill, steps 2 to 6 of its docstring).
HeldWhileExecuting ==
  \A i \in Invocations : Executing(i) =>
    /\ \A r \in ExclusiveNeed(i) : exclusive[r] = Id(i)
    /\ \A r \in SharedNeed(i) : Id(i) \in shared[r]

\* cancel_skill() frees the locks of a skill that has not stopped yet; until
\* somebody cancels one of them, competing skills still exclude each other.
ExclusiveUntilCancelled ==
  \A i, j \in Invocations :
    /\ i # j
    /\ skillTask[i] = "executing"
    /\ skillTask[j] = "executing"
    => ~ Compete(i, j)

\* cancel_skill() finds every invocation in _running for as long as there is
\* something left to cancel.
CancelReachesSkill ==
  \A i \in Invocations :
    Live(i) /\ skillTask[i] \in {"ready", "executing"} => running[Id(i)] = i

\* No lock outlives the execute_skill call it was taken for, whichever way the
\* call ended and whoever cancelled or reused its id: a held resource is one
\* that a live invocation with that id asked for.
LocksHaveOwners ==
  \A r \in Resources :
    /\ exclusive[r] # NoHolder =>
         \E i \in Invocations : Live(i) /\ Id(i) = exclusive[r] /\ r \in ExclusiveNeed(i)
    /\ \A h \in shared[r] :
         \E i \in Invocations : Live(i) /\ Id(i) = h /\ r \in SharedNeed(i)

\* Every submitted call returns, with the skill's result or with a timeout: a
\* skill that never ends by itself does not keep its caller, or its locks.
EveryCallReturns ==
  \A i \in Invocations : phase[i] = "created" ~> phase[i] = "done"

=============================================================================
