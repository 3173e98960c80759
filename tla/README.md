# RoboWeave in TLA+

This directory holds the formal model of RoboWeave: TLA+ modules translated from
the Python sources, TLC configurations that check them on small instances, and
proofs, checked by TLAPS, that the most important properties hold for every
instance. File names and line numbers below refer to the repository root.

Contents: [the system](#1-the-system), [modules](#2-modules-and-the-code),
[runs](#3-runs), [fairness](#4-fairness), [proofs](#5-proofs),
[disagreements](#6-where-the-code-and-its-documents-disagree),
[not modelled](#7-what-is-not-modelled), [plan](#8-plan).

To repeat the work, in this directory:

    tlc -config OrchestratorCancel.cfg MCSkillOrchestrator
    tlapm SkillOrchestratorProofs.tla

## 1. The system

RoboWeave is a robot stack of ROS 2 nodes. A cloud agent turns an instruction
into a plan graph; the runtime node executes it as a behaviour tree over skills;
skills call perception, planning, control and vision-language-action (VLA) nodes;
an independent safety node watches the arm, latches emergency stops and filters
what the VLA model proposes; a data node records episodes of all of it.

Two kinds of concurrency carry the difficulty. Inside the runtime and the
skills, **asyncio**: coroutines interleave at `await`, cancellation is a request
and not an event, `wait_for` races its deadline with the result. Between nodes,
**ROS callbacks**: timers, subscriptions and services in any order, each running
to completion under `rclpy.spin`.

| Component | State | Operations | Interacts with | What is hard | What makes it correct |
|---|---|---|---|---|---|
| Resource manager (`roboweave_runtime/resource_manager.py`) | `_shared`, `_exclusive`: resource to holders | `acquire`, `release` | called by the orchestrator | re-entrant requests, upgrades, all-or-nothing grants | a writer excludes readers; a grant is whole; a release takes only one's own |
| Skill orchestrator (`skill_orchestrator.py`) | `_registry`, `_running` | `register_skill`, `execute_skill`, `cancel_skill` | resource manager, skills as asyncio tasks, executor | timeout against late result, swallowed cancellation, cancel between acquire and finally, reused ids | competing skills exclude each other; locks live as long as the skill's code; every call returns |
| Task executor and behaviour tree (`task_executor.py`, `bt_nodes/`) | active tree and task id, cursor, paused, status | `dispatch_plan`, `pause`, `resume`, `cancel`, `tick` | orchestrator, node's timers and services | plans replaced while skills run; results between ticks; pause while a skill runs | skills in plan order; success only when earned; a plan ends |
| Recovery node (`bt_nodes/recovery_node.py`) | `_retry_count` | `tick`, `reset` | its child, a recovery function that is not told what failed | nested retries, a reset of a child that runs | attempts are bounded, no skill is dropped while it runs |
| Runtime node (`runtime_node.py`) | the components above | timers, subscriptions, services | all of the runtime | asyncio tasks created from ROS timers | what is dispatched begins |
| Execution monitor (`execution_monitor.py`, interfaces' `errors.py`) | recovery log, callbacks | `publish_event`, `request_recovery` | cloud bridge, error-code table | codes missing in the table, hook failures | robot and cloud agree on what a failure is answered with |
| World model (`world_model.py`) | objects, their life cycle, robot state | `handle_update`, `tick_ttl`, queries | perception, skills that hold the state while they await | expiry against refresh, removed ids added again, a state changed in place | expiry is earned, a removal is final, subscribers and readers are current |
| Safety guard (`roboweave_safety/safety_guard.py`) | level, stop active, stop latched, list of violations | six methods | supervisor, filter | three records of one stop; any order of callers | records agree; a latched stop ends by release only |
| Safety supervisor and monitor (`safety_supervisor_node.py`, `safety_monitor.py`) | watchdog clock, limits | robot-state, watchdog, status, control and filter callbacks | guard, filter, control nodes | silence and recovery, a callback that fails half-way | silence is noticed, a recovery takes back what it recovers from |
| VLA safety filter (`vla_safety_filter.py`) | workspaces | `filter_action` | guard, supervisor | many small approved steps, a guard that stops and recovers in between | approved motion in bounded steps; none during a stop |
| VLA skills, monitor, node and client (`roboweave_vla`) | cancel flag, counters | `execute`, `cancel`, `check`; the node's goal callback and the client's `filter` | orchestrator, VLA model; action clients, filter service | one cancel flag for all executions of a skill, awaits between flag and test | a cancelled execution stops; limits end it, in their order |
| Control (`roboweave_control`) | driver targets, busy flags | trajectories, gripper commands, `step`, `emergency_stop` | runtime skills, planner | every loop steps every arm, one loop's cancel stops all, exceptions of other arms | a busy arm keeps other loops out, joints in their limits, what is stopped stays, planned motion tracks |
| Perception (`roboweave_perception`) | tracker flags and misses, backends | start, cancel, stop, pipeline step, four services | skills | cancel against start, flags shared by sessions | a session ends for a reason of its own, a request ends it |
| Planning (`roboweave_planning`) | backends | stateless requests | skills, control | points and times one off | trajectories the executor can track |
| Data (`roboweave_data`) | active episode, directories, buffer, frame counter | status, event, robot-state and control callbacks | runtime and safety topics | pause, resume and stop in any order, writes that raise, crashes | a record belongs to its episode, outcomes stay, the oldest go first |
| Cloud agent (`roboweave_cloud_agent`) | none across requests | decompose, recover | runtime | malformed model output | plans keep their templates' dependencies |
| Interfaces, messages, bring-up | types only | conversions | all | fields named differently by two sides | writer and reader agree |

The hazards of this list, each at its line and with the properties that would
catch it, are in `PROJECT.json` under "hazards".

## 2. Modules and the code

    LockTable  <-- refined by --  ResourceManager
                                       ^ EXTENDS
                                  SkillOrchestrator  <-- refined by --  TaskExecutor
    SafetyGuard  <-- EXTENDS --  VLASafetyFilter  <-- EXTENDS --  SafetySupervisor
    VLASkill
    WorldModel
    SimDriver, MotionPlanner                       <-- EXTENDS --  Control
    Backends         <-- EXTENDS --  PerceptionNode, PlanningNode
    MotionPlanner    <-- EXTENDS --  PlanningNode
    ErrorCodes, PerceptionNode, PlanningNode, PlanGraphs  <-- EXTENDS --  Recovery
    DataNode

A module `X` whose constants need definitions has an `MCX` with their values;
every proof is in an `...Proofs` module that EXTENDS what it is about. Definitions
marked "Mutant", "Mutated" or "Slip" are plausible bugs of the definition below them, kept to
show that each property notices one; no specification uses them.

**LockTable** states what a lock table promises: per holder, the resources it
shares and those it owns; a request is granted whole or not at all, never against
another holder, and a release gives back all of one holder and nothing else.

**ResourceManager** has the two dictionaries as functions over all resources.
`Acquire` checks every resource before it writes any (lines 22-47), `Release`
walks both dictionaries (49-58).

**SkillOrchestrator** cuts `execute_skill` where the event loop may switch: all
before `await asyncio.wait_for` is `Begin` (one of four exits: unknown skill,
lock conflict, refused or raising precondition, launched), all after it `Resume`.
Between the two, the skill's own task (`ensure_future`) is scheduled, starts,
ends or unwinds, and `Expire` is `wait_for`'s deadline: it cancels the task and
*keeps waiting* for it, so a skill that swallows the cancellation keeps running
with its locks. The result of a task that ended in the same loop turn as the
deadline survives up to Python 3.11 and is lost from 3.12 on; the repository
supports 3.10 and later, so both are allowed. `CancelSkill` is `cancel_skill`, one step since it
has no `await`. Exceptions anywhere are the result "raised", after `finally`.

**TaskExecutor** puts plans on top. Dispatch number *d* builds tree *d*; node *k*
of it runs as invocation `<<d, k>>` under the id `<<task, k>>`, which is the
code's `f"{task_id}_{node_id}"`: dispatching a task again reuses the ids, as in the code.
A tick passes over all children that have succeeded, then starts, waits for, or
fails on the next, or ends the tree: one action, as `tick` has no `await`. The
branch for exceptions inside `tree.tick_once()` (257-261) is left out: the nodes catch
what a skill raises.
The plans are sequences; how a graph becomes one is in PlanGraphs.

**SafetyGuard** has one action per method. The list of violations is a set: the
methods never append twice and nobody reads its order.

**VLASafetyFilter** has the filter next to the guard. `FilterAction` is `filter_action()`, called by
whoever holds the filter with any pose or none; `FilterVLA` is the service callback in front of it,
which answers deserialization_error to every request, for it reads fields the service does not
declare. The motions approved are summed up into `commanded`, the pose they lead to, so that
the property can be about a *stream* of approvals. The step bound is
`max_velocity / control_frequency_hz`. Actions with joint deltas are clamped like the others, never
checked against the workspace, and left out. That approved motion stays in the workspace is no
property: it depends on the pose a caller passes, and no caller in the repository passes one.

**SafetySupervisor** is the process around both: the callbacks of the node, one action each, as
`rclpy.spin` runs them one at a time. The watchdog's clock counts periods of silence up to a bound. A message is
the set of arms it lists: `Converts` says that only a message without arms gets to the monitor's
checks, because `list()` of a `geometry_msgs/Point` raises, and those find nothing in it. Readings,
limits and the requests that set limits change nothing else and are left out. `NodeSpec`
is the node by itself; `SupervisorSpec` adds code that holds the same guard and filter, which are plain
classes, and calls their methods.

**VLASkill** has the calls of `execute()` of one skill, cut at their awaits (`reset()`, `predict()`, `reset()`
on the way out); `at` names the await. A skill is one object and asks for no resource, so that calls
of it overlap, each with a monitor of its own and all with one flag: `Execute` clears it, `Cancel` sets it, `LoopTest`
reads it. `predict()` and `reset()` return at any time or raise, and any await may raise the cancellation
of the task. `Check` is `VLAMonitor.check()` without rejections, which `execute()` never records. Two history variables: `answers`,
what was predicted and at what age, against which `ResultsAreEarned` says what a result should
be without the counters; and `heard`, what has become of the last `cancel()` an execution lived through.

**WorldModel** has the object list as a sequence, as an id may be listed twice and queries find
the first entry. Of an object it keeps id, life cycle, ttl and the time since `last_seen`. Each
handler of `handle_update` is an action and ends in `NotifyStateChanged`; requests that are
refused change nothing and have none. `GetWorldState` hands out the state itself: a reader holds
"the current state" until a full refresh replaces it, and from then on the old one. `silence` is
a history variable, the time since any request reported an id; `ExpiryIsEarned` compares the
timer's verdict with it and not with `last_seen`. A payload of an update may give any of the fields, the id
included: it renames the entry it found (`Merged`),
and an entry left under the old id counts as reported when it says.

**SimDriver** has a target and a position per joint and gripper, in integer steps. `Step` moves
*everything*; a target with too few joints makes it raise half-way, in the order of the
configuration. **MotionPlanner** interpolates in positions and times, **Backends** is the registry
and the fallback to a default backend, which both nodes have.

**Control** cuts both `execute()` methods at their calls of the driver, since each call may run in
a thread of its own, and at the busy flag: `Execute` is the call up to the test, `MarkBusy` sets the flag
whatever it has become since. A trajectory loop then is at "command" (cancellation checked, target set), "step"
or "measure"; any exit, an exception included, passes `Finish`, the `finally` clause. `raced` is a history variable: the loops that passed the test for an arm while
another one had passed it and not set the flag yet, or while such a race was not over. The 0.5 s at
the last point are `Settle` periods. `Clean` says when a planned trajectory is one the executor should
be able to track, `disturbed` which loops and commands somebody else has interfered with. `Clean` has one
condition that is the model's own: times are whole control periods here, rounded down, so a segment may be a
period short; that has to be nothing, or no more motion than the threshold allows. Without it the property
is false for some constants (five points, a planner and an arm of velocity 4, a threshold of 1), and true
of the instance that is run.

**DataNode** has one action per callback and per control request. `disk` is what `episode.json` says
in each directory; `StopFails` and `TagsFail` are the writes of a stop that raise, after what was
done by then; `Raised` is what such a write leaves: the old status if it failed before it opened the file, and none
if after, for opening truncates. `Restart` is what a crash and a shutdown have in common. Recording by hand, by
task and automatic labels meet in `StopEpisode`. `inOrder` is a history variable: the skill logs as they
would be if no event had ever been buffered.

**ErrorCodes** is the table of `errors.py` with what the monitor and the cloud's advisor make of a
code. **PlanGraphs** is the way of a plan from a template (`DependsOn` resolves skill names to nodes)
through validation, with its ids, skills and lists of dependencies as given (ids may repeat, a skill may be missing,
a list may name a node twice or one that does not exist), to the order of the tree, Kahn's algorithm turn by turn (a recursive function). **PerceptionNode** and
**PlanningNode** have the answer of each service as a function of what the request gives and what
the backend makes of it (raises, finds nothing, finds something). PerceptionNode also has the tracking
loop: one action per access to the flags, as `cancel()` and `stop()` come from other threads and
`cancel()` itself is two assignments.

**Recovery** composes these. A plan comes from the cloud or another client and is validated and
ordered; then one skill under nested recovery nodes is ticked. `Tick` is the root's `tick()`: a fold
from the leaf outwards, in which each recovery node passes its child's status on, resets it or fails.
The skill is external: "pick" works through the eight services in turn, "track" runs the tracker,
"other" fails with any code. A recovery function may answer yes or no or raise after any failure: it is a
`Callable[[], bool]` that is not told what failed, and nothing in the code ties it to `request_recovery`.

## 3. Runs

Two or three of everything are enough where they are used: the interactions are
pairwise (two skills competing, a call and its successor under one id, a plan and its
replacement), and a third participant shows that a pair is not special. The proofs
remove the bounds for the safety properties they cover.

The types of a component and the state invariants that go with them are one property, named
`...StateOK` (`ExecutorStateOK`, `GuardStateOK`, `WorldStateOK`, `ControlStateOK`, `DataStateOK`,
`RecoveryStateOK`): a conjunction of named parts, each broken by a mutant of its own where it says
more than a type. The lock table, the orchestrator, the supervisor, the filter and the VLA skill have
their types, and the lock table and the guard `ReadersExcludeWriter` and `LatchedStopIsFrozen`, from
the proofs (section 5), and no run repeats them.

Passing runs:

* **orchestrator_cancel** - three calls with ids of their own, an exclusive two-resource
  skill and a sharing one, anybody may cancel anything at any moment. *Until
  somebody cancels, competing skills exclude each other*, and *a cancel always finds
  the live skill* in `_running`. Both are about ids of their own; calls that share one are in the next run,
  and what a cancel then reaches is in section 6.
* **orchestrator_reuse** - two calls over three skills that may share an id, with
  cancels: one call's `finally` releases the other's locks, a reader upgrades itself.
  Still *no lock outlives the call it was taken for*, the two dictionaries
  implement `LockTable`, and *every call returns*.
* **plan_order** - three plans (an exclusive skill, then a sharing one; a condition and a
  sharing skill; empty), two
  dispatches, pauses, resumes, cancels, replacements. `ExecutorStateOK`: types, and *competing skills
  exclude each other* and *hold what they asked for while their code runs*, also while
  unwinding after a timeout and after their plan was replaced; *plan order*; *success is
  earned*; *plans whose skills end, end*. Each task is dispatched once, so that ids are unique; the same task
  again is covered by orchestrator_reuse as far as locks go, and `SuccessEarned` is proved for it. The executor implements the orchestrator's specification.
* **safety** - two arms, a watchdog with silence up to twice its timeout, batches of up to two guard events of any
  severity; a wide, a narrow and an unknown workspace, no pose or one of two, steps of -3..3 clamped to 1 or 2, and a
  commanded pose in -3..3. `GuardStateOK`: *the records of a stop agree* and *normal lists nothing*;
  `ApprovalsAreLimited`: *steps are bounded, and nothing is approved during a stop*; *a robot that stays silent is
  listed, or stopped, again and again*.
* **vla_skill** - two executions that overlap, both with a timeout of one tick, one with a limit of two steps; three
  low confidences in a row abort, as in the code, and an execution predicts at most four times. `ResultsAreEarned`: *an
  execution ends at the first answer that calls for an end, with the result it calls for*; `CancelIsHeard`: *who heard
  a cancel begins no further prediction, unless a start came since, and none is cancelled that heard none*.
* **world_model** - two ids, lists of up to two entries (an id may be there twice), one ttl, ages up
  to twice it, one reader, refreshes that bring held, occluded and stale objects. `WorldStateOK`: types,
  *subscribers are current*, *a reader goes stale by a refresh only*; *expiry is earned*; *removal
  is final*; *silent objects are given up*. Updates give every life cycle, a ttl, another id, or all three.
* **control** - two arms with one joint each, one gripper, two trajectory loops and one command of
  which two run at once; points out of reach, beyond limits, out of order in time and without
  joints, and planned trajectories of three points. `ControlStateOK`: types, *a success is kept*; *joints stay in
  their limits*; `BusyKeepsOthersOut`: *an arm is busy while the call that marked it is under way, and calls share it only after a
  race for the flag*; *planned motion tracks*; *a gripper reaches its width*; *what is
  stopped stays*; *loops end*.
* **data_node** - three episodes of which one may be kept, one skill log, two buffered events, one frame
  between resets; every write may raise, crash and shutdown at any moment. `DataStateOK`: types, *frames go to
  their episode*, *episodes follow tasks* while nobody interferes, *logs keep their order*;
  `StoppedEpisodesAreFinal`: *outcomes stay, recoveries are labelled*, both of stops that did not raise; *the oldest go first*.
* **recovery** - all templates of up to four nodes over two skills and one with an unregistered skill, all
  graphs of four nodes with up to two dependencies each, of three with lists of up to two, repeated ones too, and of
  two that may share an id, lack a skill or depend on a third; recovery nodes with one and two retries; every code of the table and two
  that are missing in it; two missed frames lose an object. `PlansAreKept`: *the tree keeps dependencies, a
  refusal is earned* (a plan is refused exactly when two nodes share an id, there is a cycle, or a skill or node is unknown); `RecoveryStateOK`: types, *attempts are bounded*, *no running skill is
  abandoned*; *robot and cloud agree*; `SessionEndIsEarned`: *a session is
  lost after misses of its own* and *ends on a request of its own*; *a request ends it*; *trees whose attempts end, end*.

Runs that TLC ends with a counterexample, each a disagreement described in section 6:
**cancel_overlap**, **timeout_recovery** (the supervisor's node by itself) and **data_frames**. They use the
instances above.

Deadlock checking is off where the bounded system really stops: the orchestrator and the
executor with every call made and every plan ended, the control loops after a shutdown,
the data node when its episodes are used up, a tree that has ended. It is also off in the
world model, whose requests never run out. The safety node and the VLA skill, whose time goes on, never stop.

Bounds by name: `Invocations` (calls, two or three), `MaxDispatches` (two), `MaxNodes` (two),
`MaxSilence` (two periods, timeout one), `MaxSteps`, `Poses`, the
workspaces, `Batches` and `Reach` (three); `Executions` (two), `LowLimit` (three), `MaxPredictions` (four);
`Payloads`, `MaxObjects` (two), `MaxAge` (two); `Loops` (two, of which `PlannedLoops`
one), `Commands` (one), `MaxCalls` (two), `Settle` (one),
`Timeout` (two); `MaxEpisodes` (one), `LastEpisode` (three), `MaxLogs` (one), `MaxBuffer` (two),
`MaxFrames` (one); `MaxRetries` (one and two), `MaxMissedFrames` (two). Counters that could grow stop
at their bound in a guard (`Elapse`, `Older`) or are indices into bounded sets (`Dispatch`).

## 4. Fairness

* `LoopFairness`: weak fairness of each invocation's `Begin`,
  `StartSkill`, `UnwindSkill`, `Expire`, `Resume`. An asyncio loop runs every ready
  callback, and timers fire: `execute_skill` is a coroutine, and whoever awaits it runs one. There is none for
  `FinishSkill`: a skill may hang. `UnwindSkill` is the one assumption about skills: a cancelled skill ends some
  day, with or without a result. Without it `wait_for` itself never returns.
* `TickFairness`: `rclpy.spin` fires the timer that calls `tick()` at `tick_hz` (`runtime_node.py:71`). It runs no
  asyncio loop, so none is assumed: `PlanEnds` has as its premise that every invocation a plan creates is done some
  day, and says that the plan then ends. Under `runtime_node.main` the premise is false for every plan with a skill
  (section 6).
* `TimerFairness`: `rclpy.spin` fires the watchdog's timer.
* None for clients: nobody has to submit, cancel, release or report.
* `FairSpec` of WorldModel: the expiry timer fires, time passes.
* `FairSpec` of Control: a thread in `execute()` goes on until it returns. Nothing has to be called
  or cancelled.
* `RecoveryFairness`: the tick timer fires, the thread of a tracking loop goes on, and a `cancel()`
  that has made its first assignment makes the second. Nothing is assumed of the skill's task, which needs an asyncio
  loop as above: `TreeEnds` has as its premise that an attempt that runs, ends. A recovery function returns or raises.

## 5. Proofs

Every statement is for all values of the constants that satisfy the named assumptions.

**SkillOrchestratorProofs.** Of the locks: `TypeOK` is inductive, `ReadersExcludeWriter` is inductive
with it. `Refinement`: under `grant[h] = Owned(h)`, initial states map to initial
states and every `Acquire` and `Release` to the abstract one. `NoLockIsLeft` holds for reused ids
too: whoever has passed its acquire and not yet its release asked for what it holds (`OwnersInv`).
The rest is from `UniqueIds`. Mutual exclusion is not inductive: it
is silent about locks. `OrchestratorInv` adds that submitted invocations have
calls, ids are distinct, skill tasks exist only in live invocations, and the key
part: every *undisturbed* invocation (its skill is scheduled or executing with no
cancellation on its way; where nobody may cancel, up to its finally block) holds what
it asked for and is in `_running`. The lock lemmas say that an
acquire or release by another id keeps somebody's holdings; then one lemma per action.
`CompetingSkillsExclude` and `ExecutingHoldsResources` also assume `Cancellable = {}`;
`OverlapNeedsCancel` and `CancelAlwaysReaches` do not.

**TaskExecutorProofs.** `ExecutorInv` relates the trees to the invocations: nodes before the cursor
have passed, nodes after it have not been started. Plan order is one of its conjuncts.
`ExecutorImplementsOrchestrator` maps each step to an orchestrator step (a starting
tick is a `Submit` with a fresh id) or a stutter, from which `PlansExclude` and the held resources in
`ExecutorStateKept` follow by the orchestrator's theorems. `SuccessEarned` needs no assumption on ids: a
status that says a task has succeeded was set by a tick that found all of a plan's nodes passed (`StatusInv`).

**SafetyProofs.** `GuardInv` (types, agreement of the records, normal lists nothing)
is inductive. `ApprovalsLimited`, from actions without absolute targets, follows from the bounds of the clamp
and the agreement of the records. `SupervisorUsesFilter` maps every callback to a step of the filter's
specification or a stutter, and from it `SupervisorKeepsGuard` has the guard's and the filter's results in the
supervisor's process.

**VLASkillProofs**, from `SkillAssumption`. `MonitorInv` ties the counters to the answers: as many steps as answers, and the
low ones counted are those after the last confident one (`Counts`), so that the counter is at its limit exactly when the answers
end in a row of low ones (`CountIsRow`) and `Check` says what is `Due` (`CheckIsDue`). Answers that came
before call for what they did (`DueStays`), which makes `ResultsAreEarned` inductive with it. `FlagInv` says that the
flag is set wherever somebody has a `cancel()` standing, and that nobody leaves its loop who heard none.

**WorldModelProofs**, from `WorldAssumption`. `WorldInvariant` is inductive with the types; that a state taken
and not replaced is the current one is part of it. `ExpiryEarned` needs that `silence` and the age of a listed
id agree where the id is unique; `RemovalFinal` that the first entry with an id stays first
(`FirstEntry`, by the least element of a set of naturals), whatever is appended or merged.

**ControlProofs**, from `DriverAssumption` and `ControlAssumption`. `ControlInv` has the driver's shape and
limits (`DriverOK`), the loops' places (`LoopsOK`), `BusyKeepsOthersOut`, and that what is stopped has its position
for a target (`StoppedRest`), which is why it does not move: a step goes from the position towards the target.
A step that raises half-way, and points out of limits or of the wrong length, are covered. `LoopsShareByRaceOnly` is
inductive by itself: a call that finds nobody between test and mark, and no race that is not over, has its arm alone.
`ControlKeepsState` adds `ArrivalInv`: where a trajectory ended in success, position and target are both within
the threshold of its last point, so that neither a step nor a stop leaves it. It assumes `Arms # {}`: without an arm
the empty `_arm_states` looks like that of a driver that was never connected, and the gripper's types fail.
`WidthIsReached` adds `GripperInv`: while a command waits undisturbed, the gripper is
closer to the width than the time left lets it go (`WidthsFollow`), whoever takes the steps.
`PlannedMotionIsTracked` adds `LoopsTrack`: every undisturbed planned loop is on its course (`OnCourse`). For every
joint there is a direction and a *course*, a lower bound on its position at every time, which gains no more in a period
than the arm can (`Course`). When the point after k is due the course is not beyond point k, and no further
behind it than the threshold. A joint that holds point k is there or not behind its course
(`AtPoint`); a period takes it at least as far as the course goes (`StepKeepsCourse`, `OtherStep` when somebody else
steps the driver), and at the measurement the threshold follows (`CourseTracks`). The last point has no
successor and is reached because its segment fits into `Settle`. What divisions and products of variables there are
is in one place: that the planner's points and times have a course, the line of the planner's velocity lowered by
what is lost in rounding (`CourseExists`, from bounds on the quotients). The course is a function
on all integers, so that TLC cannot look for one and checks the property itself. `ControlAssumption` says of planned goals
what `ResolveGoal` shows, that they name a joint.

**DataNodeProofs**, from `NoneAssumption`. `DataInv` has the types, and that the active episode is the last one
on disk and new (`ActiveOK`), that its logs are what replaying the events would make of them (`LogsFollow`),
that nothing but a disturbance parts the episode from its task (`EpisodesFollowTasks`), and that the history
flags are raised for a reason (`FlagsOK`). The replay is a `FoldLeft`: its operator is a
definition of the module, so what it returns for one more event is proved from the fold's own definition
(`ReplayExists`, `ReplayUnfolds`, `ReplayAppend`), by induction over a *set* of naturals (`EveryNumber`).
`StoppedIsFinal` is about stops that did not raise: it needs that only the active episode is written to (`Reopened`,
`RaisedFacts` for the writes that raise), and that no active episode has a completed status unless a stop of it raised.
`OldestIsDeleted` counts: the surplus is as many as it says and older than all that is left (`SurplusIsOldest`).

**RecoveryProofs**, from `RecoveryAssumption`, `PlanAssumption` and `MaxMissedFrames` being positive. Behind its reset a session has
counted its own misses (`MissesAreOwn`) and finds the flags of its own requests (`FlagsAreOwn`); a `cancel()`
half-way through when the session starts counts as its own. `SessionsEndForReason` is about the tracker inside the
whole of Recovery. `RobotAndCloudAdvise` is about the table: each of its ten parts is shown to ask the cloud or the
user wherever it does not recover (`SpecsHelp`), the rest is about three short sequences.
`AttemptsFollowOneAnother` is for any depth and limits of nested nodes. A tick either passes the leaf's word up, or
one level with a retry left recovers and those inside it start over (`RootPassesOrHeals`, up the levels of the
`FoldRight`). The retries are then the digits of a number whose bases are the limits (`AreCounts`): each recovery adds at
least one to it (`RetryCounts`), it stays below the product of the limits (`CountsStayBelow`), and an attempt is
counted for each of its steps (`AttemptsCounted`). That `FoldFunction` may take the factors in any order is
`ProductTakesAny`. `FoldExists` shows once that a fold over a finite set has a value.

`DependenciesAreKept` is for any templates, graphs and registry; `PlanAssumption` says that they are sequences of
nodes, not that the nodes they depend on exist, that ids differ or that a node has a skill. The work is in Kahn's algorithm. Between two turns the nodes taken and waiting are
the ones whose dependencies, counted with their repetitions (`Edges`), have been taken, each once (`Kahn`; `KahnBegins`, `KahnGoesOn`), so after as many turns as
there are nodes the queue is empty or all are taken (`KahnEnds`); what is left then depends on what is left, which is a
cycle, and the first of a cycle's nodes to be taken would have needed another before it (`SortedOrCyclic`). Of a
template's graph (`GraphOfTemplate`) the least node of a cycle depends on itself: its skill is among its own dependencies.

Only model-checked: liveness (`EveryCallReturns`, `PlanEnds`,
`SilenceIsReported`, `SilentObjectsAreGivenUp`, `LoopsEnd`, `TreeEnds`,
`RequestsAreHonoured`), which is out of TLAPS's reach with ENABLED; and the counterexamples. Every safety
property that a passing run checks is a theorem. What a
`RECURSIVE` definition computes cannot be proved at all; the model has none.

## 6. Where the code and its documents disagree

With a run:

* *cancel_overlap*: `cancel_skill` releases the locks at once (`skill_orchestrator.py:176`);
  the skill it cancels may still be unwinding when a competing one starts.
* *data_frames*: "Reset the rate limiter" resets the frame counter as well, which names the files:
  frames captured after a resume overwrite those from before the pause (`frame_logger.py:108`).
* *timeout_recovery*: "Clear timeout violation if present" (`safety_supervisor_node.py:204`) stands over
  `clear_violations()`, which clears every violation and lowers the level by one: after a silence during safe mode, the
  first message without arms takes the record of safe mode with it.

Read off the code, without a run of their own:

* The tasks `tick()` creates never take a step under `rclpy.spin`, which runs no asyncio loop
  (`runtime_node.py:123`).
* `list()` of a `geometry_msgs/Point` raises after the watchdog was fed; no limit is
  ever checked for a message that lists an arm (`safety_supervisor_node.py:185`), although the repository's `README.md`
  (line 57) has the node monitor velocity, force and workspace. For the same reason a listed `robot_state_timeout` goes
  only with a message that lists no arm, or by a release, while messages with arms keep the watchdog quiet.
* Nobody publishes `/roboweave/robot_state`, which the supervisor listens to: it is a TODO (`control_node.py:167`).
* No VLA goal is ever carried out by the node: its callback reads `request.safety_constraints_json`
  (`vla_node.py:162`), `RunVLASkill.action` declares `safety_constraints`, and the `AttributeError` leaves the callback.
* Nor does a filter request get through. The client assigns `action_json` and `constraints_json`
  (`safety_filter.py:87-88`), which `FilterVLAAction.srv` does not declare (it has `vla_action_json` and
  `safety_constraints_json`), and reports "safety_service_unavailable"; the handler reads the same two
  (`safety_supervisor_node.py:323-325`) and answers "deserialization_error". With the fields repaired the envelopes
  would not match: the client sends the payload and the handler parses an envelope (`safety_filter.py:87`,
  `converters.py:68`), the handler answers with an envelope and the client parses the action (`converters.py:80`,
  `safety_filter.py:102`).
* The service has no field for the current pose, without which the workspace check is skipped, and the branch that
  would read one uses `SE3`, which is not imported (`safety_supervisor_node.py:332`).
* What the VLA skills predict in `execute()` is neither filtered nor sent to an arm (`vla_skill_base.py:133-159`).
* A `cancel()` of a VLA skill is lost when another execution starts after it, for every execution that had not looked at
  the flag yet (`vla_skill_base.py:126`), and it ends all that run, not one.
* A `predict()` that never returns keeps its execution past every timeout, and one that never suspends keeps the event
  loop, for limits and flag are looked at after it only (`vla_skill_base.py:133`).
* In the VLA node the flag is shared by all goals as well (`vla_node.py:205`, 320).
* `cancel()` clears the task id before it notifies, so "cancelled" is never published
  (`task_executor.py:242`).
* `_publish_status` assigns `level` and `heartbeat`, `SafetyStatus.msg` declares
  `safety_level` and `last_heartbeat`; the assignment raises and nothing is sent (238).
* An action with an absolute `target_pose` is neither clamped nor checked
  (`vla_safety_filter.py:84`).
* Under one id two invocations overwrite each other's entry in `_running`, and the first to end removes it: a cancel
  reaches the one that came last, or none (`skill_orchestrator.py:173`).
* Dispatching a task again while its skill runs makes two live calls with one "unique"
  `skill_call_id` (`task_executor.py:196`), and a finished task stays active by id, so that pause and
  resume publish it as paused or running again (274).
* `asyncio.sleep` needs a running asyncio loop, which `rclpy.spin` is not: there the client's wait
  raises, and is reported as "safety_service_unavailable" (`safety_filter.py:122`).
* `RunVLASkill.action` lists the statuses "timeout" and "safety_stop"; the node returns "failed".
* `set_workspace` changes the monitor's workspace and not the filter's (`safety_supervisor_node.py:305`).
* Two trajectory calls for one arm may both pass the busy test (`trajectory_executor.py:93`) before either sets the
  flag (106): both then drive the arm, and the first to end clears the flag, so that a third gets in. The class does not
  say that it is for one thread, and its callers are TODOs in the code. BusyKeepsOthersOut says what is left.
* A recovery function is not told what failed (`recovery_node.py:20`, 55), and nothing ties it to `request_recovery`: if it
  says yes, a failure that the table of error codes calls unrecoverable is retried like any other.
* An update whose payload names another `object_id` renames the entry it found (`world_model.py:122`).
* Fourteen error codes the nodes answer with are not in the table of `errors.py`, "Comprehensive error codes
  for all RoboWeave subsystems": `PER_POINT_CLOUD_FAILED`, `GRP_PLANNING_FAILED`, `IK_SOLVER_FAILED`,
  `COL_CHECK_FAILED`, `MOT_NO_GOAL`, `CTL_ARM_BUSY`, `CTL_CANCELLED`, `CTL_INVALID_ARM`,
  `TSK_RESOURCE_CONFLICT`, `VLA_PREDICT_ERROR`, `VLA_SAFETY_REJECTED`, `VLA_SAFETY_UNAVAILABLE`,
  `VLA_SKILL_NOT_FOUND`, `VLA_TIMEOUT`. The monitor refuses them as unknown, the advisor advises nothing.
* An object removed and added again is found by its removed entry, which takes the updates; the new
  entry is never found and expires (`world_model.py:66`).
* A node of a template that names its own skill as a dependency depends on itself, and the plan is
  refused as cyclic (`task_decomposer.py:77`).
* A cancelled task leaves its episode running, and the next task is recorded into it (`data_node.py:181`).
* A stop whose second write raises leaves a completed episode active: the next task that ends stops it again,
  with its own outcome (`data_node.py:187`); and since `write_text` truncates before it writes, the raising write may
  have destroyed the outcome that was there (`episode_recorder.py:161`). StoppedEpisodesAreFinal is about the other stops.
* Events buffered during a pause stay in the buffer when the episode is stopped, and are logged to a later
  episode when that is resumed (`data_node.py:313`).
* Only the service's stop writes the failure miner's tags; the automatic one drops them (`data_node.py:190`).
* Directories without a completed episode count against `max_episodes` and are never deleted, so that with enough
  of them the episode just stopped is deleted at once (`data_node.py:376`).
* `merge_labels` never sets a label that is true back to false (`episode_recorder.py:108`).
* The executor holds a point for the time from it to the next one, and the last for 0.5 s: the last segment of a
  plan that needs more fails its tracking check (`trajectory_executor.py:134`).
* A cancelled trajectory stops every arm and gripper of the driver (`trajectory_executor.py:117`), and a target with
  too few joints raises in whichever loop steps next (`sim_driver.py:129`).
* `plan_motion` reports `collision_free` for a path nobody checked (`planning_node.py:354`).
* The tracker takes any pose with a confidence above zero, the pose service asks for
  `min_pose_confidence` (`pose_tracker.py:175`); `_last_pose` outlives its session (96).
* The data node subscribes to `/roboweave/safety_status` (`data_node.py:151`), the
  supervisor publishes on `/roboweave/safety/status`.

## 7. What is not modelled

* Inside modelled components: logging, wording, JSON, ids as text, execution times; loading configuration
  (any limits may be loaded); vectors and floats (integers, one axis for the filter); what a
  skill, a backend or a recovery function does; images, clouds and poses; the supervisor's
  status publication; the contents of logs and frames, labels other than `recovery_used`.
* Any switch of threads inside a call of the driver. The control servers are TODOs in the code, so how many threads
  call `execute()` is an assumption of the model: any number.
* The monitor's checks of velocities, torques and positions, and the limits that requests set for them: no message gets
  to them with an arm in it (section 6).
* Tracking sessions that overlap on one tracker: they share every flag.
* The VLA node and the client of the filter: no goal gets past the first lines of the callback (section 6). What the node
  would do behind them is left out until they run.
* `cloud_bridge.py` and `hitl_manager.py` are stubs. `recovery_node.py` is not in any tree
  the executor builds, and is modelled by itself. `runtime_node.py` wires the components and publishes nothing yet.
* The cloud agent's language model, prompts, cached world state, and the skill selector, whose answer is not used.
* Failure mining, export and versions: stateless, or file output. Converters between messages and models.
* Message definitions and launch files hold no behaviour; where a handler reads a field that is not declared, the
  model has the exception that follows.

## 8. Plan

1. **VLANode** - the node's loop with its filter, as a client of `FilterAction`, once goal, request and answer have the
   fields and envelopes their handlers read; until then there is nothing of it to check.
2. The monitor's checks in SafetySupervisor, once a message with arms converts: that the level is never below what the
   last state deserves, and approvals against the limits that requests move in the monitor only.
3. Tracking sessions that overlap, as a run that shows what is lost.

Runs that a composition subsumes are retired.
