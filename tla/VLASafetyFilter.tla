--------------------------- MODULE VLASafetyFilter ---------------------------
(***************************************************************************)
(* roboweave_safety/vla_safety_filter.py next to the SafetyGuard it reads, *)
(* and the service callback in front of it (_filter_vla_callback of        *)
(* safety_supervisor_node.py).  The motions of the approved actions are    *)
(* added up into the pose they command, so that what matters about a       *)
(* stream of approvals can be said.                                        *)
(*                                                                         *)
(* A pose is an integer on one axis, where the code has vectors of floats: *)
(* there the clamp of a length is the clamp of the value.  joint_delta is  *)
(* clamped the same way and left out.                                      *)
(***************************************************************************)
EXTENDS SafetyGuard, Integers

CONSTANTS
  WorkspaceIds,      \* values of workspace_limit_id in requests
  KnownWorkspaces,   \* _workspaces: name -> its limits
  DefaultWorkspace,  \* _default_workspace
  VLAActions,        \* the actions a model may propose
  MaxSteps,          \* values of max_velocity / control_frequency_hz
  Poses,             \* values of current_eef_pose callers pass, None among them
  NoPose,            \* None
  Reach              \* bound: the commanded pose stays in -Reach..Reach

WorkspaceType == [min : Int, max : Int]

ASSUME FilterAssumption ==
  /\ KnownWorkspaces \in [DOMAIN KnownWorkspaces -> WorkspaceType]
  /\ DefaultWorkspace \in WorkspaceType
  /\ MaxSteps \subseteq Nat
  /\ NoPose \notin Int
  /\ VLAActions \subseteq [confident : BOOLEAN,
                           delta : Int \cup {NoPose}, target : Int \cup {NoPose}]
  /\ Poses \subseteq Int \cup {NoPose}
  /\ Reach \in Nat

VARIABLES
  commanded,    \* history: the pose the approved actions lead to
  reply         \* the last answer: "approved", or its violation type

filterVars == <<level, eStopActive, eStopLatched, activeViolations, commanded, reply>>

Replies == {"none", "approved", "emergency_stop", "confidence_below_threshold",
            "workspace_violation", "deserialization_error"}

Inside(x, w) == w.min <= x /\ x <= w.max

-----------------------------------------------------------------------------
\* Mutated clamp: forgets that a step may be negative.
ClampUpwards(d, bound) == IF d > bound THEN bound ELSE d

\* Step 3 of filter_action(): the sign is kept, the size is bounded.
Clamp(d, bound) == IF d > bound THEN bound ELSE IF d < -bound THEN -bound ELSE d

\* _resolve_workspace(): the default for a name nobody configured.
ResolveWorkspace(id) ==
  IF id \in DOMAIN KnownWorkspaces THEN KnownWorkspaces[id] ELSE DefaultWorkspace

\* Step 4 of filter_action(): only a relative motion from a known pose is
\* checked against the workspace.
LeavesWorkspace(action, maxStep, id, pose) ==
  /\ pose # NoPose /\ action.delta # NoPose
  /\ ~Inside(pose + Clamp(action.delta, maxStep), ResolveWorkspace(id))

\* Mutated filter_action(): the guard is not asked.
VerdictDuringStop(action, maxStep, id, pose) ==
  IF ~action.confident THEN "confidence_below_threshold"
  ELSE IF LeavesWorkspace(action, maxStep, id, pose) THEN "workspace_violation"
  ELSE "approved"

\* filter_action(): its checks in order.
Verdict(action, maxStep, id, pose) ==
  IF eStopActive THEN "emergency_stop"
  ELSE IF ~action.confident THEN "confidence_below_threshold"
  ELSE IF LeavesWorkspace(action, maxStep, id, pose) THEN "workspace_violation"
  ELSE "approved"

\* Where the arm is told to go by the action filter_action() returns.
Destination(action, maxStep) ==
  IF action.delta # NoPose THEN commanded + Clamp(action.delta, maxStep)
  ELSE IF action.target # NoPose THEN action.target ELSE commanded

\* filter_action(), called by whoever holds the filter, with any pose or none.
FilterAction(action, maxStep, id, pose) ==
  /\ reply' = Verdict(action, maxStep, id, pose)
  /\ commanded' = IF reply' = "approved" THEN Destination(action, maxStep) ELSE commanded
  /\ commanded' \in -Reach..Reach
  /\ UNCHANGED guardVars

\* _filter_vla_callback(): FilterVLAAction.srv declares neither action_json nor
\* constraints_json, so that reading the request raises; the handler catches
\* this and answers deserialization_error before filter_action() is reached.
FilterVLA ==
  /\ reply' = "deserialization_error"
  /\ UNCHANGED <<guardVars, commanded>>

\* Any use of the guard both share.
GuardStep == GuardNext /\ UNCHANGED <<commanded, reply>>

FilterInit ==
  /\ GuardInit
  /\ commanded = 0
  /\ reply = "none"

FilterNext ==
  \/ \E action \in VLAActions, maxStep \in MaxSteps, id \in WorkspaceIds, pose \in Poses :
       FilterAction(action, maxStep, id, pose)
  \/ FilterVLA
  \/ GuardStep

FilterSpec == FilterInit /\ [][FilterNext]_filterVars

-----------------------------------------------------------------------------
\* Every variable has its type.
FilterTypeOK ==
  /\ GuardTypeOK
  /\ commanded \in Int
  /\ reply \in Replies

\* One step moves the commanded pose by no more than the largest step a
\* request may allow.
StepIsSmall ==
  \E maxStep \in MaxSteps \cup {0} :
    -maxStep <= commanded' - commanded /\ commanded' - commanded <= maxStep

\* At level emergency_stop nothing moves and no request is approved, although
\* the filter looks at another record of the stop than the level.
StopIsRespected ==
  level = "emergency_stop"
    => commanded' = commanded /\ reply' \in {reply, "emergency_stop", "deserialization_error"}

\* What a stream of approvals may do to the arm, whatever the guard goes
\* through in between: bounded steps, and none during a stop.
ApprovalsAreLimited == [][StepIsSmall /\ StopIsRespected]_filterVars
=============================================================================
