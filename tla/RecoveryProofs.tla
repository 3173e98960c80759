---------------------------- MODULE RecoveryProofs ----------------------------
(***************************************************************************)
(* Proofs about a skill in its recovery nodes: for any limit of missed     *)
(* frames, and wherever the thread switches fall, a tracking session is    *)
(* lost, completed or cancelled for a reason of its own; the robot and the *)
(* cloud agree on every failure code; for any depth and limits of the      *)
(* recovery nodes the attempts at the skill are bounded and follow one     *)
(* another; and any plan is refused for a reason, or carried out in the    *)
(* order of its dependencies.                                              *)
(***************************************************************************)
EXTENDS Recovery, TLAPS, FiniteSetTheorems, SequenceTheorems, WellFoundedInduction

-----------------------------------------------------------------------------
(* The pose tracker                                                        *)

TrackerTypeOK ==
  /\ running \in BOOLEAN
  /\ cancelled \in BOOLEAN
  /\ calling \in BOOLEAN
  /\ misses \in Nat
  /\ blind \in Nat
  /\ session \in Returned \cup {"none", "starting", "testing", "running", "frame", "leaving"}
  /\ asked \subseteq {"cancel", "stop"}

\* Behind its reset a session counts its own misses only.
MissesAreOwn == session \in {"testing", "running", "frame", "leaving"} => misses <= blind

\* Behind its reset a session finds no request but its own; a cancel() under
\* way when it starts is one of its own.
FlagsAreOwn ==
  /\ Tracking /\ calling => "cancel" \in asked
  /\ Tracking /\ ~ running => asked # {}
  /\ session = "leaving" => asked # {}
  /\ session \in {"testing", "running", "frame", "leaving"} /\ cancelled => "cancel" \in asked

TrackerInv ==
  /\ TrackerTypeOK
  /\ MissesAreOwn
  /\ FlagsAreOwn
  /\ LostAfterMisses
  /\ EndsOnRequest

LEMMA TrackerInitInv == TrackerInit => TrackerInv
<1> SUFFICES ASSUME TrackerInit PROVE TrackerInv
  OBVIOUS
<1>1. TrackerTypeOK
  BY DEF TrackerInit, TrackerTypeOK
<1>2. MissesAreOwn
  BY DEF TrackerInit, MissesAreOwn
<1>3. FlagsAreOwn
  BY DEF TrackerInit, FlagsAreOwn, Tracking
<1>4. LostAfterMisses /\ EndsOnRequest
  BY DEF TrackerInit, LostAfterMisses, EndsOnRequest
<1> QED BY <1>1, <1>2, <1>3, <1>4 DEF TrackerInv

LEMMA StartKeepsTracker == TrackerInv /\ StartTracking => TrackerInv'
BY DEF StartTracking, TrackerInv, TrackerTypeOK, MissesAreOwn, FlagsAreOwn, LostAfterMisses,
       EndsOnRequest, Tracking, Returned

LEMMA FrameKeepsTracker == TrackerInv /\ Frame => TrackerInv'
<1> SUFFICES ASSUME TrackerInv,
                    NEW seen \in BOOLEAN, NEW lost \in BOOLEAN,
                    lost <=> ~ seen /\ misses + 1 >= MaxMissedFrames,
                    session = "frame",
                    misses' = IF seen THEN 0 ELSE misses + 1,
                    blind' = IF seen THEN 0 ELSE blind + 1,
                    running' = (running /\ ~ lost),
                    session' = IF lost THEN "lost" ELSE "testing",
                    UNCHANGED <<cancelled, calling, asked>>
             PROVE  TrackerInv'
  <2> SUFFICES ASSUME TrackerInv, Frame PROVE TrackerInv'
    OBVIOUS
  <2>1. PICK detected \in Outcomes, segmented \in Outcomes, built \in Outcomes,
             estimated \in Outcomes :
          LET seen == Sees(detected, segmented, built, estimated)
              lost == ~ seen /\ misses + 1 >= MaxMissedFrames
          IN  /\ session = "frame"
              /\ misses' = IF seen THEN 0 ELSE misses + 1
              /\ blind' = IF seen THEN 0 ELSE blind + 1
              /\ running' = (running /\ ~ lost)
              /\ session' = IF lost THEN "lost" ELSE "testing"
              /\ UNCHANGED <<cancelled, calling, asked>>
    BY DEF Frame
  <2> DEFINE seen == Sees(detected, segmented, built, estimated)
             lost == ~ seen /\ misses + 1 >= MaxMissedFrames
  <2>2. seen \in BOOLEAN /\ lost \in BOOLEAN
    BY DEF Sees
  <2> QED BY <2>1, <2>2
<1>1. misses <= blind /\ misses \in Nat /\ blind \in Nat
  BY DEF TrackerInv, TrackerTypeOK, MissesAreOwn
<1>2. TrackerTypeOK'
  BY DEF TrackerInv, TrackerTypeOK, Returned
<1>3. MissesAreOwn'
  BY <1>1 DEF MissesAreOwn
<1>4. FlagsAreOwn'
  BY DEF TrackerInv, TrackerTypeOK, FlagsAreOwn, Tracking
<1>5. LostAfterMisses'
  BY <1>1, TrackerAssumption DEF LostAfterMisses
<1>6. EndsOnRequest'
  BY DEF EndsOnRequest
<1> QED BY <1>2, <1>3, <1>4, <1>5, <1>6 DEF TrackerInv

LEMMA LoopKeepsTracker ==
  TrackerInv /\ (ResetSession \/ TestRunning \/ TestCancelled) => TrackerInv'
<1> SUFFICES ASSUME TrackerInv, ResetSession \/ TestRunning \/ TestCancelled
             PROVE  TrackerInv'
  OBVIOUS
<1> USE DEF TrackerInv, TrackerTypeOK, MissesAreOwn, FlagsAreOwn, LostAfterMisses,
            EndsOnRequest, Tracking, Returned
<1>1. CASE ResetSession
  <2>1. TrackerTypeOK'
    BY <1>1 DEF ResetSession
  <2>4. MissesAreOwn'
    BY <1>1 DEF ResetSession
  <2>2. FlagsAreOwn'
    BY <1>1 DEF ResetSession
  <2>3. LostAfterMisses' /\ EndsOnRequest'
    BY <1>1 DEF ResetSession
  <2> QED BY <2>1, <2>2, <2>3, <2>4
<1>2. CASE TestRunning
  <2>1. CASE running
    BY <1>2, <2>1 DEF TestRunning
  <2>2. CASE ~ running
    BY <1>2, <2>2 DEF TestRunning
  <2> QED BY <2>1, <2>2
<1>3. CASE TestCancelled
  <2>1. CASE cancelled
    BY <1>3, <2>1 DEF TestCancelled
  <2>2. CASE ~ cancelled /\ session = "running"
    BY <1>3, <2>2 DEF TestCancelled
  <2>3. CASE ~ cancelled /\ session = "leaving"
    BY <1>3, <2>3 DEF TestCancelled
  <2> QED BY <1>3, <2>1, <2>2, <2>3 DEF TestCancelled
<1> QED BY <1>1, <1>2, <1>3

LEMMA RequestsKeepTracker == TrackerInv /\ TrackerRequest => TrackerInv'
<1> SUFFICES ASSUME TrackerInv, TrackerRequest PROVE TrackerInv'
  OBVIOUS
<1> USE DEF TrackerInv, TrackerTypeOK, MissesAreOwn, FlagsAreOwn, LostAfterMisses,
            EndsOnRequest, Tracking, Returned, Note
<1>1. CASE CancelTracking
  BY <1>1 DEF CancelTracking
<1>2. CASE CancelReturns
  BY <1>2 DEF CancelReturns
<1>3. CASE StopTracking
  BY <1>3 DEF StopTracking
<1> QED BY <1>1, <1>2, <1>3 DEF TrackerRequest

LEMMA TrackerKeepsInv == TrackerInv /\ [TrackerNext]_trackerVars => TrackerInv'
<1> SUFFICES ASSUME TrackerInv, [TrackerNext]_trackerVars PROVE TrackerInv'
  OBVIOUS
<1>1. CASE TrackerNext
  BY <1>1, StartKeepsTracker, FrameKeepsTracker, LoopKeepsTracker, RequestsKeepTracker
     DEF TrackerNext, TrackerStep
<1>2. CASE UNCHANGED trackerVars
  BY <1>2 DEF trackerVars, TrackerInv, TrackerTypeOK, MissesAreOwn, FlagsAreOwn,
              LostAfterMisses, EndsOnRequest, Tracking, Returned
<1> QED BY <1>1, <1>2

-----------------------------------------------------------------------------
(* Inside a task the tracker takes no steps but its own.                   *)

LEMMA TaskKeepsToTracker == [RecoveryNext]_vars => [TrackerNext]_trackerVars
<1> SUFFICES ASSUME [RecoveryNext]_vars PROVE [TrackerNext]_trackerVars
  OBVIOUS
<1>1. CASE Submit
  BY <1>1 DEF Submit
<1>2. CASE Dispatch
  BY <1>2 DEF Dispatch
<1>3. CASE Tick
  BY <1>3 DEF Tick
<1>4. CASE Run
  <2>1. CASE Pick
    BY <2>1 DEF Pick
  <2>2. CASE Track
    BY <2>2 DEF Track, TrackerNext
  <2>3. CASE Other
    BY <2>3 DEF Other
  <2> QED BY <1>4, <2>1, <2>2, <2>3 DEF Run
<1>5. CASE Request
  BY <1>5 DEF Request, TrackerNext
<1>6. CASE TrackOn
  BY <1>6 DEF TrackOn, TrackerNext
<1>7. CASE UNCHANGED vars
  BY <1>7 DEF vars
<1> QED BY <1>1, <1>2, <1>3, <1>4, <1>5, <1>6, <1>7 DEF RecoveryNext

\* For any limit of missed frames and any skills around it, a tracking session
\* is lost only after that many frames of its own without the object, and
\* returns as completed or cancelled only on a request made while it ran or
\* under way when it started (start_tracking, cancel, stop).
THEOREM SessionsEndForReason == RecoverySpec => []SessionEndIsEarned
<1>1. RecoveryInit => TrackerInv
  BY TrackerInitInv DEF RecoveryInit
<1>2. TrackerInv /\ [RecoveryNext]_vars => TrackerInv'
  BY TaskKeepsToTracker, TrackerKeepsInv
<1>3. TrackerInv => SessionEndIsEarned
  BY DEF TrackerInv, SessionEndIsEarned
<1> QED BY <1>1, <1>2, <1>3, PTL DEF RecoverySpec

-----------------------------------------------------------------------------
(* The robot and the cloud on a failure                                    *)

\* What the advisor and the monitor agree on needs of an entry: whoever does not
\* recover from it asks the cloud or the user.
Helped(spec) == (spec.recoverable /\ spec.policy # "") \/ spec.cloud \/ spec.user

\* The entries of a part of the table, OK and CANCELLED aside.
AllHelped(specs) == \A code \in DOMAIN specs \ {"OK", "CANCELLED"} : Helped(specs[code])

LEMMA GeneralHelp == AllHelped(GeneralSpecs)
<1>1. DOMAIN GeneralSpecs = {"OK", "UNKNOWN", "CANCELLED", "TIMEOUT", "INVALID_INPUT",
                  "SERVICE_UNAVAILABLE"}
  BY DEF GeneralSpecs
<1>2. /\ Helped(GeneralSpecs.UNKNOWN) /\ Helped(GeneralSpecs.TIMEOUT)
      /\ Helped(GeneralSpecs.INVALID_INPUT) /\ Helped(GeneralSpecs.SERVICE_UNAVAILABLE)
  BY DEF GeneralSpecs, Helped, Retry, Recover, Fatal, ToCloud, ToUser
<1> QED BY <1>1, <1>2 DEF AllHelped

LEMMA PerceptionHelp == AllHelped(PerceptionSpecs)
<1>1. DOMAIN PerceptionSpecs = {"PER_DETECTION_FAILED", "PER_NO_OBJECT_FOUND",
                  "PER_AMBIGUOUS_TARGET", "PER_SEGMENTATION_FAILED", "PER_MASK_TOO_SMALL",
                  "PER_POINT_CLOUD_EMPTY", "PER_POSE_ESTIMATION_FAILED", "PER_TRACKING_LOST",
                  "PER_MODEL_LOAD_FAILED"}
  BY DEF PerceptionSpecs
<1>2. /\ Helped(PerceptionSpecs.PER_DETECTION_FAILED)
      /\ Helped(PerceptionSpecs.PER_NO_OBJECT_FOUND)
      /\ Helped(PerceptionSpecs.PER_AMBIGUOUS_TARGET)
      /\ Helped(PerceptionSpecs.PER_SEGMENTATION_FAILED)
      /\ Helped(PerceptionSpecs.PER_MASK_TOO_SMALL)
      /\ Helped(PerceptionSpecs.PER_POINT_CLOUD_EMPTY)
      /\ Helped(PerceptionSpecs.PER_POSE_ESTIMATION_FAILED)
      /\ Helped(PerceptionSpecs.PER_TRACKING_LOST)
      /\ Helped(PerceptionSpecs.PER_MODEL_LOAD_FAILED)
  BY DEF PerceptionSpecs, Helped, Retry, Recover, Fatal, ToCloud, ToUser
<1> QED BY <1>1, <1>2 DEF AllHelped

LEMMA GraspHelp == AllHelped(GraspSpecs)
<1>1. DOMAIN GraspSpecs = {"GRP_NO_GRASP_FOUND", "GRP_ALL_GRASPS_COLLIDE",
                  "GRP_ALL_GRASPS_UNREACHABLE", "GRP_CONSTRAINT_UNSATISFIABLE"}
  BY DEF GraspSpecs
<1>2. /\ Helped(GraspSpecs.GRP_NO_GRASP_FOUND) /\ Helped(GraspSpecs.GRP_ALL_GRASPS_COLLIDE)
      /\ Helped(GraspSpecs.GRP_ALL_GRASPS_UNREACHABLE)
      /\ Helped(GraspSpecs.GRP_CONSTRAINT_UNSATISFIABLE)
  BY DEF GraspSpecs, Helped, Retry, Recover, Fatal, ToCloud, ToUser
<1> QED BY <1>1, <1>2 DEF AllHelped

LEMMA KinematicsHelp == AllHelped(KinematicsSpecs)
<1>1. DOMAIN KinematicsSpecs = {"IK_NO_SOLUTION", "IK_JOINT_LIMIT", "IK_SINGULARITY",
                  "IK_COLLISION"}
  BY DEF KinematicsSpecs
<1>2. /\ Helped(KinematicsSpecs.IK_NO_SOLUTION) /\ Helped(KinematicsSpecs.IK_JOINT_LIMIT)
      /\ Helped(KinematicsSpecs.IK_SINGULARITY) /\ Helped(KinematicsSpecs.IK_COLLISION)
  BY DEF KinematicsSpecs, Helped, Retry, Recover, Fatal, ToCloud, ToUser
<1> QED BY <1>1, <1>2 DEF AllHelped

LEMMA MotionHelp == AllHelped(MotionSpecs)
<1>1. DOMAIN MotionSpecs = {"MOT_PLANNING_FAILED", "MOT_PLANNING_TIMEOUT",
                  "MOT_COLLISION_DETECTED", "MOT_INVALID_START_STATE", "MOT_INVALID_GOAL"}
  BY DEF MotionSpecs
<1>2. /\ Helped(MotionSpecs.MOT_PLANNING_FAILED) /\ Helped(MotionSpecs.MOT_PLANNING_TIMEOUT)
      /\ Helped(MotionSpecs.MOT_COLLISION_DETECTED) /\ Helped(MotionSpecs.MOT_INVALID_START_STATE)
      /\ Helped(MotionSpecs.MOT_INVALID_GOAL)
  BY DEF MotionSpecs, Helped, Retry, Recover, Fatal, ToCloud, ToUser
<1> QED BY <1>1, <1>2 DEF AllHelped

LEMMA ControlHelp == AllHelped(ControlSpecs)
<1>1. DOMAIN ControlSpecs = {"CTL_TRACKING_ERROR", "CTL_FORCE_EXCEEDED", "CTL_GRIPPER_FAILED",
                  "CTL_GRASP_SLIP", "CTL_DRIVER_ERROR"}
  BY DEF ControlSpecs
<1>2. /\ Helped(ControlSpecs.CTL_TRACKING_ERROR) /\ Helped(ControlSpecs.CTL_FORCE_EXCEEDED)
      /\ Helped(ControlSpecs.CTL_GRIPPER_FAILED) /\ Helped(ControlSpecs.CTL_GRASP_SLIP)
      /\ Helped(ControlSpecs.CTL_DRIVER_ERROR)
  BY DEF ControlSpecs, Helped, Retry, Recover, Fatal, ToCloud, ToUser
<1> QED BY <1>1, <1>2 DEF AllHelped

LEMMA VLAHelp == AllHelped(VLASpecs)
<1>1. DOMAIN VLASpecs = {"VLA_PREDICTION_FAILED", "VLA_ACTION_DRIFT", "VLA_CONFIDENCE_LOW",
                  "VLA_SAFETY_VIOLATION", "VLA_TASK_INCOMPLETE", "VLA_MODEL_LOAD_FAILED"}
  BY DEF VLASpecs
<1>2. /\ Helped(VLASpecs.VLA_PREDICTION_FAILED) /\ Helped(VLASpecs.VLA_ACTION_DRIFT)
      /\ Helped(VLASpecs.VLA_CONFIDENCE_LOW) /\ Helped(VLASpecs.VLA_SAFETY_VIOLATION)
      /\ Helped(VLASpecs.VLA_TASK_INCOMPLETE) /\ Helped(VLASpecs.VLA_MODEL_LOAD_FAILED)
  BY DEF VLASpecs, Helped, Retry, Recover, Fatal, ToCloud, ToUser
<1> QED BY <1>1, <1>2 DEF AllHelped

LEMMA SafetyHelp == AllHelped(SafetySpecs)
<1>1. DOMAIN SafetySpecs = {"SAF_EMERGENCY_STOP", "SAF_COLLISION_RISK", "SAF_FORCE_LIMIT",
                  "SAF_SPEED_LIMIT", "SAF_WORKSPACE_VIOLATION", "SAF_HUMAN_PROXIMITY"}
  BY DEF SafetySpecs
<1>2. /\ Helped(SafetySpecs.SAF_EMERGENCY_STOP) /\ Helped(SafetySpecs.SAF_COLLISION_RISK)
      /\ Helped(SafetySpecs.SAF_FORCE_LIMIT) /\ Helped(SafetySpecs.SAF_SPEED_LIMIT)
      /\ Helped(SafetySpecs.SAF_WORKSPACE_VIOLATION) /\ Helped(SafetySpecs.SAF_HUMAN_PROXIMITY)
  BY DEF SafetySpecs, Helped, Retry, Recover, Fatal, ToCloud, ToUser
<1> QED BY <1>1, <1>2 DEF AllHelped

LEMMA CommunicationHelp == AllHelped(CommunicationSpecs)
<1>1. DOMAIN CommunicationSpecs = {"COM_CLOUD_DISCONNECTED", "COM_SERVICE_TIMEOUT",
                  "COM_INVALID_RESPONSE"}
  BY DEF CommunicationSpecs
<1>2. /\ Helped(CommunicationSpecs.COM_CLOUD_DISCONNECTED)
      /\ Helped(CommunicationSpecs.COM_SERVICE_TIMEOUT)
      /\ Helped(CommunicationSpecs.COM_INVALID_RESPONSE)
  BY DEF CommunicationSpecs, Helped, Retry, Recover, Fatal, ToCloud, ToUser
<1> QED BY <1>1, <1>2 DEF AllHelped

LEMMA TaskHelp == AllHelped(TaskSpecs)
<1>1. DOMAIN TaskSpecs = {"TSK_INSTRUCTION_UNCLEAR", "TSK_PLAN_INVALID", "TSK_SKILL_NOT_FOUND",
                  "TSK_PRECONDITION_FAILED", "TSK_POSTCONDITION_FAILED",
                  "TSK_MAX_RETRY_EXCEEDED"}
  BY DEF TaskSpecs
<1>2. /\ Helped(TaskSpecs.TSK_INSTRUCTION_UNCLEAR) /\ Helped(TaskSpecs.TSK_PLAN_INVALID)
      /\ Helped(TaskSpecs.TSK_SKILL_NOT_FOUND) /\ Helped(TaskSpecs.TSK_PRECONDITION_FAILED)
      /\ Helped(TaskSpecs.TSK_POSTCONDITION_FAILED) /\ Helped(TaskSpecs.TSK_MAX_RETRY_EXCEEDED)
  BY DEF TaskSpecs, Helped, Retry, Recover, Fatal, ToCloud, ToUser
<1> QED BY <1>1, <1>2 DEF AllHelped

LEMMA SpecsHelp == AllHelped(Specs)
<1>1. \A code \in DOMAIN Specs : \E part \in Parts : code \in DOMAIN part /\ Specs[code] = part[code]
  <2> TAKE code \in DOMAIN Specs
  <2>1. \E part \in Parts : code \in DOMAIN part
    BY DEF Specs
  <2> DEFINE own == CHOOSE part \in Parts : code \in DOMAIN part
  <2>2. own \in Parts /\ code \in DOMAIN own
    BY <2>1, Zenon
  <2>3. Specs[code] = own[code]
    BY Zenon DEF Specs
  <2> QED BY <2>2, <2>3
<1> QED BY <1>1, GeneralHelp, PerceptionHelp, GraspHelp, KinematicsHelp, MotionHelp,
              ControlHelp, VLAHelp, SafetyHelp, CommunicationHelp, TaskHelp DEF Parts, AllHelped

LEMMA FirstOfFirst ==
  ASSUME NEW S, NEW a \in Seq(S), NEW b \in Seq(S), a # <<>>
  PROVE  (a \o b)[1] = a[1] /\ a \o b # <<>>
<1>1. 1 \in DOMAIN a
  OBVIOUS
<1> QED BY <1>1

LEMMA OneOrNone ==
  ASSUME NEW S, NEW x \in S, NEW flag PROVE (IF flag THEN <<x>> ELSE <<>>) \in Seq(S)
<1>1. CASE flag
  BY <1>1
<1>2. CASE ~ flag
  BY <1>2
<1> QED BY <1>1, <1>2

LEMMA PartsInWhole ==
  ASSUME NEW S, NEW a \in Seq(S), NEW b \in Seq(S) PROVE ToSet(a) \cup ToSet(b) \subseteq ToSet(a \o b)
<1>1. a \o b \in Seq(S) /\ Len(a \o b) = Len(a) + Len(b)
  OBVIOUS
<1>2. ASSUME NEW i \in DOMAIN a PROVE i \in DOMAIN (a \o b) /\ (a \o b)[i] = a[i]
  OBVIOUS
<1>3. ASSUME NEW i \in DOMAIN b
      PROVE  i + Len(a) \in DOMAIN (a \o b) /\ (a \o b)[i + Len(a)] = b[i]
  OBVIOUS
<1> QED BY <1>2, <1>3 DEF ToSet

LEMMA AdviceIs ==
  ASSUME NEW code, Known(code)
  PROVE  /\ Len(Advice(code)) \in Nat
         /\ Specs[code].policy # "" => Advice(code)[1] = Specs[code].policy
         /\ Specs[code].cloud => "escalate_to_cloud" \in ToSet(Advice(code))
         /\ Specs[code].user => "ask_user_clarification" \in ToSet(Advice(code))
<1> DEFINE spec == Specs[code]
           S == {spec.policy, "retry", "escalate_to_cloud", "ask_user_clarification"}
           first == IF spec.policy # "" THEN <<spec.policy>> ELSE <<>>
           retry == IF spec.retryable THEN <<"retry">> ELSE <<>>
           cloud == IF spec.cloud THEN <<"escalate_to_cloud">> ELSE <<>>
           user == IF spec.user THEN <<"ask_user_clarification">> ELSE <<>>
<1>1. first \in Seq(S) /\ retry \in Seq(S) /\ cloud \in Seq(S) /\ user \in Seq(S)
  <2>1. spec.policy \in S
    OBVIOUS
  <2>2. "retry" \in S
    OBVIOUS
  <2>3. "escalate_to_cloud" \in S
    OBVIOUS
  <2>4. "ask_user_clarification" \in S
    OBVIOUS
  <2> HIDE DEF S
  <2> QED BY <2>1, <2>2, <2>3, <2>4, OneOrNone
<1>2. Advice(code) = first \o retry \o cloud \o user
  BY DEF Advice, Candidates
<1>3. spec.policy # "" => first = <<spec.policy>>
  OBVIOUS
<1>4. spec.cloud => "escalate_to_cloud" \in ToSet(cloud)
  BY DEF ToSet
<1>5. spec.user => "ask_user_clarification" \in ToSet(user)
  BY DEF ToSet
<1> HIDE DEF first, retry, cloud, user, S
<1>7. first \o retry \o cloud \in Seq(S) /\ first \o retry \in Seq(S)
  BY <1>1
<1>8. Len(Advice(code)) \in Nat
  BY <1>1, <1>2
<1>9. spec.policy # "" => Advice(code)[1] = spec.policy
  <2> SUFFICES ASSUME spec.policy # "" PROVE Advice(code)[1] = spec.policy
    OBVIOUS
  <2>1. first # <<>> /\ first[1] = spec.policy
    <3>1. \A x : <<x>> # <<>> /\ <<x>>[1] = x
      OBVIOUS
    <3> QED BY <1>3, <3>1, Zenon
  <2>2. first \o retry # <<>> /\ (first \o retry)[1] = spec.policy
    BY <2>1, <1>1, FirstOfFirst
  <2>3. first \o retry \o cloud # <<>> /\ (first \o retry \o cloud)[1] = spec.policy
    BY <2>2, <1>1, <1>7, FirstOfFirst
  <2> QED BY <2>3, <1>1, <1>2, <1>7, FirstOfFirst
<1>10. ToSet(cloud) \subseteq ToSet(Advice(code)) /\ ToSet(user) \subseteq ToSet(Advice(code))
  <2>1. ToSet(cloud) \subseteq ToSet(first \o retry \o cloud)
    BY <1>1, <1>7, PartsInWhole
  <2> QED BY <1>1, <1>2, <1>7, <2>1, PartsInWhole
<1> QED BY <1>4, <1>5, <1>8, <1>9, <1>10

LEMMA RobotAndCloudAgree ==
  ASSUME NEW code
  PROVE  LET action == RequestRecovery(code)
             advice == Advice(code)
         IN  /\ action = Unrouted <=> ~ Known(code)
             /\ action # Unrouted /\ action.priority = 0 =>
                  advice[1] = action.name /\ RecoveryChain(code, advice)[1] = action
             /\ action.priority = 99 /\ code \notin {"OK", "CANCELLED"} =>
                  \E step \in ToSet(advice) : step \in {"escalate_to_cloud", "ask_user_clarification"}
<1> DEFINE action == RequestRecovery(code)
           advice == Advice(code)
           spec == Specs[code]
           heals == spec.recoverable /\ spec.policy # ""
           agree == /\ action = Unrouted <=> ~ Known(code)
                    /\ action # Unrouted /\ action.priority = 0 =>
                         advice[1] = action.name /\ RecoveryChain(code, advice)[1] = action
                    /\ action.priority = 99 /\ code \notin {"OK", "CANCELLED"} =>
                         \E step \in ToSet(advice) :
                           step \in {"escalate_to_cloud", "ask_user_clarification"}
<1> SUFFICES agree
  BY Zenon
<1>1. CASE ~ Known(code)
  <2>1. action = Unrouted
    BY <1>1 DEF RequestRecovery
  <2>2. action.priority = 0
    <3>1. Unrouted.priority = 0
      BY DEF Unrouted
    <3> HIDE DEF action
    <3> QED BY <2>1, <3>1
  <2> HIDE DEF action, advice
  <2> QED BY <1>1, <2>1, <2>2
<1>2. CASE Known(code) /\ heals
  <2>1. action = Action(spec, 0)
    BY <1>2 DEF RequestRecovery
  <2>2. action.name = spec.policy /\ action.priority = 0 /\ action # Unrouted
    <3>1. Action(spec, 0).name = spec.policy /\ Action(spec, 0).priority = 0 /\ Unrouted.name = ""
      BY DEF Action, Unrouted
    <3> HIDE DEF action
    <3> QED BY <1>2, <2>1, <3>1
  <2>3. advice[1] = spec.policy /\ Len(advice) \in Nat
    BY <1>2, AdviceIs
  <2>4. RecoveryChain(code, advice)[1] = action
    <3> HIDE DEF action, advice
    <3> DEFINE rest == [i \in 1 .. Len(advice) |-> [Unrouted EXCEPT !.name = advice[i], !.priority = i]]
               S == {action} \cup {rest[i] : i \in 1 .. Len(advice)}
    <3>1. RecoveryChain(code, advice) = <<action>> \o rest
      BY <1>2, <2>1 DEF RecoveryChain, Candidates
    <3>2. \A i \in 1 .. Len(advice) : rest[i] \in S
      OBVIOUS
    <3>3. rest \in [1 .. Len(advice) -> S]
      BY <3>2
    <3>4. action \in S
      OBVIOUS
    <3> HIDE DEF S, rest
    <3>5. rest \in Seq(S)
      BY <2>3, <3>3
    <3>6. <<action>> \in Seq(S) /\ <<action>> # <<>> /\ <<action>>[1] = action
      BY <3>4
    <3> QED BY <3>1, <3>5, <3>6, FirstOfFirst
  <2> HIDE DEF action, advice
  <2>5. action.priority # 99
    BY <2>2
  <2> QED BY <1>2, <2>2, <2>3, <2>4, <2>5
<1>3. CASE Known(code) /\ ~ heals
  <2>1. action = Escalation(spec)
    BY <1>3 DEF RequestRecovery
  <2>2. action.priority = 99 /\ action # Unrouted
    <3>1. Escalation(spec).priority = 99 /\ Unrouted.priority = 0
      BY DEF Escalation, Unrouted
    <3> HIDE DEF action
    <3> QED BY <2>1, <3>1
  <2>3. code \notin {"OK", "CANCELLED"} => spec.cloud \/ spec.user
    BY <1>3, SpecsHelp DEF AllHelped, Helped, Known
  <2>4. code \notin {"OK", "CANCELLED"} =>
          \E step \in ToSet(advice) : step \in {"escalate_to_cloud", "ask_user_clarification"}
    BY <1>3, <2>3, AdviceIs
  <2> HIDE DEF action, advice
  <2>5. action.priority # 0
    BY <2>2
  <2> QED BY <1>3, <2>2, <2>4, <2>5
<1> HIDE DEF action, advice
<1> QED BY <1>1, <1>2, <1>3

\* Whatever code a failure carries, in the table or not, the monitor and the
\* advisor agree on it: the one recovers with what the other advises first, and
\* what the one escalates the other takes to the cloud or the user
\* (request_recovery, build_recovery_chain, advise).
THEOREM RobotAndCloudAdvise == RecoverySpec => []AdviceAgrees
<1>1. AdviceAgrees
  BY RobotAndCloudAgree, Zenon DEF AdviceAgrees
<1> QED BY <1>1, PTL

-----------------------------------------------------------------------------
(* Folds over finite sets                                                  *)

\* A nonempty set of naturals has a least element.
LEMMA LeastElement ==
  ASSUME NEW T \in SUBSET Nat, T # {}
  PROVE  \E x \in T : \A y \in T : x <= y
<1> DEFINE R == {p \in Nat \X Nat : p[1] < p[2]}
<1>1. IsWellFoundedOn(R, Nat)
  BY NatLessThanWellFounded, Zenon DEF OpToRel
<1>2. PICK x \in T : \A y \in T : ~ (<<y, x>> \in R)
  BY <1>1, WFMin, Zenon
<1>3. \A y \in T : ~ (y < x)
  BY <1>2
<1> QED BY <1>3

\* Induction over the naturals, for a set.
LEMMA EveryNumber ==
  ASSUME NEW T \in SUBSET Nat, 0 \in T, \A n \in T : n + 1 \in T
  PROVE  \A n \in Nat : n \in T
<1> SUFFICES ASSUME Nat \ T # {} PROVE FALSE
  OBVIOUS
<1>1. PICK x \in Nat \ T : \A y \in Nat \ T : x <= y
  BY LeastElement
<1>2. x # 0 /\ x - 1 \in Nat /\ x - 1 \in T
  BY <1>1
<1> QED BY <1>1, <1>2

\* A fold of step from base over the subsets of D, their elements taken by pick.
Unfolds(f, S, base, pick, step) ==
  f[S] = IF S = {} THEN base ELSE step[<<pick[S], f[S \ {pick[S]}]>>]

LEMMA FoldExists ==
  ASSUME NEW D, IsFiniteSet(D), NEW V, NEW base \in V, NEW step \in [D \X V -> V],
         NEW pick, \A S \in SUBSET D : S # {} => pick[S] \in S
  PROVE  \E f \in [SUBSET D -> V] : \A S \in SUBSET D : Unfolds(f, S, base, pick, step)
<1>1. \A S \in SUBSET D : IsFiniteSet(S) /\ Cardinality(S) \in Nat /\ Cardinality(S) <= Cardinality(D)
  BY FS_Subset, FS_CardinalityType
<1>2. \A S \in SUBSET D : Cardinality(S) = 0 <=> S = {}
  BY <1>1, FS_EmptySet
<1>3. \A S \in SUBSET D : S # {} => Cardinality(S \ {pick[S]}) = Cardinality(S) - 1
  BY <1>1, FS_RemoveElement
<1> DEFINE Upto(f, k) ==
      \A S \in SUBSET D : Cardinality(S) <= k => Unfolds(f, S, base, pick, step)
    T == {k \in Nat : \E f \in [SUBSET D -> V] : Upto(f, k)}
<1>4. 0 \in T
  <2> DEFINE f == [S \in SUBSET D |-> base]
  <2>1. f \in [SUBSET D -> V]
    OBVIOUS
  <2>2. Upto(f, 0)
    BY <1>1, <1>2 DEF Unfolds
  <2> QED BY <2>1, <2>2
<1>5. ASSUME NEW k \in T PROVE k + 1 \in T
  <2>1. PICK f \in [SUBSET D -> V] : Upto(f, k)
    OBVIOUS
  <2> DEFINE g == [S \in SUBSET D |-> IF Cardinality(S) <= k THEN f[S]
                                      ELSE step[<<pick[S], f[S \ {pick[S]}]>>]]
  <2>2. k \in Nat
    OBVIOUS
  <2>3. ASSUME NEW S \in SUBSET D, ~ (Cardinality(S) <= k)
        PROVE  step[<<pick[S], f[S \ {pick[S]}]>>] \in V
    <3>1. S # {}
      BY <1>2, <2>2, <2>3
    <3>2. pick[S] \in D /\ S \ {pick[S]} \in SUBSET D
      BY <3>1
    <3>3. f[S \ {pick[S]}] \in V
      BY <2>1, <3>2
    <3> QED BY <3>2, <3>3
  <2>4. g \in [SUBSET D -> V]
    BY <2>1, <2>3
  <2>5. ASSUME NEW S \in SUBSET D, Cardinality(S) <= k + 1
        PROVE  Unfolds(g, S, base, pick, step)
    <3>1. CASE S = {}
      <4>1. Cardinality(S) <= k
        BY <1>2, <2>2, <3>1
      <4>2. g[S] = f[S]
        BY <4>1
      <4>3. Unfolds(f, S, base, pick, step)
        BY <2>1, <4>1
      <4> HIDE DEF g
      <4> QED BY <3>1, <4>2, <4>3 DEF Unfolds
    <3>2. CASE S # {}
      <4> DEFINE R == S \ {pick[S]}
      <4>1. R \in SUBSET D /\ Cardinality(R) <= k
        BY <1>1, <1>3, <2>2, <2>5, <3>2
      <4>2. g[R] = f[R]
        BY <4>1
      <4>3. g[S] = step[<<pick[S], f[R]>>]
        <5>1. CASE Cardinality(S) <= k
          <6>1. g[S] = f[S]
            BY <5>1
          <6>2. Unfolds(f, S, base, pick, step)
            BY <2>1, <5>1
          <6> HIDE DEF g
          <6> QED BY <3>2, <6>1, <6>2 DEF Unfolds
        <5>2. CASE ~ (Cardinality(S) <= k)
          BY <5>2
        <5> QED BY <5>1, <5>2
      <4> HIDE DEF g
      <4> QED BY <3>2, <4>2, <4>3 DEF Unfolds
    <3> QED BY <3>1, <3>2
  <2> HIDE DEF g
  <2>6. Upto(g, k + 1)
    BY <2>5
  <2> QED BY <2>2, <2>4, <2>6
<1> HIDE DEF T
<1>6. T \in SUBSET Nat
  BY DEF T
<1>7. Cardinality(D) \in T
  BY <1>1, <1>4, <1>5, <1>6, EveryNumber
<1>8. PICK f \in [SUBSET D -> V] : Upto(f, Cardinality(D))
  BY <1>7 DEF T
<1>9. \A S \in SUBSET D : Unfolds(f, S, base, pick, step)
  BY <1>1, <1>8
<1> QED BY <1>9

-----------------------------------------------------------------------------
(* A tick through the levels                                               *)

\* What a node yields, given what the next level does, and the leaf below the last.
Levelled(node, recovery) ==
  /\ node[Len(MaxRetries) + 1] = TickLeaf
  /\ \A l \in Levels : node[l] = TickNode(l, node[l + 1], recovery[l])

Root(recovery) ==
  FoldRight(LAMBDA level, child : TickNode(level, child, recovery[level]),
            [l \in Levels |-> l], TickLeaf)

IsRoot(f, recovery) ==
  LET level(S) == [l \in Levels |-> l][Min(S)]
  IN  f = [S \in SUBSET Levels |->
             IF S = {} THEN TickLeaf
             ELSE TickNode(level(S), f[S \ {Min(S)}], recovery[level(S)])]

LEMMA RootIs ==
  ASSUME NEW recovery
  PROVE  Root(recovery) = (CHOOSE f : IsRoot(f, recovery))[Levels]
<1> DEFINE all == [l \in Levels |-> l]
<1>1. DOMAIN all = Levels
  OBVIOUS
<1>2. Root(recovery) = (CHOOSE f : f = [S \in SUBSET DOMAIN all |->
         IF S = {} THEN TickLeaf
         ELSE TickNode(all[Min(S)], f[S \ {Min(S)}], recovery[all[Min(S)]])])[DOMAIN all]
  BY Zenon DEF Root, FoldRight, MapThenFoldSet
<1> QED BY <1>1, <1>2, Zenon DEF IsRoot

LEMMA LevelsAre ==
  /\ Len(MaxRetries) \in Nat
  /\ Levels = 1 .. Len(MaxRetries)
  /\ IsFiniteSet(Levels)
  /\ \A S \in SUBSET Levels : S # {} => Min(S) \in S
  /\ \A l \in Levels : Min(l .. Len(MaxRetries)) = l
<1>1. Len(MaxRetries) \in Nat /\ Levels = 1 .. Len(MaxRetries)
  BY RecoveryAssumption DEF Levels
<1>2. IsFiniteSet(Levels)
  BY <1>1, FS_Interval
<1>3. ASSUME NEW S \in SUBSET Nat, S # {} PROVE Min(S) \in S /\ \A y \in S : Min(S) <= y
  <2>1. \E x \in S : \A y \in S : x <= y
    BY <1>3, LeastElement
  <2> QED BY <2>1, Zenon DEF Min
<1>4. ASSUME NEW l \in Levels PROVE Min(l .. Len(MaxRetries)) = l
  <2>1. PICK m : m = Min(l .. Len(MaxRetries))
    OBVIOUS
  <2>2. l .. Len(MaxRetries) \in SUBSET Nat /\ l \in l .. Len(MaxRetries)
    BY <1>1
  <2>3. m \in l .. Len(MaxRetries) /\ m <= l
    BY <1>3, <2>1, <2>2
  <2>4. m = l
    BY <1>1, <2>3
  <2> QED BY <2>1, <2>4
<1>5. \A S \in SUBSET Levels : S \in SUBSET Nat
  BY <1>1
<1> QED BY <1>1, <1>2, <1>3, <1>4, <1>5

Statuses == {"SUCCESS", "FAILURE", "RUNNING", "RAISED"}

LEMMA RootIsLevelled ==
  ASSUME NEW recovery, retries \in [Levels -> Nat]
  PROVE  \E node : Levelled(node, recovery) /\ Root(recovery) = node[1]
<1> DEFINE n == Len(MaxRetries)
           Nodes == [status : Statuses, leaf : {TickLeaf.leaf, Fresh}, retries : [Levels -> Nat]]
           pick == [S \in SUBSET Levels |-> Min(S)]
           step == [p \in Levels \X Nodes |-> TickNode(p[1], p[2], recovery[p[1]])]
<1>1. TickLeaf \in Nodes
  BY DEF TickLeaf, Statuses
<1>2. ASSUME NEW l \in Levels, NEW child \in Nodes PROVE TickNode(l, child, recovery[l]) \in Nodes
  <2>1. [child EXCEPT !.status = "RAISED"] \in Nodes
    BY DEF Statuses
  <2>2. Recovered(l, child) \in Nodes
    <3>1. child.retries \in [Levels -> Nat]
      OBVIOUS
    <3>2. [k \in Levels |-> IF k > l THEN 0 ELSE IF k = l THEN child.retries[k] + 1
                            ELSE child.retries[k]] \in [Levels -> Nat]
      BY <3>1
    <3> QED BY <3>2 DEF Recovered, Statuses
  <2> HIDE DEF Nodes
  <2> QED BY <2>1, <2>2 DEF TickNode
<1>3. step \in [Levels \X Nodes -> Nodes]
  <2> HIDE DEF Nodes
  <2> QED BY <1>2
<1>4. \A S \in SUBSET Levels : S # {} => pick[S] \in S
  BY LevelsAre
<1> HIDE DEF Nodes
<1>5. PICK f \in [SUBSET Levels -> Nodes] :
        \A S \in SUBSET Levels : Unfolds(f, S, TickLeaf, pick, step)
  <2> HIDE DEF pick, step
  <2>1. IsFiniteSet(Levels)
    BY LevelsAre
  <2>2. ASSUME NEW N, NEW base \in N, NEW s \in [Levels \X N -> N],
               NEW p, \A S \in SUBSET Levels : S # {} => p[S] \in S
        PROVE  \E f \in [SUBSET Levels -> N] : \A S \in SUBSET Levels : Unfolds(f, S, base, p, s)
    BY <2>1, <2>2, FoldExists
  <2> QED BY <1>1, <1>3, <1>4, <2>2
<1>6. IsRoot(f, recovery)
  <2> DEFINE level(S) == [l \in Levels |-> l][Min(S)]
             F(S) == IF S = {} THEN TickLeaf
                     ELSE TickNode(level(S), f[S \ {Min(S)}], recovery[level(S)])
  <2>1. ASSUME NEW S \in SUBSET Levels PROVE f[S] = F(S)
    <3>1. CASE S = {}
      BY <1>5, <3>1 DEF Unfolds
    <3>2. CASE S # {}
      <4>1. pick[S] = Min(S) /\ Min(S) \in Levels /\ level(S) = Min(S)
        BY <3>2, LevelsAre
      <4>2. f[S \ {Min(S)}] \in Nodes
        BY <1>5
      <4>3. step[<<Min(S), f[S \ {Min(S)}]>>] = TickNode(Min(S), f[S \ {Min(S)}], recovery[Min(S)])
        BY <4>1, <4>2
      <4>4. f[S] = step[<<pick[S], f[S \ {pick[S]}]>>]
        BY <1>5, <3>2, Zenon DEF Unfolds
      <4> HIDE DEF pick, step, level
      <4> QED BY <3>2, <4>1, <4>3, <4>4
    <3> QED BY <3>1, <3>2
  <2> HIDE DEF F
  <2>2. f = [S \in SUBSET Levels |-> F(S)]
    BY <1>5, <2>1
  <2> QED BY <2>2, Zenon DEF F, IsRoot
<1>7. PICK g : IsRoot(g, recovery) /\ Root(recovery) = g[Levels]
  BY <1>6, RootIs, Zenon
<1> DEFINE node == [l \in 1 .. n + 1 |-> g[l .. n]]
<1>8. \A S \in SUBSET Levels :
        g[S] = IF S = {} THEN TickLeaf
               ELSE LET level == [l \in Levels |-> l][Min(S)]
                    IN  TickNode(level, g[S \ {Min(S)}], recovery[level])
  BY <1>7, Zenon DEF IsRoot
<1>9. node[n + 1] = TickLeaf
  <2>1. n + 1 .. n = {} /\ node[n + 1] = g[n + 1 .. n]
    BY LevelsAre
  <2> HIDE DEF node
  <2> QED BY <1>8, <2>1
<1>10. ASSUME NEW l \in Levels PROVE node[l] = TickNode(l, node[l + 1], recovery[l])
  <2>1. /\ l .. n \in SUBSET Levels /\ l .. n # {} /\ (l .. n) \ {l} = l + 1 .. n
        /\ node[l] = g[l .. n] /\ node[l + 1] = g[l + 1 .. n]
    BY LevelsAre
  <2>2. Min(l .. n) = l
    BY LevelsAre
  <2>3. [k \in Levels |-> k][l] = l
    OBVIOUS
  <2>4. g[l .. n] = TickNode(l, g[(l .. n) \ {l}], recovery[l])
    BY <1>8, <2>1, <2>2, <2>3, Zenon
  <2> HIDE DEF node, n
  <2> QED BY <2>1, <2>4
<1>11. Root(recovery) = node[1]
  BY <1>7, LevelsAre
<1> HIDE DEF node
<1> QED BY <1>9, <1>10, <1>11 DEF Levelled

\* How a tick may end at a level: the leaf's word is passed on, unless a recovery
\* raised on its failure; or a level with a retry left has recovered from it.
Passed(node) ==
  \E status \in {TickLeaf.status, "RAISED"} :
    /\ status = "RAISED" => TickLeaf.status = "FAILURE"
    /\ node = [status |-> status, leaf |-> TickLeaf.leaf, retries |-> retries]

Healed(node, recovery) ==
  \E level \in Levels :
    /\ TickLeaf.status = "FAILURE"
    /\ retries[level] < MaxRetries[level]
    /\ recovery[level] = "yes"
    /\ node = Recovered(level, TickLeaf)

LEMMA NodePassesOrHeals ==
  ASSUME NEW child, NEW level \in Levels, NEW recovery,
         recovery[level] \in {"yes", "no", "raises"},
         Passed(child) \/ Healed(child, recovery)
  PROVE  \/ Passed(TickNode(level, child, recovery[level]))
         \/ Healed(TickNode(level, child, recovery[level]), recovery)
<1>0. TickLeaf.retries = retries /\ TickLeaf.status # "RAISED"
  BY DEF TickLeaf
<1>1. CASE Passed(child)
  <2>1. PICK status \in {TickLeaf.status, "RAISED"} :
               /\ status = "RAISED" => TickLeaf.status = "FAILURE"
               /\ child = [status |-> status, leaf |-> TickLeaf.leaf, retries |-> retries]
    BY <1>1 DEF Passed
  <2>2. child.status = status /\ child.retries = retries
    BY <2>1
  <2>3. CASE ~ MayRetry(level, child) \/ recovery[level] = "no"
    BY <1>1, <2>3 DEF TickNode
  <2>4. CASE MayRetry(level, child) /\ recovery[level] = "raises"
    <3>1. TickNode(level, child, recovery[level]) =
            [status |-> "RAISED", leaf |-> TickLeaf.leaf, retries |-> retries]
      BY <2>1, <2>4 DEF TickNode
    <3>2. TickLeaf.status = "FAILURE"
      BY <2>1, <2>2, <2>4 DEF MayRetry
    <3> QED BY <3>1, <3>2 DEF Passed
  <2>5. CASE MayRetry(level, child) /\ recovery[level] = "yes"
    <3>1. TickNode(level, child, recovery[level]) = Recovered(level, child)
      BY <2>5 DEF TickNode
    <3>2. Recovered(level, child) = Recovered(level, TickLeaf)
      BY <1>0, <2>2 DEF Recovered
    <3>3. TickLeaf.status = "FAILURE" /\ retries[level] < MaxRetries[level]
      BY <2>1, <2>2, <2>5 DEF MayRetry
    <3> QED BY <2>5, <3>1, <3>2, <3>3 DEF Healed
  <2> QED BY <2>3, <2>4, <2>5
<1>2. CASE Healed(child, recovery)
  <2>1. child.status = "RUNNING"
    BY <1>2 DEF Healed, Recovered
  <2>2. TickNode(level, child, recovery[level]) = child
    BY <2>1 DEF TickNode, MayRetry
  <2> QED BY <1>2, <2>2
<1> QED BY <1>1, <1>2

LEMMA RootPassesOrHeals ==
  ASSUME NEW recovery \in [Levels -> {"yes", "no", "raises"}], retries \in [Levels -> Nat]
  PROVE  Passed(Root(recovery)) \/ Healed(Root(recovery), recovery)
<1> DEFINE n == Len(MaxRetries)
           Good(node) == Passed(node) \/ Healed(node, recovery)
<1>1. PICK node : Levelled(node, recovery) /\ Root(recovery) = node[1]
  BY RootIsLevelled
<1> DEFINE T == {d \in Nat : d <= n => Good(node[n + 1 - d])}
<1>2. 0 \in T
  <2>1. node[n + 1] = TickLeaf
    BY <1>1 DEF Levelled
  <2>2. TickLeaf = [status |-> TickLeaf.status, leaf |-> TickLeaf.leaf, retries |-> retries]
    BY DEF TickLeaf
  <2>3. TickLeaf.status # "RAISED"
    BY DEF TickLeaf
  <2>4. Passed(TickLeaf)
    BY <2>2, <2>3, Zenon DEF Passed
  <2>5. n + 1 - 0 = n + 1
    BY LevelsAre
  <2> HIDE DEF Good, n
  <2> QED BY <2>1, <2>4, <2>5 DEF Good
<1>3. ASSUME NEW d \in T PROVE d + 1 \in T
  <2>1. d \in Nat
    OBVIOUS
  <2> SUFFICES ASSUME d + 1 <= n PROVE Good(node[n + 1 - (d + 1)])
    BY <2>1
  <2>9. n - d \in Levels
    <3> HIDE DEF T
    <3> QED BY <2>1, LevelsAre
  <2>2. PICK l \in Levels : l = n - d
    BY <2>9
  <2>3. n + 1 - (d + 1) = l /\ n + 1 - d = l + 1 /\ d <= n
    BY <2>1, <2>2, LevelsAre
  <2>4. Good(node[l + 1])
    BY <2>3
  <2>5. node[l] = TickNode(l, node[l + 1], recovery[l])
    BY <1>1 DEF Levelled
  <2>6. recovery[l] \in {"yes", "no", "raises"}
    OBVIOUS
  <2>7. Good(node[l])
    <3>1. ASSUME NEW child, Good(child) PROVE Good(TickNode(l, child, recovery[l]))
      BY <2>6, <3>1, NodePassesOrHeals
    <3> HIDE DEF Good
    <3> QED BY <2>4, <2>5, <3>1
  <2> HIDE DEF Good
  <2> QED BY <2>3, <2>7
<1> HIDE DEF Good
<1>4. n \in T
  <2> HIDE DEF n
  <2>1. T \in SUBSET Nat /\ n \in Nat
    BY LevelsAre DEF n
  <2> HIDE DEF T
  <2> QED BY <1>2, <1>3, <2>1, EveryNumber
<1>5. n + 1 - n = 1
  BY LevelsAre
<1>6. Good(node[1])
  BY <1>4, <1>5, LevelsAre
<1> QED BY <1>1, <1>6 DEF Good

-----------------------------------------------------------------------------
(* The retries of the levels, counted                                      *)

LEMMA ProductFacts ==
  /\ \A a \in Nat, b \in Nat \ {0} : (a + 1) * b \in Nat \ {0}
  /\ \A a, b, c \in Nat : a * (b * c) = b * (a * c)
  /\ \A a, b, c \in Nat : a <= b => a * c <= b * c
  /\ \A a, b \in Nat : (a + 1) * b = a * b + b /\ a * b \in Nat
<1>1. \A a, b \in Nat : (a + 1) * b = a * b + b /\ a * b \in Nat
  OBVIOUS
<1>2. \A a, b, c \in Nat : a * (b * c) = b * (a * c)
  OBVIOUS
<1>3. ASSUME NEW a \in Nat, NEW b \in Nat, NEW c \in Nat, a <= b PROVE a * c <= b * c
  BY <1>3
<1>4. ASSUME NEW a \in Nat, NEW b \in Nat \ {0} PROVE (a + 1) * b \in Nat \ {0}
  BY <1>1
<1> QED BY <1>1, <1>2, <1>3, <1>4

\* The attempts at some of the levels, one level taken at a time.
IsProduct(f) ==
  f = [S \in SUBSET Levels |->
         IF S = {} THEN 1
         ELSE (MaxRetries[CHOOSE l \in S : TRUE] + 1) * f[S \ {CHOOSE l \in S : TRUE}]]

LEMMA ProductIs == MaxAttempts = (CHOOSE f : IsProduct(f))[Levels]
<1>1. DOMAIN MaxRetries = Levels
  BY RecoveryAssumption DEF Levels
<1>2. MaxAttempts = (CHOOSE f : f = [S \in SUBSET DOMAIN MaxRetries |->
         IF S = {} THEN 1
         ELSE (MaxRetries[CHOOSE l \in S : TRUE] + 1) * f[S \ {CHOOSE l \in S : TRUE}]])[DOMAIN MaxRetries]
  BY Zenon DEF MaxAttempts, FoldFunction, FoldFunctionOnSet, MapThenFoldSet
<1> QED BY <1>1, <1>2, Zenon DEF IsProduct

LEMMA ProductExists == \E f : IsProduct(f)
<1> DEFINE pick == [S \in SUBSET Levels |-> CHOOSE l \in S : TRUE]
           step == [p \in Levels \X Nat |-> (MaxRetries[p[1]] + 1) * p[2]]
<1>1. \A S \in SUBSET Levels : S # {} => (CHOOSE l \in S : TRUE) \in S
  OBVIOUS
<1>2. \A l \in Levels : MaxRetries[l] \in Nat
  BY RecoveryAssumption DEF Levels
<1>3. step \in [Levels \X Nat -> Nat]
  BY <1>2, ProductFacts
<1>4. PICK f \in [SUBSET Levels -> Nat] : \A S \in SUBSET Levels : Unfolds(f, S, 1, pick, step)
  <2>1. \A S \in SUBSET Levels : S # {} => pick[S] \in S
    BY <1>1
  <2> HIDE DEF pick, step
  <2>2. IsFiniteSet(Levels)
    BY LevelsAre
  <2>3. ASSUME NEW N, NEW base \in N, NEW s \in [Levels \X N -> N],
               NEW p, \A S \in SUBSET Levels : S # {} => p[S] \in S
        PROVE  \E f \in [SUBSET Levels -> N] : \A S \in SUBSET Levels : Unfolds(f, S, base, p, s)
    BY <2>2, <2>3, FoldExists
  <2> QED BY <1>3, <2>1, <2>3
<1> DEFINE F(S) == IF S = {} THEN 1
                   ELSE (MaxRetries[CHOOSE l \in S : TRUE] + 1) * f[S \ {CHOOSE l \in S : TRUE}]
<1>5. ASSUME NEW S \in SUBSET Levels PROVE f[S] = F(S)
  <2>1. CASE S = {}
    BY <1>4, <2>1 DEF Unfolds
  <2>2. CASE S # {}
    <3>1. PICK x : x = CHOOSE l \in S : TRUE
      OBVIOUS
    <3>2. x \in Levels /\ pick[S] = x
      BY <1>1, <2>2, <3>1
    <3>3. f[S \ {x}] \in Nat
      BY <1>4
    <3>4. step[<<x, f[S \ {x}]>>] = (MaxRetries[x] + 1) * f[S \ {x}]
      BY <3>2, <3>3
    <3>5. f[S] = step[<<x, f[S \ {x}]>>]
      BY <1>4, <2>2, <3>2, Zenon DEF Unfolds
    <3> HIDE DEF pick, step
    <3> QED BY <2>2, <3>1, <3>4, <3>5, Zenon
  <2> QED BY <2>1, <2>2
<1> HIDE DEF F
<1>6. f = [S \in SUBSET Levels |-> F(S)]
  BY <1>4, <1>5
<1> QED BY <1>6, Zenon DEF F, IsProduct

\* In whatever order the levels are taken.
LEMMA ProductTakesAny ==
  ASSUME NEW f, IsProduct(f)
  PROVE  \A S \in SUBSET Levels :
           f[S] \in Nat \ {0} /\ \A x \in S : f[S] = (MaxRetries[x] + 1) * f[S \ {x}]
<1> DEFINE Good(S) == f[S] \in Nat \ {0} /\ \A x \in S : f[S] = (MaxRetries[x] + 1) * f[S \ {x}]
           T == {k \in Nat : \A S \in SUBSET Levels : Cardinality(S) <= k => Good(S)}
<1>1. \A S \in SUBSET Levels : IsFiniteSet(S) /\ Cardinality(S) \in Nat /\ Cardinality(S) <= Cardinality(Levels)
  BY LevelsAre, FS_Subset, FS_CardinalityType
<1>2. \A S \in SUBSET Levels : Cardinality(S) = 0 <=> S = {}
  BY <1>1, FS_EmptySet
<1>3. \A S \in SUBSET Levels : \A x \in S : Cardinality(S \ {x}) = Cardinality(S) - 1
  BY <1>1, FS_RemoveElement
<1>4. \A l \in Levels : MaxRetries[l] \in Nat
  BY RecoveryAssumption DEF Levels
<1>5. \A S \in SUBSET Levels :
        f[S] = IF S = {} THEN 1
               ELSE (MaxRetries[CHOOSE l \in S : TRUE] + 1) * f[S \ {CHOOSE l \in S : TRUE}]
  BY Zenon DEF IsProduct
<1>6. Good({})
  <2>1. {} \in SUBSET Levels
    OBVIOUS
  <2>2. f[{}] = 1
    BY <1>5, <2>1, Zenon
  <2> QED BY <2>2
<1>7. 0 \in T
  <2> HIDE DEF Good
  <2> QED BY <1>1, <1>2, <1>6
<1>8. ASSUME NEW k \in T PROVE k + 1 \in T
  <2>1. k \in Nat /\ \A S \in SUBSET Levels : Cardinality(S) <= k => Good(S)
    OBVIOUS
  <2>2. ASSUME NEW S \in SUBSET Levels, Cardinality(S) <= k + 1, S # {} PROVE Good(S)
    <3>1. PICK c \in S : c = CHOOSE l \in S : TRUE
      BY <2>2
    <3>2. f[S] = (MaxRetries[c] + 1) * f[S \ {c}]
      BY <1>5, <2>2, <3>1, Zenon
    <3>3. \A x \in S : Good(S \ {x})
      <4> HIDE DEF Good, T
      <4> QED BY <1>1, <1>3, <2>1, <2>2
    <3>4. \A x \in S : f[S \ {x}] \in Nat \ {0} /\ MaxRetries[x] \in Nat
      BY <1>4, <3>3
    <3>5. f[S] \in Nat \ {0}
      BY <3>2, <3>4, ProductFacts
    <3>6. ASSUME NEW x \in S, x # c PROVE f[S] = (MaxRetries[x] + 1) * f[S \ {x}]
      <4>1. f[S \ {c}] = (MaxRetries[x] + 1) * f[(S \ {c}) \ {x}]
        BY <3>3, <3>6
      <4>2. f[S \ {x}] = (MaxRetries[c] + 1) * f[(S \ {x}) \ {c}]
        BY <3>3, <3>6
      <4>3. (S \ {x}) \ {c} = (S \ {c}) \ {x}
        OBVIOUS
      <4>4. PICK rest : rest = f[(S \ {c}) \ {x}]
        OBVIOUS
      <4>5. rest \in Nat
        <5>1. Good((S \ {c}) \ {x})
          <6>1. S \ {c} \in SUBSET Levels /\ (S \ {c}) \ {x} \in SUBSET Levels /\ x \in S \ {c}
            BY <3>6
          <6>2. Cardinality((S \ {c}) \ {x}) <= k
            <7> HIDE DEF Good, T
            <7>1. Cardinality(S \ {c}) = Cardinality(S) - 1
              BY <1>3
            <7>2. Cardinality((S \ {c}) \ {x}) = Cardinality(S \ {c}) - 1
              BY <1>3, <6>1
            <7> QED BY <1>1, <2>1, <2>2, <6>1, <7>1, <7>2
          <6> HIDE DEF Good, T
          <6> QED BY <2>1, <6>1, <6>2
        <5> QED BY <4>4, <5>1
      <4>6. MaxRetries[x] + 1 \in Nat /\ MaxRetries[c] + 1 \in Nat
        <5>1. MaxRetries[x] \in Nat /\ MaxRetries[c] \in Nat
          BY <3>4, Zenon
        <5> HIDE DEF Good, T
        <5> QED BY <5>1
      <4>7. PICK p \in Nat, q \in Nat : p = MaxRetries[x] + 1 /\ q = MaxRetries[c] + 1
        BY <4>6
      <4> HIDE DEF Good, T
      <4>8. f[S] = q * (p * rest) /\ f[S \ {x}] = q * rest
        BY <3>2, <4>1, <4>2, <4>3, <4>4, <4>7
      <4>9. q * (p * rest) = p * (q * rest)
        BY <4>5, ProductFacts
      <4> QED BY <4>7, <4>8, <4>9
    <3> QED BY <3>2, <3>5, <3>6
  <2>3. \A S \in SUBSET Levels : Cardinality(S) <= k + 1 => Good(S)
    <3> HIDE DEF Good, T
    <3> QED BY <1>6, <2>2
  <2> HIDE DEF Good
  <2> QED BY <2>1, <2>3
<1> HIDE DEF Good
<1>9. Cardinality(Levels) \in T
  <2>1. T \in SUBSET Nat
    OBVIOUS
  <2> HIDE DEF T
  <2> QED BY <1>1, <1>7, <1>8, <2>1, EveryNumber
<1>10. \A S \in SUBSET Levels : Good(S)
  BY <1>1, <1>9
<1> QED BY <1>10 DEF Good

\* The attempts that the levels from l on allow to one attempt of the level before.
AreWeights(W) ==
  /\ W \in [1 .. Len(MaxRetries) + 1 -> Nat \ {0}]
  /\ W[Len(MaxRetries) + 1] = 1
  /\ \A l \in Levels : W[l] = (MaxRetries[l] + 1) * W[l + 1]
  /\ W[1] = MaxAttempts

LEMMA WeightsExist == \E W : AreWeights(W)
<1> DEFINE n == Len(MaxRetries)
<1>1. PICK f : IsProduct(f) /\ MaxAttempts = f[Levels]
  BY ProductExists, ProductIs, Zenon
<1>2. \A S \in SUBSET Levels :
        f[S] \in Nat \ {0} /\ \A x \in S : f[S] = (MaxRetries[x] + 1) * f[S \ {x}]
  BY <1>1, ProductTakesAny
<1> DEFINE W == [l \in 1 .. n + 1 |-> f[l .. n]]
<1>3. \A l \in 1 .. n + 1 : l .. n \in SUBSET Levels
  BY LevelsAre
<1>4. W \in [1 .. n + 1 -> Nat \ {0}]
  BY <1>2, <1>3
<1>5. W[n + 1] = 1
  <2>1. f[{}] = 1
    <3>1. {} \in SUBSET Levels
      OBVIOUS
    <3> QED BY <1>1, <3>1, Zenon DEF IsProduct
  <2>2. n + 1 .. n = {} /\ W[n + 1] = f[n + 1 .. n]
    BY LevelsAre
  <2> HIDE DEF W
  <2> QED BY <2>1, <2>2
<1>6. ASSUME NEW l \in Levels PROVE W[l] = (MaxRetries[l] + 1) * W[l + 1]
  <2>1. /\ l .. n \in SUBSET Levels /\ l \in l .. n /\ (l .. n) \ {l} = l + 1 .. n
        /\ W[l] = f[l .. n] /\ W[l + 1] = f[l + 1 .. n]
    BY LevelsAre
  <2>2. f[l .. n] = (MaxRetries[l] + 1) * f[(l .. n) \ {l}]
    BY <1>2, <2>1, Zenon
  <2> HIDE DEF W
  <2> QED BY <2>1, <2>2
<1>7. W[1] = MaxAttempts
  <2>1. 1 .. n = Levels /\ W[1] = f[1 .. n]
    BY LevelsAre
  <2> HIDE DEF W
  <2> QED BY <1>1, <2>1
<1> HIDE DEF W
<1> QED BY <1>4, <1>5, <1>6, <1>7 DEF AreWeights

\* The attempts that the retries taken at each level and below stand for.
AreCounts(count, W, taken) ==
  /\ count \in [1 .. Len(MaxRetries) + 1 -> Nat]
  /\ count[Len(MaxRetries) + 1] = 0
  /\ \A l \in Levels : count[l] = taken[l] * W[l + 1] + count[l + 1]

LEMMA CountsStayBelow ==
  ASSUME NEW W, AreWeights(W), NEW taken \in [Levels -> Nat], NEW count,
         AreCounts(count, W, taken), \A l \in Levels : taken[l] <= MaxRetries[l]
  PROVE  \A l \in 1 .. Len(MaxRetries) + 1 : count[l] + 1 <= W[l]
<1> DEFINE n == Len(MaxRetries)
           T == {d \in Nat : d <= n => count[n + 1 - d] + 1 <= W[n + 1 - d]}
<1>1. n \in Nat /\ Levels = 1 .. n /\ \A l \in Levels : MaxRetries[l] \in Nat
  BY LevelsAre, RecoveryAssumption
<1>2. count \in [1 .. n + 1 -> Nat] /\ W \in [1 .. n + 1 -> Nat \ {0}]
  BY DEF AreCounts, AreWeights
<1>3. count[n + 1] = 0 /\ W[n + 1] = 1
  BY DEF AreCounts, AreWeights
<1>4. ASSUME NEW l \in Levels, count[l + 1] + 1 <= W[l + 1] PROVE count[l] + 1 <= W[l]
  <2>1. PICK w \in Nat \ {0}, c \in Nat, r \in Nat, m \in Nat :
               w = W[l + 1] /\ c = count[l + 1] /\ r = taken[l] /\ m = MaxRetries[l]
    <3>1. l + 1 \in 1 .. n + 1
      <4> HIDE DEF T, n
      <4> QED BY <1>1
    <3>2. W[l + 1] \in Nat \ {0} /\ count[l + 1] \in Nat
      BY <1>2, <3>1
    <3>3. taken[l] \in Nat /\ MaxRetries[l] \in Nat
      BY <1>1
    <3> HIDE DEF T, n
    <3> QED BY <3>2, <3>3
  <2>2. r <= m /\ c + 1 <= w
    BY <1>4, <2>1
  <2>3. count[l] = r * w + c /\ W[l] = (m + 1) * w
    BY <2>1 DEF AreCounts, AreWeights
  <2>4. r * w <= m * w /\ (m + 1) * w = m * w + w /\ r * w \in Nat /\ m * w \in Nat
    BY <2>2, ProductFacts
  <2> HIDE DEF n, T
  <2> QED BY <2>2, <2>3, <2>4
<1>5. 0 \in T
  <2>1. n + 1 - 0 = n + 1
    BY <1>1
  <2> HIDE DEF n
  <2> QED BY <1>3, <2>1
<1>6. ASSUME NEW d \in T PROVE d + 1 \in T
  <2>1. d \in Nat
    OBVIOUS
  <2> SUFFICES ASSUME d + 1 <= n
               PROVE  count[n + 1 - (d + 1)] + 1 <= W[n + 1 - (d + 1)]
    BY <2>1
  <2>2. PICK l : l = n - d
    OBVIOUS
  <2>3. l \in Levels /\ n + 1 - (d + 1) = l /\ n + 1 - d = l + 1 /\ d <= n
    <3> HIDE DEF T, n
    <3> QED BY <1>1, <2>1, <2>2
  <2>4. count[l + 1] + 1 <= W[l + 1]
    BY <2>3
  <2>5. count[l] + 1 <= W[l]
    BY <1>4, <2>3, <2>4
  <2> HIDE DEF n, T
  <2> QED BY <2>3, <2>5
<1>7. \A d \in Nat : d \in T
  <2>1. T \in SUBSET Nat
    OBVIOUS
  <2> HIDE DEF T
  <2> QED BY <1>5, <1>6, <2>1, EveryNumber
<1>8. ASSUME NEW l \in 1 .. n + 1 PROVE count[l] + 1 <= W[l]
  <2>1. PICK d : d = n + 1 - l
    OBVIOUS
  <2>2. d \in Nat /\ d <= n /\ n + 1 - d = l
    <3> HIDE DEF T, n
    <3> QED BY <1>1, <2>1
  <2>3. d \in T
    BY <1>7, <2>2
  <2> QED BY <2>2, <2>3
<1> QED BY <1>8

\* A retry at a level is one more, whatever the levels below it had left.
LEMMA RetryCounts ==
  ASSUME NEW W, AreWeights(W), NEW taken \in [Levels -> Nat], NEW count,
         AreCounts(count, W, taken), \A l \in Levels : taken[l] <= MaxRetries[l],
         NEW level \in Levels, NEW after,
         after = [l \in Levels |-> IF l > level THEN 0
                                   ELSE IF l = level THEN taken[l] + 1 ELSE taken[l]]
  PROVE  \E next : AreCounts(next, W, after) /\ count[1] + 1 <= next[1]
<1> DEFINE n == Len(MaxRetries)
           gain == W[level + 1] - count[level + 1]
           next == [l \in 1 .. n + 1 |-> IF l > level THEN 0 ELSE count[l] + gain]
<1>1. n \in Nat /\ Levels = 1 .. n
  BY LevelsAre
<1>2. count \in [1 .. n + 1 -> Nat] /\ W \in [1 .. n + 1 -> Nat \ {0}]
  BY DEF AreCounts, AreWeights
<1>3. level + 1 \in 1 .. n + 1 /\ level \in 1 .. n + 1
  BY <1>1
<1>4. gain \in Nat /\ gain >= 1
  <2>1. count[level + 1] + 1 <= W[level + 1]
    BY <1>3, CountsStayBelow
  <2> QED BY <1>2, <1>3, <2>1
<1>5. next \in [1 .. n + 1 -> Nat]
  <2> HIDE DEF gain, n
  <2> QED BY <1>1, <1>2, <1>3, <1>4
<1>6. next[n + 1] = 0 /\ next[1] = count[1] + gain
  <2> HIDE DEF gain, n
  <2> QED BY <1>1, <1>3
<1>7. ASSUME NEW l \in Levels PROVE next[l] = after[l] * W[l + 1] + next[l + 1]
  <2>0. l \in 1 .. n /\ l \in 1 .. n + 1 /\ l + 1 \in 1 .. n + 1
    BY <1>1
  <2>1. PICK w \in Nat, c \in Nat, r \in Nat :
               w = W[l + 1] /\ c = count[l + 1] /\ r = taken[l]
    BY <1>2, <2>0
  <2>2. count[l] = r * w + c
    BY <2>1 DEF AreCounts
  <2>3. r * w \in Nat /\ (r + 1) * w = r * w + w /\ 0 * w = 0
    BY <2>1, ProductFacts
  <2>4. CASE l > level
    <3>1. after[l] = 0 /\ next[l] = 0 /\ next[l + 1] = 0
      <4> HIDE DEF gain, n
      <4> QED BY <1>1, <1>3, <2>0, <2>4
    <3> HIDE DEF next, gain, n
    <3> QED BY <2>1, <2>3, <3>1
  <2>5. CASE l = level
    <3>1. after[l] = r + 1 /\ next[l] = count[l] + gain /\ next[l + 1] = 0
      <4> HIDE DEF gain, n
      <4> QED BY <1>1, <1>3, <2>0, <2>1, <2>5
    <3>2. gain = w - c
      BY <2>1, <2>5
    <3> HIDE DEF next, gain, n
    <3> QED BY <2>1, <2>2, <2>3, <3>1, <3>2
  <2>6. CASE l < level
    <3>1. after[l] = r /\ next[l] = count[l] + gain /\ next[l + 1] = c + gain
      <4> HIDE DEF gain, n
      <4> QED BY <1>1, <1>3, <2>0, <2>1, <2>6
    <3> HIDE DEF next, gain, n
    <3> QED BY <1>4, <2>1, <2>2, <2>3, <3>1
  <2> QED BY <1>1, <2>4, <2>5, <2>6
<1>8. AreCounts(next, W, after)
  <2> HIDE DEF next
  <2> QED BY <1>5, <1>6, <1>7 DEF AreCounts
<1>9. count[1] + 1 <= next[1]
  <2>1. count[1] \in Nat
    BY <1>1, <1>2
  <2> HIDE DEF next, gain
  <2> QED BY <1>4, <1>6, <2>1
<1> HIDE DEF next
<1> QED BY <1>8, <1>9

-----------------------------------------------------------------------------
(* Attempts at a skill                                                     *)

\* A frame that is missed once too often ends the session.
MissesAreFew ==
  /\ misses <= MaxMissedFrames
  /\ session \in {"testing", "running", "frame", "leaving"} => misses < MaxMissedFrames

\* The skill's task: as long as there is none it has no code, and one that raised
\* leaves none.
LeafOK ==
  /\ leaf.task \in Ended \cup {"none", "running"}
  /\ leaf = [task |-> leaf.task, code |-> leaf.code]
  /\ leaf.task = "none" => leaf = Fresh
  /\ leaf.task = "raised" => leaf.code = ""

TreeTyped ==
  /\ kind \in Kinds
  /\ stage \in 0 .. 7
  /\ retries \in [Levels -> Nat] /\ \A l \in Levels : retries[l] <= MaxRetries[l]
  /\ over \in {"no", "REFUSED", "INVALID", "SUCCESS", "FAILURE", "RAISED"}

\* An attempt for each retry that has been counted, and the one under way.
AttemptsCounted ==
  \E W, count :
    /\ AreWeights(W) /\ AreCounts(count, W, retries)
    /\ attempts \in Nat
    /\ attempts <= count[1] + (IF leaf.task = "none" THEN 0 ELSE 1)

TreeInv == LeafOK /\ TreeTyped /\ AttemptsCounted /\ ~ abandoned

LEMMA MissesStayFew ==
  TrackerInv /\ MissesAreFew /\ [TrackerNext]_trackerVars => MissesAreFew'
<1> SUFFICES ASSUME TrackerInv, MissesAreFew, [TrackerNext]_trackerVars PROVE MissesAreFew'
  OBVIOUS
<1>1. misses \in Nat /\ MaxMissedFrames \in Nat \ {0}
  BY TrackerAssumption DEF TrackerInv, TrackerTypeOK
<1> USE DEF MissesAreFew
<1>2. CASE StartTracking
  BY <1>1, <1>2 DEF StartTracking
<1>3. CASE ResetSession
  BY <1>1, <1>3 DEF ResetSession
<1>4. CASE TestRunning
  BY <1>1, <1>4 DEF TestRunning
<1>5. CASE TestCancelled
  BY <1>1, <1>5 DEF TestCancelled
<1>6. CASE Frame
  <2>1. PICK seen \in BOOLEAN :
          LET lost == ~ seen /\ misses + 1 >= MaxMissedFrames
          IN  /\ session = "frame"
              /\ misses' = IF seen THEN 0 ELSE misses + 1
              /\ session' = IF lost THEN "lost" ELSE "testing"
    BY <1>6 DEF Frame, Sees
  <2> QED BY <1>1, <2>1
<1>7. CASE TrackerRequest
  BY <1>7 DEF TrackerRequest, CancelTracking, CancelReturns, StopTracking
<1>8. CASE UNCHANGED trackerVars
  BY <1>8 DEF trackerVars
<1> QED BY <1>2, <1>3, <1>4, <1>5, <1>6, <1>7, <1>8 DEF TrackerNext, TrackerStep

LEMMA TreeInitInv == RecoveryInit => TreeInv
<1> SUFFICES ASSUME RecoveryInit PROVE TreeInv
  OBVIOUS
<1>1. LeafOK
  BY DEF RecoveryInit, LeafOK, Fresh
<1>2. TreeTyped
  <2>1. \A l \in Levels : MaxRetries[l] \in Nat
    BY RecoveryAssumption DEF Levels
  <2> QED BY <2>1 DEF RecoveryInit, TreeTyped
<1>3. AttemptsCounted
  <2>1. PICK W : AreWeights(W)
    BY WeightsExist
  <2> DEFINE count == [l \in 1 .. Len(MaxRetries) + 1 |-> 0]
  <2>2. AreCounts(count, W, retries)
    <3>1. \A l \in Levels : 0 * W[l + 1] = 0
      <4>1. \A l \in Levels : l + 1 \in 1 .. Len(MaxRetries) + 1
        BY LevelsAre
      <4>2. \A l \in Levels : W[l + 1] \in Nat
        BY <2>1, <4>1 DEF AreWeights
      <4> QED BY <4>2, ProductFacts
    <3>2. /\ count \in [1 .. Len(MaxRetries) + 1 -> Nat] /\ count[Len(MaxRetries) + 1] = 0
          /\ \A l \in Levels : count[l] = 0 /\ count[l + 1] = 0
      BY LevelsAre
    <3>3. \A l \in Levels : retries[l] = 0
      BY DEF RecoveryInit
    <3> HIDE DEF count
    <3> QED BY <3>1, <3>2, <3>3 DEF AreCounts
  <2>3. count[1] = 0
    BY LevelsAre
  <2>4. attempts = 0 /\ leaf.task = "none"
    BY DEF RecoveryInit, Fresh
  <2> HIDE DEF count
  <2> QED BY <2>1, <2>2, <2>3, <2>4 DEF AttemptsCounted
<1>4. ~ abandoned
  BY DEF RecoveryInit
<1> QED BY <1>1, <1>2, <1>3, <1>4 DEF TreeInv

LEMMA StagesAre == Len(Answers) = 8
BY DEF Answers

LEMMA RunKeepsTree == TreeInv /\ Run => TreeInv'
<1> SUFFICES ASSUME TreeInv, Run PROVE TreeInv'
  OBVIOUS
<1>1. /\ leaf.task = "running"
      /\ UNCHANGED <<kind, retries, over, attempts, abandoned>>
  BY DEF Run
<1> DEFINE Returns == \E task, code : /\ Return(task, code)
                                      /\ task \in Ended /\ (task = "raised" => code = "")
<1>2. (leaf' = leaf \/ Returns) /\ stage' \in 0 .. 7
  <2>0. stage \in 0 .. 7
    BY DEF TreeInv, TreeTyped
  <2>1. Returns => stage' \in 0 .. 7
    BY <2>0 DEF Return
  <2>5. \A code : Return("failed", code) => Returns
    <3>1. "failed" \in Ended /\ "failed" # "raised"
      BY DEF Ended
    <3> QED BY <3>1, Zenon
  <2>6. Return("ok", "") \/ Return("raised", "") => Returns
    BY Zenon DEF Ended
  <2> HIDE DEF Returns
  <2>2. CASE Pick
    <3>1. PICK answer \in Answers[stage + 1] :
            IF answer.code # "" THEN Return("failed", answer.code)
            ELSE IF answer.content = "nothing" THEN Return("failed", EmptyCode[stage + 1])
            ELSE IF stage + 1 = 8 THEN Return("ok", "")
            ELSE stage' = stage + 1 /\ UNCHANGED leaf
      BY <2>2, StagesAre DEF Pick
    <3>2. \/ Return("failed", answer.code) \/ Return("failed", EmptyCode[stage + 1])
          \/ Return("ok", "") \/ (stage + 1 # 8 /\ stage' = stage + 1 /\ UNCHANGED leaf)
      BY <3>1, Zenon
    <3>3. stage + 1 # 8 => stage + 1 \in 0 .. 7
      BY <2>0
    <3> QED BY <2>1, <2>5, <2>6, <3>2, <3>3, Zenon
  <2>3. CASE Track
    <3>1. \/ stage' = 1 /\ UNCHANGED leaf
          \/ Return("ok", "") \/ Return("failed", "CANCELLED") \/ Return("failed", "PER_TRACKING_LOST")
      BY <2>3, Zenon DEF Track
    <3>2. (stage' = 1 => stage' \in 0 .. 7) /\ (stage' = stage => stage' \in 0 .. 7)
      BY <2>0
    <3> QED BY <2>1, <2>5, <2>6, <3>1, <3>2, Zenon
  <2>4. CASE Other
    <3>1. Return("ok", "") \/ Return("raised", "") \/ \E code \in Faults : Return("failed", code)
      BY <2>4 DEF Other
    <3> QED BY <2>1, <2>5, <2>6, <3>1, Zenon
  <2> QED BY <2>2, <2>3, <2>4 DEF Run
<1>3. LeafOK' /\ leaf'.task # "none"
  <2>1. CASE leaf' = leaf
    BY <1>1, <2>1 DEF TreeInv, LeafOK
  <2>2. CASE leaf' # leaf
    <3>1. PICK task, code : /\ leaf' = [task |-> task, code |-> code]
                            /\ task \in Ended /\ (task = "raised" => code = "")
      BY <1>2, <2>2 DEF Return
    <3>2. leaf'.task = task /\ leaf'.code = code /\ task # "none"
      BY <3>1 DEF Ended
    <3> QED BY <3>1, <3>2 DEF LeafOK
  <2> QED BY <2>1, <2>2
<1>4. TreeTyped'
  BY <1>1, <1>2 DEF TreeInv, TreeTyped
<1>5. AttemptsCounted'
  <2>1. PICK W, count :
          /\ AreWeights(W) /\ AreCounts(count, W, retries)
          /\ attempts \in Nat /\ attempts <= count[1] + 1
    BY <1>1 DEF TreeInv, AttemptsCounted
  <2>2. AreCounts(count, W, retries)' /\ AreWeights(W)'
    BY <1>1, <2>1 DEF AreCounts, AreWeights
  <2> QED BY <1>1, <1>3, <2>1, <2>2 DEF AttemptsCounted
<1> QED BY <1>1, <1>3, <1>4, <1>5 DEF TreeInv

\* What a tick does to the task and the retries.
LEMMA TickDoes ==
  ASSUME TreeInv, Tick
  PROVE  \/ /\ leaf' = TickLeaf.leaf /\ retries' = retries
            /\ over' \in {"no", "SUCCESS", "FAILURE", "RAISED"}
         \/ \E level \in Levels :
              /\ leaf' = Fresh /\ leaf.task \in {"failed", "raised"} /\ over' = "no"
              /\ retries[level] < MaxRetries[level]
              /\ retries' = [l \in Levels |-> IF l > level THEN 0
                                              ELSE IF l = level THEN retries[l] + 1 ELSE retries[l]]
<1>1. PICK recovery \in [Levels -> RecoveryFn] :
        /\ leaf' = Root(recovery).leaf
        /\ retries' = Root(recovery).retries
        /\ over' = IF Root(recovery).status = "RUNNING" THEN "no" ELSE Root(recovery).status
  BY Zenon DEF Tick, Root
<1>2. recovery \in [Levels -> {"yes", "no", "raises"}]
  BY DEF RecoveryFn
<1>3. retries \in [Levels -> Nat]
  BY DEF TreeInv, TreeTyped
<1>4. Passed(Root(recovery)) \/ Healed(Root(recovery), recovery)
  BY <1>2, <1>3, RootPassesOrHeals
<1>5. TickLeaf.status \in {"SUCCESS", "FAILURE", "RUNNING"} /\ TickLeaf.retries = retries
  BY DEF TickLeaf
<1>6. CASE Passed(Root(recovery))
  <2>1. PICK status \in {TickLeaf.status, "RAISED"} :
          Root(recovery) = [status |-> status, leaf |-> TickLeaf.leaf, retries |-> retries]
    BY <1>6 DEF Passed
  <2>2. /\ Root(recovery).status = status /\ Root(recovery).leaf = TickLeaf.leaf
        /\ Root(recovery).retries = retries
    BY <2>1
  <2> QED BY <1>1, <1>5, <2>2
<1>7. CASE Healed(Root(recovery), recovery)
  <2>1. PICK level \in Levels :
          /\ TickLeaf.status = "FAILURE"
          /\ retries[level] < MaxRetries[level]
          /\ recovery[level] = "yes"
          /\ Root(recovery) = Recovered(level, TickLeaf)
    BY <1>7 DEF Healed
  <2>2. leaf.task \in {"failed", "raised"}
    BY <2>1 DEF TickLeaf, TreeInv, LeafOK, Ended
  <2>3. /\ Root(recovery).status = "RUNNING" /\ Root(recovery).leaf = Fresh
        /\ Root(recovery).retries = [l \in Levels |-> IF l > level THEN 0
                                      ELSE IF l = level THEN retries[l] + 1 ELSE retries[l]]
    BY <1>5, <2>1 DEF Recovered
  <2> QED BY <1>1, <2>1, <2>2, <2>3
<1> QED BY <1>4, <1>6, <1>7

LEMMA TickKeepsTree == TreeInv /\ Tick => TreeInv'
<1> SUFFICES ASSUME TreeInv, Tick PROVE TreeInv'
  OBVIOUS
<1>1. /\ stage' = IF leaf' = Fresh THEN 0 ELSE stage
      /\ attempts' = IF leaf.task = "none" THEN attempts + 1 ELSE attempts
      /\ abandoned' = (abandoned \/ (leaf.task = "running" /\ leaf'.task # "running"))
      /\ kind' = kind
  BY Zenon DEF Tick
<1>2. /\ leaf.task \in Ended \cup {"none", "running"}
      /\ leaf = [task |-> leaf.task, code |-> leaf.code]
      /\ leaf.task = "none" => leaf = Fresh
      /\ leaf.task = "raised" => leaf.code = ""
  BY DEF TreeInv, LeafOK
<1>3. /\ kind \in Kinds /\ stage \in 0 .. 7 /\ retries \in [Levels -> Nat]
      /\ \A l \in Levels : retries[l] <= MaxRetries[l]
  BY DEF TreeInv, TreeTyped
<1>4. ~ abandoned
  BY DEF TreeInv
<1>5. PICK W, count :
        /\ AreWeights(W) /\ AreCounts(count, W, retries)
        /\ attempts \in Nat /\ attempts <= count[1] + (IF leaf.task = "none" THEN 0 ELSE 1)
  BY DEF TreeInv, AttemptsCounted
<1>6. count[1] \in Nat
  BY <1>5, LevelsAre DEF AreCounts
<1>7. AreWeights(W)'
  BY <1>5 DEF AreWeights
<1>8. Fresh.task = "none" /\ Fresh.code = "" /\ Fresh = [task |-> "none", code |-> ""]
  BY DEF Fresh
<1>9. CASE /\ leaf' = TickLeaf.leaf /\ retries' = retries
           /\ over' \in {"no", "SUCCESS", "FAILURE", "RAISED"}
  <2>1. ASSUME leaf.task = "none" PROVE LeafOK' /\ leaf'.task = "running"
    <3>1. leaf' = [task |-> "running", code |-> ""]
      BY <1>9, <2>1 DEF TickLeaf, Fresh
    <3>2. leaf'.task = "running" /\ leaf'.code = ""
      BY <3>1
    <3>3. LeafOK'
      BY <3>1, <3>2 DEF LeafOK
    <3> QED BY <3>2, <3>3
  <2>2. ASSUME leaf.task # "none" PROVE LeafOK' /\ leaf' = leaf
    <3>1. leaf' = leaf
      BY <1>9, <2>2 DEF TickLeaf
    <3> QED BY <1>2, <2>2, <3>1 DEF LeafOK
  <2>3. LeafOK' /\ leaf'.task # "none" /\ leaf' # Fresh
    BY <1>8, <2>1, <2>2
  <2>4. TreeTyped'
    BY <1>1, <1>3, <1>9, <2>3 DEF TreeTyped
  <2>5. leaf.task = "running" => leaf'.task = "running"
    BY <2>2
  <2>6. ~ abandoned'
    BY <1>1, <1>4, <2>3, <2>5
  <2>7. AreCounts(count, W, retries)'
    BY <1>5, <1>9 DEF AreCounts
  <2>8. attempts' \in Nat /\ attempts' <= count[1] + 1
    BY <1>1, <1>5, <1>6
  <2>9. AttemptsCounted'
    BY <1>7, <2>3, <2>7, <2>8 DEF AttemptsCounted
  <2> QED BY <2>3, <2>4, <2>6, <2>9 DEF TreeInv
<1>10. ASSUME NEW level \in Levels,
              leaf' = Fresh, leaf.task \in {"failed", "raised"}, over' = "no",
              retries[level] < MaxRetries[level],
              retries' = [l \in Levels |-> IF l > level THEN 0
                                           ELSE IF l = level THEN retries[l] + 1 ELSE retries[l]]
       PROVE  TreeInv'
  <2>1. LeafOK'
    BY <1>8, <1>10 DEF LeafOK
  <2>2. \A l \in Levels : MaxRetries[l] \in Nat
    BY RecoveryAssumption DEF Levels
  <2>3. retries' \in [Levels -> Nat] /\ \A l \in Levels : retries'[l] <= MaxRetries[l]
    BY <1>3, <1>10, <2>2
  <2>4. TreeTyped'
    BY <1>1, <1>3, <1>10, <2>3 DEF TreeTyped
  <2>5. ~ abandoned'
    BY <1>1, <1>4, <1>10
  <2>6. PICK next : AreCounts(next, W, retries') /\ count[1] + 1 <= next[1]
    <3>1. ASSUME NEW after,
                 after = [l \in Levels |-> IF l > level THEN 0
                                           ELSE IF l = level THEN retries[l] + 1 ELSE retries[l]]
          PROVE  \E next : AreCounts(next, W, after) /\ count[1] + 1 <= next[1]
      BY <1>3, <1>5, <3>1, RetryCounts
    <3> QED BY <1>10, <3>1
  <2>7. next[1] \in Nat
    BY <2>6, LevelsAre DEF AreCounts
  <2>8. attempts' \in Nat /\ attempts' <= next[1] /\ leaf'.task = "none"
    <3>1. attempts' = attempts /\ attempts <= count[1] + 1
      BY <1>1, <1>5, <1>10
    <3>2. leaf'.task = "none"
      BY <1>8, <1>10
    <3> QED BY <1>5, <1>6, <2>6, <2>7, <3>1, <3>2
  <2>9. AttemptsCounted'
    <3>1. AreCounts(next, W, retries)'
      BY <2>6 DEF AreCounts
    <3> QED BY <1>7, <2>7, <2>8, <3>1 DEF AttemptsCounted
  <2> QED BY <2>1, <2>4, <2>5, <2>9 DEF TreeInv
<1> QED BY <1>9, <1>10, TickDoes

LEMMA NextKeepsTree == TreeInv /\ [RecoveryNext]_vars => TreeInv'
<1> SUFFICES ASSUME TreeInv, [RecoveryNext]_vars PROVE TreeInv'
  OBVIOUS
<1>1. ASSUME UNCHANGED <<kind, leaf, stage, retries, attempts, abandoned>>,
             over' \in {over, "REFUSED", "INVALID"}
      PROVE  TreeInv'
  <2>1. LeafOK' /\ TreeTyped'
    BY <1>1 DEF TreeInv, LeafOK, TreeTyped
  <2>2. AttemptsCounted'
    <3>1. PICK W, count :
            /\ AreWeights(W) /\ AreCounts(count, W, retries)
            /\ attempts \in Nat /\ attempts <= count[1] + (IF leaf.task = "none" THEN 0 ELSE 1)
      BY DEF TreeInv, AttemptsCounted
    <3>2. AreWeights(W)' /\ AreCounts(count, W, retries)'
      BY <1>1, <3>1 DEF AreWeights, AreCounts
    <3> QED BY <1>1, <3>1, <3>2 DEF AttemptsCounted
  <2> QED BY <1>1, <2>1, <2>2 DEF TreeInv
<1>2. CASE Submit
  BY <1>1, <1>2 DEF Submit
<1>3. CASE Dispatch
  BY <1>1, <1>3 DEF Dispatch
<1>4. CASE Request
  BY <1>1, <1>4 DEF Request, treeVars
<1>5. CASE TrackOn
  BY <1>1, <1>5 DEF TrackOn, treeVars
<1>6. CASE UNCHANGED vars
  BY <1>1, <1>6 DEF vars, treeVars
<1> QED BY <1>2, <1>3, <1>4, <1>5, <1>6, TickKeepsTree, RunKeepsTree DEF RecoveryNext

LEMMA TreeInvBounds == TreeInv => attempts <= MaxAttempts
<1> SUFFICES ASSUME TreeInv PROVE attempts <= MaxAttempts
  OBVIOUS
<1>1. PICK W, count :
        /\ AreWeights(W) /\ AreCounts(count, W, retries)
        /\ attempts \in Nat /\ attempts <= count[1] + (IF leaf.task = "none" THEN 0 ELSE 1)
  BY DEF TreeInv, AttemptsCounted
<1>2. count[1] \in Nat /\ W[1] \in Nat /\ W[1] = MaxAttempts
  BY <1>1, LevelsAre DEF AreCounts, AreWeights
<1>3. count[1] + 1 <= W[1]
  <2>1. retries \in [Levels -> Nat] /\ \A l \in Levels : retries[l] <= MaxRetries[l]
    BY DEF TreeInv, TreeTyped
  <2>2. 1 \in 1 .. Len(MaxRetries) + 1
    BY LevelsAre
  <2> QED BY <1>1, <2>1, <2>2, CountsStayBelow
<1> QED BY <1>1, <1>2, <1>3

\* For any depth of nesting and any limits of the recovery nodes, and whatever the
\* skill and the recovery functions answer, attempts at the skill follow one
\* another, never more than the limits allow together and none beside a running
\* one (tick, reset).
THEOREM AttemptsFollowOneAnother == RecoverySpec => []RecoveryStateOK
<1> DEFINE Inv == TrackerInv /\ MissesAreFew /\ TreeInv
<1>1. RecoveryInit => Inv
  <2>1. RecoveryInit => MissesAreFew
    BY TrackerAssumption DEF RecoveryInit, TrackerInit, MissesAreFew
  <2> QED BY <2>1, TrackerInitInv, TreeInitInv DEF RecoveryInit
<1>2. Inv /\ [RecoveryNext]_vars => Inv'
  BY TaskKeepsToTracker, TrackerKeepsInv, MissesStayFew, NextKeepsTree
<1>3. Inv => RecoveryStateOK
  <2> SUFFICES ASSUME Inv PROVE RecoveryStateOK
    OBVIOUS
  <2>1. RecoveryTypeOK
    <3>1. misses \in 0 .. MaxMissedFrames /\ running \in BOOLEAN /\ cancelled \in BOOLEAN /\ calling \in BOOLEAN
      BY TrackerAssumption DEF MissesAreFew, TrackerInv, TrackerTypeOK
    <3>2. Len(Answers) - 1 = 7
      BY StagesAre
    <3> QED BY <3>1, <3>2 DEF TreeInv, TreeTyped, LeafOK, RecoveryTypeOK
  <2>2. AttemptsAreBounded
    BY TreeInvBounds DEF AttemptsAreBounded
  <2> QED BY <2>1, <2>2 DEF TreeInv, RecoveryStateOK, NoSkillIsAbandoned
<1> HIDE DEF Inv
<1> QED BY <1>1, <1>2, <1>3, PTL DEF RecoverySpec

-----------------------------------------------------------------------------
(* Lists without repetition                                                *)

\* The elements of a finite set of naturals can be listed in ascending order.
LEMMA AscendingExists ==
  ASSUME NEW S \in SUBSET Nat, IsFiniteSet(S)
  PROVE  \E s \in [1 .. Cardinality(S) -> S] : \A m, n \in DOMAIN s : m < n => s[m] < s[n]
<1> DEFINE below == [i \in S |-> {j \in S : j < i}]
           size == Cardinality(S)
           rank == [i \in S |-> Cardinality(below[i]) + 1]
<1>1. size \in Nat
  BY FS_CardinalityType
<1>2. \A i \in S : IsFiniteSet(below[i]) /\ Cardinality(below[i]) \in Nat
  <2> SUFFICES ASSUME NEW i \in S PROVE IsFiniteSet(below[i]) /\ Cardinality(below[i]) \in Nat
    OBVIOUS
  <2>1. below[i] \in SUBSET S
    OBVIOUS
  <2> QED BY <2>1, FS_Subset, FS_CardinalityType
<1>3. ASSUME NEW i \in S, NEW j \in S, i < j PROVE rank[i] < rank[j]
  <2>1. below[i] \cup {i} \in SUBSET below[j] /\ i \notin below[i]
    <3>1. \A k : (k \in below[i] <=> k \in S /\ k < i) /\ (k \in below[j] <=> k \in S /\ k < j)
      OBVIOUS
    <3> HIDE DEF below, size, rank
    <3>2. i \in Nat /\ j \in Nat /\ \A k \in S : k \in Nat
      OBVIOUS
    <3>3. i \notin below[i] /\ i \in below[j]
      BY <1>3, <3>1, <3>2
    <3>4. ASSUME NEW k \in below[i] PROVE k \in below[j]
      <4>1. k \in S /\ k \in Nat /\ k < i
        BY <3>1, <3>2, <3>4
      <4>2. k < j
        BY <1>3, <3>2, <4>1
      <4> QED BY <3>1, <4>1, <4>2
    <3> QED BY <3>3, <3>4
  <2> HIDE DEF below
  <2>2. IsFiniteSet(below[i] \cup {i}) /\ Cardinality(below[i] \cup {i}) = Cardinality(below[i]) + 1
    BY <1>2, <2>1, FS_AddElement
  <2>3. Cardinality(below[i] \cup {i}) <= Cardinality(below[j])
    BY <1>2, <2>1, FS_Subset
  <2>4. rank[i] = Cardinality(below[i]) + 1 /\ rank[j] = Cardinality(below[j]) + 1
    OBVIOUS
  <2>5. PICK p \in Nat, q \in Nat : p = Cardinality(below[i]) /\ q = Cardinality(below[j])
    BY <1>2
  <2> HIDE DEF rank, size
  <2> QED BY <2>2, <2>3, <2>4, <2>5
<1>4. \A i \in S : rank[i] \in 1 .. size
  <2> SUFFICES ASSUME NEW i \in S PROVE rank[i] \in 1 .. size
    OBVIOUS
  <2>1. below[i] \in SUBSET S /\ below[i] # S
    OBVIOUS
  <2> HIDE DEF below
  <2>2. Cardinality(below[i]) <= size /\ Cardinality(below[i]) # size
    BY <2>1, FS_Subset
  <2>3. rank[i] = Cardinality(below[i]) + 1
    OBVIOUS
  <2> HIDE DEF size, rank
  <2>4. Cardinality(below[i]) \in Nat
    BY <1>2
  <2>5. PICK c : c = Cardinality(below[i])
    OBVIOUS
  <2> HIDE DEF below
  <2> QED BY <1>1, <2>2, <2>3, <2>4, <2>5
<1> HIDE DEF rank
<1>5. rank \in [S -> 1 .. size]
  BY <1>4 DEF rank
<1>6. IsInjective(rank)
  <2> SUFFICES ASSUME NEW i \in S, NEW j \in S, rank[i] = rank[j] PROVE i = j
    BY <1>5 DEF IsInjective
  <2>1. rank[i] \in Nat /\ rank[j] \in Nat /\ i \in Nat /\ j \in Nat
    BY <1>4
  <2> QED BY <1>3, <2>1
<1>7. rank \in Surjection(S, 1 .. size)
  <2>1. rank \in Injection(S, 1 .. size)
    BY <1>5, <1>6 DEF Injection
  <2>2. IsFiniteSet(1 .. size) /\ Cardinality(1 .. size) = size
    <3> HIDE DEF size
    <3> QED BY <1>1, FS_Interval
  <2> QED BY <2>1, <2>2, FS_Injection
<1> DEFINE s == [n \in 1 .. size |-> CHOOSE i \in S : rank[i] = n]
<1>8. \A n \in 1 .. size : s[n] \in S /\ rank[s[n]] = n
  BY <1>7 DEF Surjection
<1>9. s \in [1 .. size -> S]
  BY <1>8
<1> HIDE DEF s
<1>10. ASSUME NEW m \in 1 .. size, NEW n \in 1 .. size, m < n PROVE s[m] < s[n]
  <2>1. s[m] \in S /\ s[n] \in S /\ s[m] \in Nat /\ s[n] \in Nat
    BY <1>8
  <2>2. rank[s[m]] < rank[s[n]] /\ rank[s[m]] \in Nat /\ rank[s[n]] \in Nat
    BY <1>8, <1>10, <1>1
  <2>3. ~ s[n] < s[m] /\ s[m] # s[n]
    BY <1>3, <2>1, <2>2
  <2> QED BY <2>1, <2>3
<1> QED BY <1>9, <1>10

\* Ascending lists each element of a set once.
LEMMA AscendingLists ==
  ASSUME NEW S \in SUBSET Nat, IsFiniteSet(S)
  PROVE  /\ Ascending(S) \in Seq(S)
         /\ IsInjective(Ascending(S))
         /\ ToSet(Ascending(S)) = S
<1>1. PICK s : s = Ascending(S)
  OBVIOUS
<1>2. s \in [1 .. Cardinality(S) -> S] /\ \A m, n \in DOMAIN s : m < n => s[m] < s[n]
  BY <1>1, AscendingExists, Zenon DEF Ascending
<1>3. Cardinality(S) \in Nat
  BY FS_CardinalityType
<1>4. s \in Seq(S)
  BY <1>2, <1>3
<1>5. IsInjective(s)
  <2> SUFFICES ASSUME NEW m \in 1 .. Cardinality(S), NEW n \in 1 .. Cardinality(S), s[m] = s[n]
               PROVE  m = n
    BY <1>2 DEF IsInjective
  <2>1. s[m] \in Nat /\ s[n] \in Nat
    BY <1>2
  <2>2. ~ m < n /\ ~ n < m
    BY <1>2, <2>1
  <2> QED BY <1>3, <2>2
<1>6. s \in Surjection(1 .. Cardinality(S), S)
  <2>1. s \in Injection(1 .. Cardinality(S), S)
    BY <1>2, <1>5 DEF Injection
  <2>2. Cardinality(1 .. Cardinality(S)) = Cardinality(S)
    BY <1>3, FS_Interval
  <2> QED BY <2>1, <2>2, FS_Injection
<1>7. ToSet(s) = S
  BY <1>2, <1>6 DEF Surjection, ToSet
<1> QED BY <1>1, <1>4, <1>5, <1>7

\* A sequence without repetition is as long as the set of its elements.
LEMMA LengthCounts ==
  ASSUME NEW N \in Nat, NEW s \in Seq(1 .. N), IsInjective(s)
  PROVE  Len(s) <= N /\ (Len(s) = N <=> ToSet(s) = 1 .. N)
<1>1. Len(s) \in Nat /\ s \in [1 .. Len(s) -> 1 .. N] /\ DOMAIN s = 1 .. Len(s)
  OBVIOUS
<1>2. s \in Injection(1 .. Len(s), 1 .. N)
  BY <1>1 DEF Injection
<1>3. \A k \in Nat : IsFiniteSet(1 .. k) /\ Cardinality(1 .. k) = k
  BY FS_Interval
<1>4. Len(s) <= N /\ (Len(s) = N <=> s \in Surjection(1 .. Len(s), 1 .. N))
  BY <1>2, <1>3, FS_Injection
<1>5. s \in Surjection(1 .. Len(s), 1 .. N) <=> ToSet(s) = 1 .. N
  BY <1>1 DEF Surjection, ToSet
<1> QED BY <1>4, <1>5

\* How they are put together, and taken apart.
LEMMA ConcatKeeps ==
  ASSUME NEW S, NEW s \in Seq(S), NEW t \in Seq(S), IsInjective(s), IsInjective(t),
         ToSet(s) \cap ToSet(t) = {}
  PROVE  /\ s \o t \in Seq(S)
         /\ IsInjective(s \o t)
         /\ ToSet(s \o t) = ToSet(s) \cup ToSet(t)
<1>1. PICK r : r = s \o t
  OBVIOUS
<1>2. /\ r \in Seq(S) /\ DOMAIN r = 1 .. Len(s) + Len(t) /\ Len(s) \in Nat /\ Len(t) \in Nat
      /\ DOMAIN s = 1 .. Len(s) /\ DOMAIN t = 1 .. Len(t)
  BY <1>1
<1>3. /\ \A i \in 1 .. Len(s) : r[i] = s[i] /\ r[i] \in ToSet(s)
      /\ \A i \in 1 .. Len(t) : r[Len(s) + i] = t[i]
  <2>1. \A i \in 1 .. Len(s) + Len(t) : r[i] = IF i <= Len(s) THEN s[i] ELSE t[i - Len(s)]
    BY <1>1, ConcatProperties
  <2>2. ASSUME NEW i \in 1 .. Len(s) PROVE r[i] = s[i] /\ r[i] \in ToSet(s)
    <3>1. i \in 1 .. Len(s) + Len(t) /\ i <= Len(s)
      BY <1>2
    <3>2. r[i] = s[i]
      BY <2>1, <3>1
    <3> QED BY <1>2, <3>2 DEF ToSet
  <2>3. ASSUME NEW i \in 1 .. Len(t) PROVE r[Len(s) + i] = t[i]
    <3>1. /\ Len(s) + i \in 1 .. Len(s) + Len(t) /\ ~ Len(s) + i <= Len(s)
          /\ (Len(s) + i) - Len(s) = i
      BY <1>2
    <3> QED BY <2>1, <3>1
  <2> QED BY <2>2, <2>3
<1>4. \A i \in 1 .. Len(s) + Len(t) :
        i \notin 1 .. Len(s) => i - Len(s) \in 1 .. Len(t) /\ r[i] = t[i - Len(s)] /\ r[i] \in ToSet(t)
  <2> SUFFICES ASSUME NEW i \in 1 .. Len(s) + Len(t), i \notin 1 .. Len(s)
               PROVE  i - Len(s) \in 1 .. Len(t) /\ r[i] = t[i - Len(s)] /\ r[i] \in ToSet(t)
    OBVIOUS
  <2>1. i - Len(s) \in 1 .. Len(t) /\ Len(s) + (i - Len(s)) = i
    BY <1>2
  <2>2. r[i] = t[i - Len(s)]
    BY <1>3, <2>1
  <2> QED BY <1>2, <2>1, <2>2 DEF ToSet
<1>5. IsInjective(r)
  <2> SUFFICES ASSUME NEW i \in 1 .. Len(s) + Len(t), NEW j \in 1 .. Len(s) + Len(t), r[i] = r[j]
               PROVE  i = j
    BY <1>2 DEF IsInjective
  <2>1. CASE i \in 1 .. Len(s) /\ j \in 1 .. Len(s)
    BY <1>2, <1>3, <2>1 DEF IsInjective
  <2>2. CASE i \notin 1 .. Len(s) /\ j \notin 1 .. Len(s)
    <3>1. i - Len(s) = j - Len(s)
      BY <1>2, <1>4, <2>2, Zenon DEF IsInjective
    <3> QED BY <1>2, <3>1
  <2>3. CASE ~ (i \in 1 .. Len(s) <=> j \in 1 .. Len(s))
    BY <1>3, <1>4, <2>3
  <2> QED BY <2>1, <2>2, <2>3
<1>6. ToSet(r) = ToSet(s) \cup ToSet(t)
  <2>1. \A x : x \in ToSet(r) => x \in ToSet(s) \cup ToSet(t)
    BY <1>2, <1>3, <1>4 DEF ToSet
  <2>2. \A x \in ToSet(s) : x \in ToSet(r)
    <3>1. \A i \in 1 .. Len(s) : i \in 1 .. Len(s) + Len(t)
      BY <1>2
    <3> QED BY <1>2, <1>3, <3>1 DEF ToSet
  <2>3. \A x \in ToSet(t) : x \in ToSet(r)
    <3>1. \A i \in 1 .. Len(t) : Len(s) + i \in 1 .. Len(s) + Len(t)
      BY <1>2
    <3> QED BY <1>2, <1>3, <3>1 DEF ToSet
  <2> QED BY <2>1, <2>2, <2>3
<1> QED BY <1>1, <1>2, <1>5, <1>6

LEMMA TailKeeps ==
  ASSUME NEW S, NEW s \in Seq(S), s # <<>>, IsInjective(s)
  PROVE  /\ Head(s) \in S /\ Head(s) \in ToSet(s)
         /\ Tail(s) \in Seq(S)
         /\ IsInjective(Tail(s))
         /\ ToSet(Tail(s)) = ToSet(s) \ {Head(s)}
<1>1. PICK r : r = Tail(s)
  OBVIOUS
<1>2. Len(s) \in Nat \ {0} /\ DOMAIN s = 1 .. Len(s) /\ Head(s) = s[1]
  OBVIOUS
<1>3. r \in Seq(S) /\ DOMAIN r = 1 .. Len(s) - 1 /\ \A i \in 1 .. Len(s) - 1 : r[i] = s[i + 1]
  BY <1>1, <1>2
<1>4. IsInjective(r)
  <2> SUFFICES ASSUME NEW i \in 1 .. Len(s) - 1, NEW j \in 1 .. Len(s) - 1, r[i] = r[j] PROVE i = j
    BY <1>3 DEF IsInjective
  <2>1. i + 1 \in 1 .. Len(s) /\ j + 1 \in 1 .. Len(s) /\ s[i + 1] = s[j + 1]
    BY <1>2, <1>3
  <2>2. i + 1 = j + 1
    BY <1>2, <2>1 DEF IsInjective
  <2> QED BY <2>2
<1>5. ToSet(r) = ToSet(s) \ {Head(s)}
  <2>1. \A i \in 1 .. Len(s) - 1 : i + 1 \in 1 .. Len(s) /\ i + 1 # 1 /\ 1 \in 1 .. Len(s)
    BY <1>2
  <2>2. \A x \in ToSet(r) : x \in ToSet(s) /\ x # Head(s)
    BY <1>2, <1>3, <2>1 DEF ToSet, IsInjective
  <2>3. ASSUME NEW x \in ToSet(s), x # Head(s) PROVE x \in ToSet(r)
    <3>1. PICK i \in 1 .. Len(s) : s[i] = x
      BY <1>2 DEF ToSet
    <3>2. i - 1 \in 1 .. Len(s) - 1 /\ (i - 1) + 1 = i
      BY <1>2, <2>3, <3>1
    <3>3. r[i - 1] = x
      BY <1>3, <3>1, <3>2
    <3> QED BY <1>3, <3>2, <3>3 DEF ToSet
  <2> QED BY <2>2, <2>3
<1>6. Head(s) \in S /\ Head(s) \in ToSet(s)
  <2>1. 1 \in DOMAIN s
    BY <1>2
  <2> QED BY <1>2, <2>1 DEF ToSet
<1> QED BY <1>1, <1>3, <1>4, <1>5, <1>6

LEMMA AppendKeeps ==
  ASSUME NEW S, NEW s \in Seq(S), NEW x \in S, IsInjective(s), x \notin ToSet(s)
  PROVE  /\ Append(s, x) \in Seq(S) /\ Len(Append(s, x)) = Len(s) + 1
         /\ IsInjective(Append(s, x))
         /\ ToSet(Append(s, x)) = ToSet(s) \cup {x}
         /\ \A i \in 1 .. Len(s) : Append(s, x)[i] = s[i]
         /\ Append(s, x)[Len(s) + 1] = x
<1>1. PICK r : r = Append(s, x)
  OBVIOUS
<1>2. /\ Len(s) \in Nat /\ DOMAIN s = 1 .. Len(s) /\ r \in Seq(S) /\ Len(r) = Len(s) + 1
      /\ DOMAIN r = 1 .. Len(s) + 1
      /\ \A i \in 1 .. Len(s) : r[i] = s[i]
      /\ r[Len(s) + 1] = x
  BY <1>1
<1>3. \A i \in 1 .. Len(s) : s[i] \in ToSet(s) /\ s[i] # x
  BY <1>2 DEF ToSet
<1>4. \A i \in 1 .. Len(s) + 1 : i \in 1 .. Len(s) \/ i = Len(s) + 1
  BY <1>2
<1>5. IsInjective(r)
  <2> SUFFICES ASSUME NEW i \in 1 .. Len(s) + 1, NEW j \in 1 .. Len(s) + 1, r[i] = r[j] PROVE i = j
    BY <1>2 DEF IsInjective
  <2>1. CASE i \in 1 .. Len(s) /\ j \in 1 .. Len(s)
    BY <1>2, <2>1 DEF IsInjective
  <2> QED BY <1>2, <1>3, <1>4, <2>1
<1>6. ToSet(r) = ToSet(s) \cup {x}
  <2>1. \A y \in ToSet(r) : y \in ToSet(s) \cup {x}
    BY <1>2, <1>3, <1>4 DEF ToSet
  <2>2. Len(s) + 1 \in 1 .. Len(s) + 1 /\ \A i \in 1 .. Len(s) : i \in 1 .. Len(s) + 1
    BY <1>2
  <2>3. \A y \in ToSet(s) \cup {x} : y \in ToSet(r)
    BY <1>2, <2>2 DEF ToSet
  <2> QED BY <2>1, <2>3
<1> QED BY <1>1, <1>2, <1>5, <1>6

-----------------------------------------------------------------------------
(* A plan's nodes in the order of their dependencies                       *)

\* A plan whose lists are lists, and one that depends on no node it lacks.
WellFormed(graph) ==
  /\ Len(graph) \in Nat /\ DOMAIN graph = 1 .. Len(graph)
  /\ \A i \in DOMAIN graph :
       Len(graph[i].deps) \in Nat /\ DOMAIN graph[i].deps = 1 .. Len(graph[i].deps)

Closed(graph) ==
  WellFormed(graph) /\ \A i \in DOMAIN graph : ToSet(graph[i].deps) \subseteq Ids(graph)

\* The dependencies of an id that have not been taken.
Open(graph, k, done) == {e \in Edges(graph, k) : Source(graph, e) \notin done}

\* Kahn's algorithm between two turns: the nodes taken and the nodes waiting
\* are the ones whose dependencies have been taken, each once; a node is taken
\* after its dependencies, and the others count the dependencies they still have.
Kahn(graph, st) ==
  /\ st.queue \in Seq(Keys(graph)) /\ IsInjective(st.queue)
  /\ st.ordered \in Seq(Keys(graph)) /\ IsInjective(st.ordered)
  /\ ToSet(st.queue) \cap ToSet(st.ordered) = {}
  /\ st.degree = [k \in Keys(graph) |-> Cardinality(Open(graph, k, ToSet(st.ordered)))]
  /\ \A k \in Keys(graph) :
       k \in ToSet(st.queue) \cup ToSet(st.ordered) <=> Open(graph, k, ToSet(st.ordered)) = {}
  /\ \A m \in DOMAIN st.ordered : \A e \in Edges(graph, st.ordered[m]) :
       \E l \in 1 .. m - 1 : st.ordered[l] = Source(graph, e)

LEMMA NodesAreFinite ==
  ASSUME NEW n \in Nat, NEW T \in SUBSET (1 .. n)
  PROVE  IsFiniteSet(T) /\ T \in SUBSET Nat
<1>1. IsFiniteSet(1 .. n)
  BY FS_Interval
<1>2. IsFiniteSet(T)
  BY <1>1, FS_Subset
<1>3. T \in SUBSET Nat
  OBVIOUS
<1> QED BY <1>2, <1>3

\* Each id has one key, the position of its first node.
LEMMA KeysAre ==
  ASSUME NEW graph, WellFormed(graph)
  PROVE  /\ Keys(graph) \subseteq 1 .. Len(graph)
         /\ \A id \in Ids(graph) : KeyOf(graph, id) \in Keys(graph) /\ graph[KeyOf(graph, id)].id = id
         /\ \A k, l \in Keys(graph) : graph[k].id = graph[l].id => k = l
         /\ Keys(graph) = 1 .. Len(graph) <=> ~ Repeated(graph)
<1>1. PICK N : N = Len(graph)
  OBVIOUS
<1>2. N \in Nat /\ DOMAIN graph = 1 .. N
  BY <1>1 DEF WellFormed
<1>3. \A k : k \in Keys(graph) <=> k \in 1 .. N /\ \A i \in 1 .. k - 1 : graph[i].id # graph[k].id
  BY <1>2 DEF Keys
<1>4. ASSUME NEW id \in Ids(graph)
      PROVE  KeyOf(graph, id) \in Keys(graph) /\ graph[KeyOf(graph, id)].id = id
  <2>1. PICK T : T = {i \in 1 .. N : graph[i].id = id}
    OBVIOUS
  <2>2. T \in SUBSET Nat /\ T # {}
    <3>1. \E i \in 1 .. N : graph[i].id = id
      BY <1>2 DEF Ids
    <3>2. T \subseteq 1 .. N /\ 1 .. N \subseteq Nat
      BY <1>2, <2>1
    <3> QED BY <2>1, <3>1, <3>2
  <2>3. \E x \in T : \A y \in T : x <= y
    BY <2>2, LeastElement
  <2>4. PICK x : x = KeyOf(graph, id)
    OBVIOUS
  <2>5. x = CHOOSE m \in T : \A y \in T : m <= y
    BY <1>2, <2>1, <2>4 DEF KeyOf, Min
  <2>6. x \in T /\ \A y \in T : x <= y
    BY <2>3, <2>5, Zenon
  <2>7. ASSUME NEW i \in 1 .. x - 1 PROVE graph[i].id # graph[x].id
    <3>1. i \in 1 .. N /\ ~ x <= i
      BY <1>2, <2>1, <2>6
    <3> QED BY <2>1, <2>6, <3>1
  <2>8. x \in Keys(graph) /\ graph[x].id = id
    BY <1>3, <2>1, <2>6, <2>7
  <2> QED BY <2>4, <2>8
<1>5. ASSUME NEW k \in Keys(graph), NEW l \in Keys(graph), graph[k].id = graph[l].id PROVE k = l
  <2>1. k \in 1 .. N /\ l \in 1 .. N
    BY <1>3
  <2>2. k \notin 1 .. l - 1 /\ l \notin 1 .. k - 1
    BY <1>3, <1>5
  <2> QED BY <1>2, <2>1, <2>2
<1>6. ASSUME Keys(graph) = 1 .. N, Repeated(graph) PROVE FALSE
  <2>1. PICK i, j \in 1 .. N : i # j /\ graph[i].id = graph[j].id
    BY <1>2, <1>6 DEF Repeated
  <2> QED BY <1>5, <1>6, <2>1
<1>7. ASSUME ~ Repeated(graph) PROVE Keys(graph) = 1 .. N
  <2>1. ASSUME NEW k \in 1 .. N, NEW i \in 1 .. k - 1 PROVE graph[i].id # graph[k].id
    <3>1. i \in 1 .. N /\ i # k
      BY <1>2
    <3> QED BY <1>2, <1>7, <3>1 DEF Repeated
  <2>2. \A k \in 1 .. N : k \in Keys(graph)
    BY <1>3, <2>1
  <2> QED BY <1>3, <2>2
<1> QED BY <1>1, <1>3, <1>4, <1>5, <1>6, <1>7

\* An edge is a place in the list of one of the nodes with its id, and comes from
\* the key of the id in that place.
LEMMA EdgesAre ==
  ASSUME NEW graph, Closed(graph), NEW k \in DOMAIN graph
  PROVE  /\ \A e \in Edges(graph, k) :
              /\ e[1] \in DOMAIN graph /\ graph[e[1]].id = graph[k].id
              /\ e[2] \in DOMAIN graph[e[1]].deps
              /\ Source(graph, e) \in Keys(graph)
              /\ graph[Source(graph, e)].id = graph[e[1]].deps[e[2]]
         /\ \A i \in DOMAIN graph : graph[i].id = graph[k].id =>
              \A d \in DOMAIN graph[i].deps :
                \E e \in Edges(graph, k) : graph[Source(graph, e)].id = graph[i].deps[d]
<1>1. \A e \in Edges(graph, k) : \E i \in DOMAIN graph : \E d \in DOMAIN graph[i].deps :
        graph[i].id = graph[k].id /\ e = <<i, d>>
  BY DEF Edges
<1>2. \A i \in DOMAIN graph : graph[i].id = graph[k].id =>
        \A d \in DOMAIN graph[i].deps : <<i, d>> \in Edges(graph, k)
  BY DEF Edges
<1>3. \A i \in DOMAIN graph : \A d \in DOMAIN graph[i].deps :
        /\ Source(graph, <<i, d>>) \in Keys(graph)
        /\ graph[Source(graph, <<i, d>>)].id = graph[i].deps[d]
  <2> SUFFICES ASSUME NEW i \in DOMAIN graph, NEW d \in DOMAIN graph[i].deps
               PROVE  /\ Source(graph, <<i, d>>) \in Keys(graph)
                      /\ graph[Source(graph, <<i, d>>)].id = graph[i].deps[d]
    OBVIOUS
  <2>1. graph[i].deps[d] \in Ids(graph)
    BY DEF Closed, ToSet
  <2>2. Source(graph, <<i, d>>) = KeyOf(graph, graph[i].deps[d])
    BY DEF Source
  <2> QED BY <2>1, <2>2, KeysAre DEF Closed
<1>4. ASSUME NEW e \in Edges(graph, k)
      PROVE  /\ e[1] \in DOMAIN graph /\ graph[e[1]].id = graph[k].id
             /\ e[2] \in DOMAIN graph[e[1]].deps
             /\ Source(graph, e) \in Keys(graph)
             /\ graph[Source(graph, e)].id = graph[e[1]].deps[e[2]]
  <2>1. PICK i \in DOMAIN graph :
          \E d \in DOMAIN graph[i].deps : graph[i].id = graph[k].id /\ e = <<i, d>>
    BY <1>1
  <2>2. PICK d \in DOMAIN graph[i].deps : graph[i].id = graph[k].id /\ e = <<i, d>>
    BY <2>1
  <2>3. e[1] = i /\ e[2] = d
    BY <2>2
  <2> QED BY <1>3, <2>2, <2>3
<1>5. ASSUME NEW i \in DOMAIN graph, graph[i].id = graph[k].id, NEW d \in DOMAIN graph[i].deps
      PROVE  \E e \in Edges(graph, k) : graph[Source(graph, e)].id = graph[i].deps[d]
  BY <1>2, <1>3, <1>5
<1> QED BY <1>4, <1>5

LEMMA EdgesAreFinite ==
  ASSUME NEW graph, WellFormed(graph), NEW k \in DOMAIN graph
  PROVE  IsFiniteSet(Edges(graph, k))
<1> DEFINE part == [i \in DOMAIN graph |-> {i} \X DOMAIN graph[i].deps]
           parts == {part[i] : i \in DOMAIN graph}
<1>1. IsFiniteSet(DOMAIN graph) /\ \A n \in Nat : IsFiniteSet(1 .. n)
  BY FS_Interval DEF WellFormed
<1>2. IsFiniteSet(parts)
  <2>1. part \in Surjection(DOMAIN graph, parts)
    BY DEF Surjection
  <2> HIDE DEF part, parts
  <2> QED BY <1>1, <2>1, FS_Surjection
<1>3. \A i \in DOMAIN graph : IsFiniteSet(part[i])
  <2> SUFFICES ASSUME NEW i \in DOMAIN graph PROVE IsFiniteSet({i} \X DOMAIN graph[i].deps)
    OBVIOUS
  <2>1. IsFiniteSet(DOMAIN graph[i].deps)
    BY <1>1 DEF WellFormed
  <2>2. IsFiniteSet({i})
    BY FS_Singleton
  <2> QED BY <2>1, <2>2, FS_Product
<1>4. IsFiniteSet(UNION parts)
  <2>1. \A T \in parts : IsFiniteSet(T)
    BY <1>3
  <2> HIDE DEF parts
  <2> QED BY <1>2, <2>1, FS_UNION
<1>5. Edges(graph, k) \in SUBSET UNION parts
  BY DEF Edges
<1> HIDE DEF parts
<1> QED BY <1>4, <1>5, FS_Subset

\* The edges that are open after one more node are those before, less its own.
LEMMA OpenEdges ==
  ASSUME NEW graph, Closed(graph), NEW k \in Keys(graph), NEW done
  PROVE  /\ Cardinality(Open(graph, k, done)) \in Nat
         /\ Cardinality(Open(graph, k, done)) = 0 <=> Open(graph, k, done) = {}
         /\ \A now : now \notin done =>
              Cardinality(Open(graph, k, done \cup {now}))
                = Cardinality(Open(graph, k, done)) - Cardinality(EdgesFrom(graph, now, k))
<1>1. k \in DOMAIN graph
  BY DEF Keys
<1>2. IsFiniteSet(Edges(graph, k))
  BY <1>1, EdgesAreFinite DEF Closed
<1>3. PICK open : open = Open(graph, k, done)
  OBVIOUS
<1>4. IsFiniteSet(open)
  BY <1>2, <1>3, FS_Subset DEF Open
<1>5. Cardinality(open) \in Nat /\ (Cardinality(open) = 0 <=> open = {})
  BY <1>4, FS_CardinalityType, FS_EmptySet
<1>6. ASSUME NEW now, now \notin done
      PROVE  Cardinality(Open(graph, k, done \cup {now}))
               = Cardinality(open) - Cardinality(EdgesFrom(graph, now, k))
  <2>1. PICK own : own = EdgesFrom(graph, now, k)
    OBVIOUS
  <2>2. Open(graph, k, done \cup {now}) = open \ own /\ open \cap own = own
    BY <1>3, <1>6, <2>1 DEF Open, EdgesFrom
  <2> QED BY <1>4, <2>1, <2>2, FS_Difference
<1> QED BY <1>3, <1>5, <1>6

LEMMA KahnBegins ==
  ASSUME NEW graph, Closed(graph),
         NEW st, st = [queue |-> Ready(graph),
                       degree |-> [k \in Keys(graph) |-> Cardinality(Edges(graph, k))],
                       ordered |-> <<>>]
  PROVE  Kahn(graph, st)
<1>1. PICK free : free = {k \in Keys(graph) : Edges(graph, k) = {}}
  OBVIOUS
<1>2. free \in SUBSET Nat /\ free \subseteq Keys(graph) /\ IsFiniteSet(free)
  <2>1. free \subseteq Keys(graph)
    BY <1>1
  <2>2. Keys(graph) \subseteq 1 .. Len(graph) /\ Len(graph) \in Nat
    BY KeysAre DEF Closed, WellFormed
  <2>3. free \in SUBSET (1 .. Len(graph))
    BY <2>1, <2>2, Zenon
  <2>4. IsFiniteSet(free) /\ free \in SUBSET Nat
    BY <2>2, <2>3, NodesAreFinite, Zenon
  <2> QED BY <2>1, <2>4
<1>3. /\ st.queue = Ascending(free) /\ st.ordered = <<>>
      /\ st.degree = [k \in Keys(graph) |-> Cardinality(Edges(graph, k))]
  BY <1>1 DEF Ready
<1>4. st.queue \in Seq(free) /\ IsInjective(st.queue) /\ ToSet(st.queue) = free
  BY <1>2, <1>3, AscendingLists
<1>5. st.queue \in Seq(Keys(graph))
  BY <1>2, <1>4, SeqMonotonic
<1>6. ToSet(st.ordered) = {} /\ DOMAIN st.ordered = {} /\ IsInjective(st.ordered)
      /\ st.ordered \in Seq(Keys(graph))
  BY <1>3 DEF ToSet, IsInjective
<1>7. \A k : Open(graph, k, ToSet(st.ordered)) = Edges(graph, k)
  BY <1>6 DEF Open
<1> QED BY <1>1, <1>3, <1>4, <1>5, <1>6, <1>7 DEF Kahn

LEMMA KahnGoesOn ==
  ASSUME NEW graph, Closed(graph), NEW st, Kahn(graph, st), st.queue # <<>>
  PROVE  /\ Kahn(graph, Turn(graph, st))
         /\ Len(Turn(graph, st).ordered) = Len(st.ordered) + 1
<1>1. PICK now : now = Head(st.queue)
  OBVIOUS
<1>2. PICK degree : degree = [k \in Keys(graph) |->
                                st.degree[k] - Cardinality(EdgesFrom(graph, now, k))]
  OBVIOUS
<1>3. PICK free : free = {k \in Keys(graph) : EdgesFrom(graph, now, k) # {} /\ degree[k] = 0}
  OBVIOUS
<1>4. PICK next : next = Turn(graph, st)
  OBVIOUS
<1>5. /\ next.queue = Tail(st.queue) \o Ascending(free)
      /\ next.degree = degree
      /\ next.ordered = Append(st.ordered, now)
  <2>1. next = [queue |-> Tail(st.queue) \o Ascending(free),
                degree |-> degree, ordered |-> Append(st.ordered, now)]
    BY <1>1, <1>2, <1>3, <1>4, Zenon DEF Turn
  <2> QED BY <2>1
<1>6. PICK done, waiting : done = ToSet(st.ordered) /\ waiting = ToSet(st.queue)
  OBVIOUS
<1>7. /\ st.queue \in Seq(Keys(graph)) /\ IsInjective(st.queue)
      /\ st.ordered \in Seq(Keys(graph)) /\ IsInjective(st.ordered)
      /\ waiting \cap done = {}
      /\ \A k \in Keys(graph) : st.degree[k] = Cardinality(Open(graph, k, done))
      /\ \A k \in Keys(graph) : k \in waiting \cup done <=> Open(graph, k, done) = {}
      /\ \A m \in DOMAIN st.ordered : \A e \in Edges(graph, st.ordered[m]) :
           \E l \in 1 .. m - 1 : st.ordered[l] = Source(graph, e)
  BY <1>6 DEF Kahn
<1>8. /\ now \in Keys(graph) /\ now \in waiting /\ now \notin done
      /\ Tail(st.queue) \in Seq(Keys(graph)) /\ IsInjective(Tail(st.queue))
      /\ ToSet(Tail(st.queue)) = waiting \ {now}
  BY <1>1, <1>6, <1>7, TailKeeps
<1>9. /\ next.ordered \in Seq(Keys(graph)) /\ IsInjective(next.ordered)
      /\ Len(next.ordered) = Len(st.ordered) + 1
      /\ ToSet(next.ordered) = done \cup {now}
      /\ \A i \in 1 .. Len(st.ordered) : next.ordered[i] = st.ordered[i]
      /\ next.ordered[Len(st.ordered) + 1] = now
  BY <1>5, <1>6, <1>7, <1>8, AppendKeeps
<1>10. \A k \in Keys(graph) : degree[k] = Cardinality(Open(graph, k, done \cup {now}))
  BY <1>2, <1>7, <1>8, OpenEdges
<1>11. \A k \in Keys(graph) :
         k \in free <=> EdgesFrom(graph, now, k) # {} /\ Open(graph, k, done \cup {now}) = {}
  <2>1. ASSUME NEW k \in Keys(graph)
        PROVE  degree[k] = 0 <=> Open(graph, k, done \cup {now}) = {}
    <3>1. degree[k] = Cardinality(Open(graph, k, done \cup {now}))
      BY <1>10
    <3>2. Cardinality(Open(graph, k, done \cup {now})) = 0 <=> Open(graph, k, done \cup {now}) = {}
      BY OpenEdges
    <3> QED BY <3>1, <3>2
  <2> QED BY <1>3, <2>1
<1>12. /\ Ascending(free) \in Seq(Keys(graph)) /\ IsInjective(Ascending(free))
       /\ ToSet(Ascending(free)) = free
  <2>1. free \in SUBSET (1 .. Len(graph)) /\ Len(graph) \in Nat
    BY <1>3, KeysAre DEF Closed, WellFormed
  <2>2. free \in SUBSET Nat /\ IsFiniteSet(free) /\ free \subseteq Keys(graph)
    BY <1>3, <2>1, NodesAreFinite
  <2>3. Ascending(free) \in Seq(free)
    BY <2>2, AscendingLists
  <2> QED BY <2>2, <2>3, AscendingLists, SeqMonotonic
<1>13. \A k \in Keys(graph) :
         /\ EdgesFrom(graph, now, k) # {} => Open(graph, k, done) # {}
         /\ EdgesFrom(graph, now, k) = {} => Open(graph, k, done \cup {now}) = Open(graph, k, done)
         /\ Open(graph, k, done) = {} => Open(graph, k, done \cup {now}) = {}
  BY <1>8 DEF Open, EdgesFrom
<1>14. free \cap (waiting \cup done) = {} /\ now \notin free
  <2>1. \A k \in free : k \in Keys(graph) /\ Open(graph, k, done) # {}
    BY <1>3, <1>13
  <2> QED BY <1>7, <1>8, <2>1
<1>15. /\ next.queue \in Seq(Keys(graph)) /\ IsInjective(next.queue)
       /\ ToSet(next.queue) = (waiting \ {now}) \cup free
  <2>1. ToSet(Tail(st.queue)) \cap ToSet(Ascending(free)) = {}
    BY <1>8, <1>12, <1>14
  <2>2. PICK tail, list : tail = Tail(st.queue) /\ list = Ascending(free)
    OBVIOUS
  <2>3. /\ tail \in Seq(Keys(graph)) /\ IsInjective(tail) /\ ToSet(tail) = waiting \ {now}
        /\ list \in Seq(Keys(graph)) /\ IsInjective(list) /\ ToSet(list) = free
        /\ ToSet(tail) \cap ToSet(list) = {}
    BY <1>8, <1>12, <2>1, <2>2
  <2>4. next.queue = tail \o list
    BY <1>5, <2>2
  <2> QED BY <2>3, <2>4, ConcatKeeps
<1>16. \A k \in Keys(graph) :
         k \in ToSet(next.queue) \cup ToSet(next.ordered)
           <=> Open(graph, k, ToSet(next.ordered)) = {}
  <2> SUFFICES ASSUME NEW k \in Keys(graph)
               PROVE  k \in waiting \cup free \cup done <=> Open(graph, k, done \cup {now}) = {}
    BY <1>8, <1>9, <1>15
  <2> QED BY <1>7, <1>8, <1>11, <1>13
<1>17. ASSUME NEW m \in DOMAIN next.ordered, NEW e \in Edges(graph, next.ordered[m])
       PROVE  \E l \in 1 .. m - 1 : next.ordered[l] = Source(graph, e)
  <2>1. /\ Len(st.ordered) \in Nat /\ DOMAIN st.ordered = 1 .. Len(st.ordered)
        /\ DOMAIN next.ordered = 1 .. Len(st.ordered) + 1
    BY <1>7, <1>9
  <2>2. CASE m \in 1 .. Len(st.ordered)
    <3>1. PICK l \in 1 .. m - 1 : st.ordered[l] = Source(graph, e)
      BY <1>7, <1>9, <1>17, <2>1, <2>2
    <3>2. l \in 1 .. Len(st.ordered)
      BY <2>1, <2>2
    <3> QED BY <1>9, <3>1, <3>2
  <2>3. CASE m = Len(st.ordered) + 1
    <3>1. Source(graph, e) \in done
      BY <1>7, <1>8, <1>9, <1>17, <2>3 DEF Open
    <3>2. PICK l \in 1 .. Len(st.ordered) : st.ordered[l] = Source(graph, e)
      BY <1>6, <2>1, <3>1 DEF ToSet
    <3>3. l \in 1 .. m - 1
      BY <2>1, <2>3
    <3> QED BY <1>9, <3>2, <3>3
  <2> QED BY <2>1, <2>2, <2>3
<1>18. next.degree = [k \in Keys(graph) |-> Cardinality(Open(graph, k, ToSet(next.ordered)))]
  BY <1>2, <1>5, <1>9, <1>10
<1>19. ToSet(next.queue) \cap ToSet(next.ordered) = {}
  BY <1>7, <1>8, <1>9, <1>14, <1>15
<1>20. Kahn(graph, next)
  BY <1>9, <1>15, <1>16, <1>17, <1>18, <1>19 DEF Kahn
<1> QED BY <1>4, <1>9, <1>20

\* The turns of the algorithm on a graph.
Start(graph) ==
  [queue |-> Ready(graph),
   degree |-> [k \in Keys(graph) |-> Cardinality(Edges(graph, k))], ordered |-> <<>>]

IsAfter(graph, f, last) ==
  /\ f = [n \in 0 .. last |-> f[n]]
  /\ \A n \in 0 .. last : f[n] = IF n = 0 THEN Start(graph) ELSE Turn(graph, f[n - 1])

LEMMA TurnsExist ==
  ASSUME NEW graph, NEW last \in Nat
  PROVE  \E f : IsAfter(graph, f, last)
<1> DEFINE T == {m \in Nat : \E f : IsAfter(graph, f, m)}
<1>1. 0 \in T
  <2>1. IsAfter(graph, [n \in 0 .. 0 |-> Start(graph)], 0)
    BY DEF IsAfter
  <2> QED BY <2>1
<1>2. ASSUME NEW m \in T PROVE m + 1 \in T
  <2>1. PICK f : IsAfter(graph, f, m)
    OBVIOUS
  <2> DEFINE g == [n \in 0 .. m + 1 |-> IF n = m + 1 THEN Turn(graph, f[m]) ELSE f[n]]
  <2>2. ASSUME NEW n \in 0 .. m + 1
        PROVE  g[n] = IF n = 0 THEN Start(graph) ELSE Turn(graph, g[n - 1])
    <3>1. CASE n = m + 1
      <4>1. n # 0 /\ n - 1 = m /\ m \in 0 .. m + 1 /\ m # m + 1
        BY <3>1
      <4>2. g[m] = f[m] /\ g[n] = Turn(graph, f[m])
        BY <3>1, <4>1
      <4> QED BY <4>1, <4>2
    <3>2. CASE n # m + 1
      <4>1. n \in 0 .. m /\ g[n] = f[n]
        BY <3>2
      <4>2. n # 0 => n - 1 \in 0 .. m + 1 /\ n - 1 # m + 1
        BY <4>1
      <4>3. n # 0 => g[n - 1] = f[n - 1]
        BY <4>2
      <4> HIDE DEF g
      <4> QED BY <2>1, <4>1, <4>3 DEF IsAfter
    <3> QED BY <3>1, <3>2
  <2>3. IsAfter(graph, g, m + 1)
    <3>1. g = [n \in 0 .. m + 1 |-> g[n]]
      OBVIOUS
    <3> HIDE DEF g
    <3> QED BY <2>2, <3>1 DEF IsAfter
  <2> QED BY <2>3
<1>3. last \in T
  <2>1. T \in SUBSET Nat
    OBVIOUS
  <2> HIDE DEF T
  <2> QED BY <1>1, <1>2, <2>1, EveryNumber
<1> QED BY <1>3

LEMMA SortedIs ==
  ASSUME NEW graph, Len(graph) \in Nat
  PROVE  \E f : IsAfter(graph, f, Len(graph)) /\ Sorted(graph) = f[Len(graph)].ordered
<1> DEFINE Step(f, n) == IF n = 0 THEN Start(graph) ELSE Turn(graph, f[n - 1])
           IsFixed(f) == f = [n \in 0 .. Len(graph) |-> Step(f, n)]
<1>1. PICK f : IsAfter(graph, f, Len(graph))
  BY TurnsExist
<1> SUFFICES ASSUME NEW g, g = CHOOSE h : IsFixed(h)
             PROVE  IsAfter(graph, g, Len(graph)) /\ Sorted(graph) = g[Len(graph)].ordered
  OBVIOUS
<1>2. Sorted(graph) = g[Len(graph)].ordered
  BY Zenon DEF Sorted, Start
<1>3. IsFixed(g)
  <2>1. \A n \in 0 .. Len(graph) : f[n] = Step(f, n)
    BY <1>1 DEF IsAfter
  <2>2. IsFixed(f)
    <3> HIDE DEF Step
    <3> QED BY <1>1, <2>1 DEF IsAfter
  <2> HIDE DEF IsFixed
  <2> QED BY <2>2, Zenon
<1>4. IsAfter(graph, g, Len(graph))
  <2>1. g = [n \in 0 .. Len(graph) |-> g[n]]
    <3> HIDE DEF Step
    <3> QED BY <1>3
  <2>2. ASSUME NEW n \in 0 .. Len(graph) PROVE g[n] = Step(g, n)
    BY <1>3, Zenon
  <2> QED BY <2>1, <2>2 DEF IsAfter
<1> QED BY <1>2, <1>4

\* After as many turns as there are nodes the queue is empty, or all nodes are taken.
LEMMA KahnEnds ==
  ASSUME NEW graph, Closed(graph)
  PROVE  \E st : /\ Kahn(graph, st)
                 /\ Sorted(graph) = st.ordered
                 /\ st.queue = <<>> \/ Len(st.ordered) = Len(graph)
<1> DEFINE N == Len(graph)
<1>1. N \in Nat
  BY DEF Closed
<1>2. PICK f : IsAfter(graph, f, N) /\ Sorted(graph) = f[N].ordered
  BY <1>1, SortedIs
<1> DEFINE Good(n) == Kahn(graph, f[n]) /\ (f[n].queue = <<>> \/ Len(f[n].ordered) = n)
           T == {n \in Nat : n <= N => Good(n)}
<1> HIDE DEF N
<1>3. 0 \in T
  <2>1. f[0] = Start(graph)
    <3>1. 0 \in 0 .. N
      BY <1>1
    <3> QED BY <1>2, <3>1, Zenon DEF IsAfter
  <2>2. Kahn(graph, f[0]) /\ f[0].ordered = <<>>
    BY <2>1, KahnBegins DEF Start
  <2> QED BY <2>2
<1>4. ASSUME NEW n \in T PROVE n + 1 \in T
  <2> SUFFICES ASSUME n + 1 <= N PROVE Good(n + 1)
    OBVIOUS
  <2>1. n \in Nat /\ Good(n)
    BY <1>1
  <2>2. f[n + 1] = Turn(graph, f[n])
    <3>1. n + 1 \in 0 .. N /\ n + 1 # 0 /\ (n + 1) - 1 = n
      BY <1>1, <2>1
    <3>2. f[n + 1] = Turn(graph, f[(n + 1) - 1])
      BY <1>2, <3>1, Zenon DEF IsAfter
    <3> QED BY <3>1, <3>2
  <2>3. CASE f[n].queue = <<>>
    BY <2>1, <2>2, <2>3 DEF Turn
  <2>4. CASE f[n].queue # <<>>
    BY <2>1, <2>2, <2>4, KahnGoesOn
  <2> QED BY <2>3, <2>4
<1>5. Good(N)
  <2>1. T \in SUBSET Nat
    OBVIOUS
  <2>2. N \in T
    <3> HIDE DEF T
    <3> QED BY <1>1, <1>3, <1>4, <2>1, EveryNumber
  <2> QED BY <1>1, <2>2
<1> QED BY <1>2, <1>5 DEF N

\* Kahn's algorithm takes every node exactly when the ids differ and their
\* dependencies have no cycle.
LEMMA SortedOrCyclic ==
  ASSUME NEW graph, Closed(graph)
  PROVE  Len(Sorted(graph)) = Len(graph) <=> ~ Cyclic(graph) /\ ~ Repeated(graph)
<1>1. PICK st : /\ Kahn(graph, st)
                /\ Sorted(graph) = st.ordered
                /\ st.queue = <<>> \/ Len(st.ordered) = Len(graph)
  BY KahnEnds
<1>2. PICK s, N : s = st.ordered /\ N = Len(graph)
  OBVIOUS
<1>3. /\ N \in Nat /\ DOMAIN graph = 1 .. N /\ Keys(graph) \subseteq 1 .. N
      /\ s \in Seq(Keys(graph)) /\ IsInjective(s) /\ DOMAIN s = 1 .. Len(s) /\ Len(s) \in Nat
  BY <1>1, <1>2, KeysAre DEF Closed, WellFormed, Kahn
<1>4. Len(s) = N <=> ToSet(s) = 1 .. N
  <2>1. s \in Seq(1 .. N)
    BY <1>3, SeqMonotonic
  <2> QED BY <1>3, <2>1, LengthCounts
<1>5. ToSet(s) \subseteq Keys(graph)
  BY <1>3 DEF ToSet
<1>6. Len(s) = N => ~ Repeated(graph)
  <2>1. Keys(graph) = 1 .. N <=> ~ Repeated(graph)
    BY <1>2, KeysAre DEF Closed
  <2> QED BY <1>3, <1>4, <1>5, <2>1
<1>7. ASSUME Len(s) = N, Cyclic(graph) PROVE FALSE
  <2>1. PICK ids \in (SUBSET Ids(graph)) \ {{}} : \A id \in ids :
          \E i \in DOMAIN graph : graph[i].id = id /\ ToSet(graph[i].deps) \cap ids # {}
    BY <1>7, Zenon DEF Cyclic
  <2> DEFINE places == {m \in 1 .. N : graph[s[m]].id \in ids}
  <2>2. places \in SUBSET Nat /\ places # {}
    <3>1. PICK x \in ids : x \in Ids(graph)
      BY <2>1
    <3>2. KeyOf(graph, x) \in ToSet(s) /\ graph[KeyOf(graph, x)].id = x
      BY <1>3, <1>4, <1>7, <3>1, KeysAre DEF Closed
    <3>3. PICK m \in 1 .. N : s[m] = KeyOf(graph, x)
      BY <1>3, <1>7, <3>2 DEF ToSet
    <3> QED BY <3>2, <3>3
  <2>3. PICK m \in places : \A y \in places : m <= y
    <3> HIDE DEF places
    <3> QED BY <2>2, LeastElement
  <2>4. m \in 1 .. N /\ s[m] \in DOMAIN graph /\ graph[s[m]].id \in ids
    BY <1>3, <1>7, <2>3
  <2>5. PICK i \in DOMAIN graph : graph[i].id = graph[s[m]].id /\ ToSet(graph[i].deps) \cap ids # {}
    BY <2>1, <2>4
  <2>6. PICK d \in DOMAIN graph[i].deps : graph[i].deps[d] \in ids
    BY <2>5 DEF ToSet
  <2>7. PICK e \in Edges(graph, s[m]) : graph[Source(graph, e)].id = graph[i].deps[d]
    BY <2>4, <2>5, EdgesAre
  <2>8. PICK l \in 1 .. m - 1 : s[l] = Source(graph, e)
    BY <1>1, <1>2, <1>3, <1>7, <2>4 DEF Kahn
  <2>9. l \in places /\ ~ m <= l
    BY <1>3, <2>4, <2>6, <2>7, <2>8
  <2> QED BY <2>3, <2>9
<1>8. ASSUME Len(s) # N, ~ Repeated(graph) PROVE Cyclic(graph)
  <2>1. Keys(graph) = 1 .. N
    BY <1>2, <1>8, KeysAre DEF Closed
  <2> DEFINE nodes == (1 .. N) \ ToSet(s)
             ids == {graph[i].id : i \in nodes}
  <2>2. nodes # {}
    BY <1>4, <1>5, <1>8, <2>1
  <2>3. ids \in (SUBSET Ids(graph)) \ {{}}
    BY <1>3, <2>2 DEF Ids
  <2>4. ToSet(st.queue) = {}
    BY <1>1, <1>2, <1>8 DEF ToSet
  <2>5. ASSUME NEW k \in nodes
        PROVE  \E i \in DOMAIN graph :
                 graph[i].id = graph[k].id /\ ToSet(graph[i].deps) \cap ids # {}
    <3>1. k \in Keys(graph) /\ k \in DOMAIN graph /\ k \notin ToSet(st.queue) \cup ToSet(st.ordered)
      BY <1>2, <1>3, <2>1, <2>4
    <3>2. PICK e \in Edges(graph, k) : Source(graph, e) \notin ToSet(s)
      BY <1>1, <1>2, <3>1 DEF Kahn, Open
    <3>3. /\ e[1] \in DOMAIN graph /\ graph[e[1]].id = graph[k].id
          /\ e[2] \in DOMAIN graph[e[1]].deps
          /\ Source(graph, e) \in nodes
          /\ graph[Source(graph, e)].id = graph[e[1]].deps[e[2]]
      <4>1. /\ e[1] \in DOMAIN graph /\ graph[e[1]].id = graph[k].id
            /\ e[2] \in DOMAIN graph[e[1]].deps
            /\ Source(graph, e) \in Keys(graph)
            /\ graph[Source(graph, e)].id = graph[e[1]].deps[e[2]]
        BY <3>1, EdgesAre
      <4>2. Source(graph, e) \in nodes
        BY <2>1, <3>2, <4>1
      <4> QED BY <4>1, <4>2
    <3> HIDE DEF nodes
    <3>4. graph[e[1]].deps[e[2]] \in ToSet(graph[e[1]].deps) /\ graph[e[1]].deps[e[2]] \in ids
      BY <3>3 DEF ToSet
    <3> QED BY <3>3, <3>4
  <2> HIDE DEF nodes
  <2>6. \A id \in ids : \E i \in DOMAIN graph : graph[i].id = id /\ ToSet(graph[i].deps) \cap ids # {}
    <3> SUFFICES ASSUME NEW id \in ids
                 PROVE  \E i \in DOMAIN graph : graph[i].id = id /\ ToSet(graph[i].deps) \cap ids # {}
      OBVIOUS
    <3>1. PICK k \in nodes : id = graph[k].id
      OBVIOUS
    <3> QED BY <2>5, <3>1
  <2> HIDE DEF ids
  <2> QED BY <2>3, <2>6 DEF Cyclic
<1> QED BY <1>1, <1>2, <1>6, <1>7, <1>8

\* The order it takes the nodes of such a plan in.
LEMMA SortedKeeps ==
  ASSUME NEW graph, Closed(graph), Len(Sorted(graph)) = Len(graph)
  PROVE  /\ ToSet(Sorted(graph)) = DOMAIN graph
         /\ DOMAIN Sorted(graph) = DOMAIN graph
         /\ \A i, j \in DOMAIN graph : graph[i].id \in ToSet(graph[j].deps) =>
              \E m, n \in DOMAIN Sorted(graph) : m < n /\ Sorted(graph)[m] = i /\ Sorted(graph)[n] = j
<1>1. PICK st : Kahn(graph, st) /\ Sorted(graph) = st.ordered
  BY KahnEnds
<1>2. PICK s, N : s = st.ordered /\ N = Len(graph)
  OBVIOUS
<1>3. /\ N \in Nat /\ DOMAIN graph = 1 .. N /\ Keys(graph) = 1 .. N
      /\ s \in Seq(1 .. N) /\ IsInjective(s) /\ DOMAIN s = 1 .. N /\ Len(s) = N
  <2>1. ~ Repeated(graph)
    BY SortedOrCyclic
  <2> QED BY <1>1, <1>2, <2>1, KeysAre DEF Closed, WellFormed, Kahn
<1>4. ToSet(s) = 1 .. N
  BY <1>3, LengthCounts
<1>5. ASSUME NEW i \in 1 .. N, NEW j \in 1 .. N, graph[i].id \in ToSet(graph[j].deps)
      PROVE  \E m, n \in 1 .. N : m < n /\ s[m] = i /\ s[n] = j
  <2>1. PICK n \in 1 .. N : s[n] = j
    BY <1>3, <1>4 DEF ToSet
  <2>2. PICK d \in DOMAIN graph[j].deps : graph[j].deps[d] = graph[i].id
    BY <1>5 DEF ToSet
  <2>3. PICK e \in Edges(graph, j) : graph[Source(graph, e)].id = graph[i].id
    BY <1>3, <2>2, EdgesAre
  <2>4. Source(graph, e) \in Keys(graph)
    BY <1>3, EdgesAre
  <2>5. Source(graph, e) = i
    BY <1>3, <2>3, <2>4, KeysAre DEF Closed
  <2>6. PICK m \in 1 .. n - 1 : s[m] = i
    BY <1>1, <1>2, <1>3, <2>1, <2>5 DEF Kahn
  <2>7. m \in 1 .. N /\ m < n
    BY <1>3
  <2> QED BY <2>1, <2>6, <2>7
<1>6. Sorted(graph) = s /\ DOMAIN graph = 1 .. N
  BY <1>1, <1>2, <1>3
<1>7. DOMAIN Sorted(graph) = DOMAIN graph /\ ToSet(Sorted(graph)) = DOMAIN graph
  BY <1>3, <1>4, <1>6
<1>8. ASSUME NEW i \in DOMAIN graph, NEW j \in DOMAIN graph, graph[i].id \in ToSet(graph[j].deps)
      PROVE  \E m, n \in DOMAIN Sorted(graph) : m < n /\ Sorted(graph)[m] = i /\ Sorted(graph)[n] = j
  <2>1. PICK m, n \in 1 .. N : m < n /\ s[m] = i /\ s[n] = j
    BY <1>5, <1>6, <1>8
  <2> QED BY <1>6, <1>7, <2>1
<1> QED BY <1>7, <1>8

-----------------------------------------------------------------------------
(* The graph made of a template                                            *)

\* A nonempty set of positions has a greatest element.
LEMMA GreatestElement ==
  ASSUME NEW n \in Nat, NEW T \in SUBSET (1 .. n), T # {}
  PROVE  \E x \in T : \A y \in T : x >= y
<1> DEFINE U == {k \in Nat : n - k \in T}
<1>1. \A x \in T : n - x \in U /\ n - (n - x) = x
  BY SMT
<1>2. U \in SUBSET Nat /\ U # {}
  BY <1>1
<1>3. PICK k \in U : \A y \in U : k <= y
  <2> HIDE DEF U
  <2> QED BY <1>2, LeastElement
<1>4. n - k \in T /\ k \in Nat
  BY <1>3
<1>5. ASSUME NEW y \in T PROVE n - k >= y
  <2>1. y \in Nat /\ n - y \in U
    BY <1>1
  <2> HIDE DEF U
  <2>2. k <= n - y
    BY <1>3, <2>1
  <2> QED BY <1>4, <2>1, <2>2
<1> QED BY <1>4, <1>5

LEMMA NodeOfIs ==
  ASSUME NEW t, NEW i \in Nat, NEW skill, \E j \in 1 .. i : t[j].skill = skill
  PROVE  /\ NodeOf(t, i, skill) \in 1 .. i
         /\ t[NodeOf(t, i, skill)].skill = skill
         /\ \A j \in 1 .. i : t[j].skill = skill => j <= NodeOf(t, i, skill)
<1>1. PICK T : T = {j \in 1 .. i : t[j].skill = skill}
  OBVIOUS
<1>2. T \in SUBSET (1 .. i) /\ T # {}
  BY <1>1
<1>3. \E x \in T : \A y \in T : x >= y
  BY <1>2, GreatestElement
<1>4. PICK x : x = NodeOf(t, i, skill)
  OBVIOUS
<1>5. x = CHOOSE m \in T : \A y \in T : m >= y
  BY <1>1, <1>4 DEF NodeOf, Max
<1>6. x \in T /\ \A y \in T : x >= y
  BY <1>3, <1>5, Zenon
<1> QED BY <1>1, <1>4, <1>6

\* A node's dependencies are the last nodes up to it with the skills it names.
LEMMA DependsOnIs ==
  ASSUME NEW t, NEW i \in Nat, Len(t[i].deps) \in Nat, DOMAIN t[i].deps = 1 .. Len(t[i].deps)
  PROVE  /\ Len(DependsOn(t, i)) \in Nat /\ DOMAIN DependsOn(t, i) = 1 .. Len(DependsOn(t, i))
         /\ \A x \in ToSet(DependsOn(t, i)) :
              \E skill \in ToSet(t[i].deps) :
                x = NodeOf(t, i, skill) /\ \E j \in 1 .. i : t[j].skill = skill
         /\ \A skill \in ToSet(t[i].deps) :
              (\E j \in 1 .. i : t[j].skill = skill) => NodeOf(t, i, skill) \in ToSet(DependsOn(t, i))
<1>1. PICK deps : deps = t[i].deps
  OBVIOUS
<1>2. PICK places : places = {n \in DOMAIN deps : \E j \in 1 .. i : t[j].skill = deps[n]}
  OBVIOUS
<1>3. PICK known : known = Ascending(places)
  OBVIOUS
<1>4. PICK result : result = [m \in DOMAIN known |-> NodeOf(t, i, deps[known[m]])]
  OBVIOUS
<1>5. DependsOn(t, i) = result
  BY <1>1, <1>2, <1>3, <1>4, Zenon DEF DependsOn, Resolved
<1>6. known \in Seq(places) /\ ToSet(known) = places
  <2>1. places \in SUBSET (1 .. Len(deps)) /\ Len(deps) \in Nat
    BY <1>1, <1>2
  <2>2. places \in SUBSET Nat /\ IsFiniteSet(places)
    BY <2>1, NodesAreFinite
  <2> QED BY <1>3, <2>2, AscendingLists
<1>7. DOMAIN result = 1 .. Len(known) /\ Len(known) \in Nat /\ Len(result) = Len(known)
  BY <1>4, <1>6
<1>8. \A x : x \in ToSet(result) <=> \E n \in places : x = NodeOf(t, i, deps[n])
  BY <1>4, <1>6 DEF ToSet
<1>9. ASSUME NEW x \in ToSet(result)
      PROVE  \E skill \in ToSet(deps) :
               x = NodeOf(t, i, skill) /\ \E j \in 1 .. i : t[j].skill = skill
  <2>1. PICK n \in places : x = NodeOf(t, i, deps[n])
    BY <1>8
  <2>2. deps[n] \in ToSet(deps) /\ \E j \in 1 .. i : t[j].skill = deps[n]
    BY <1>2 DEF ToSet
  <2> QED BY <2>1, <2>2
<1>10. ASSUME NEW skill \in ToSet(deps), \E j \in 1 .. i : t[j].skill = skill
       PROVE  NodeOf(t, i, skill) \in ToSet(result)
  <2>1. PICK n \in DOMAIN deps : deps[n] = skill
    BY DEF ToSet
  <2>2. n \in places
    BY <1>2, <1>10, <2>1
  <2> QED BY <1>8, <2>1, <2>2
<1> QED BY <1>1, <1>5, <1>7, <1>9, <1>10

\* The plan the cloud makes of a template: a node depends on none after it, on
\* itself only when the template says so, and on the last node before it with
\* each other skill its template names.
LEMMA GraphOfTemplate ==
  ASSUME NEW t \in Seq([skill : Skills, deps : Seq(Skills)])
  PROVE  /\ Closed(Graph(t)) /\ Len(Graph(t)) = Len(t) /\ DOMAIN t = DOMAIN Graph(t)
         /\ ~ Repeated(Graph(t))
         /\ Cyclic(Graph(t)) <=> \E i \in DOMAIN t : t[i].skill \in ToSet(t[i].deps)
         /\ \A j \in DOMAIN t : \A i \in 1 .. j - 1 :
              t[i].skill \in ToSet(t[j].deps) /\ t[j].skill # t[i].skill
                /\ (\A k \in i + 1 .. j - 1 : t[k].skill # t[i].skill)
              => Graph(t)[i].id \in ToSet(Graph(t)[j].deps)
<1>1. PICK g, N : g = Graph(t) /\ N = Len(t)
  OBVIOUS
<1>2. N \in Nat /\ DOMAIN t = 1 .. N
  BY <1>1
<1>3. /\ g = [i \in 1 .. N |-> [id |-> i, skill |-> t[i].skill, deps |-> DependsOn(t, i)]]
      /\ \A i \in 1 .. N : g[i].id = i /\ g[i].deps = DependsOn(t, i)
  BY <1>1, <1>2 DEF Graph
<1>4. DOMAIN g = 1 .. N /\ Len(g) = N /\ Ids(g) = 1 .. N
  <2>1. DOMAIN g = 1 .. N
    BY <1>3
  <2>2. Len(g) = N
    BY <1>2, <1>3, <2>1
  <2>3. Ids(g) = {g[i].id : i \in 1 .. N}
    BY <2>1 DEF Ids
  <2>4. {g[i].id : i \in 1 .. N} = 1 .. N
    BY <1>3
  <2> QED BY <2>1, <2>2, <2>3, <2>4
<1>5. \A i \in 1 .. N : /\ i \in Nat /\ i \in 1 .. i /\ 1 .. i \subseteq 1 .. N
                        /\ Len(t[i].deps) \in Nat /\ DOMAIN t[i].deps = 1 .. Len(t[i].deps)
  <2> SUFFICES ASSUME NEW i \in 1 .. N
               PROVE  /\ i \in Nat /\ i \in 1 .. i /\ 1 .. i \subseteq 1 .. N
                      /\ Len(t[i].deps) \in Nat /\ DOMAIN t[i].deps = 1 .. Len(t[i].deps)
    OBVIOUS
  <2>1. t[i] \in [skill : Skills, deps : Seq(Skills)]
    BY <1>1, <1>2, ElementOfSeq
  <2>2. t[i].deps \in Seq(Skills)
    BY <2>1, Zenon
  <2> QED BY <1>2, <2>2
<1>6. \A i \in 1 .. N : \A d \in ToSet(g[i].deps) :
        \E skill \in ToSet(t[i].deps) : d \in 1 .. i /\ t[d].skill = skill
  <2> SUFFICES ASSUME NEW i \in 1 .. N, NEW d \in ToSet(DependsOn(t, i))
               PROVE  \E skill \in ToSet(t[i].deps) : d \in 1 .. i /\ t[d].skill = skill
    BY <1>3
  <2>1. PICK skill \in ToSet(t[i].deps) :
          d = NodeOf(t, i, skill) /\ \E j \in 1 .. i : t[j].skill = skill
    BY <1>5, DependsOnIs
  <2>2. i \in Nat
    BY <1>5
  <2>3. \E j \in 1 .. i : t[j].skill = skill
    BY <2>1
  <2>4. NodeOf(t, i, skill) \in 1 .. i /\ t[NodeOf(t, i, skill)].skill = skill
    BY <2>2, <2>3, NodeOfIs
  <2>5. d \in 1 .. i /\ t[d].skill = skill
    BY <2>1, <2>4
  <2> QED BY <2>5
<1>7. \A i \in 1 .. N : \A skill \in ToSet(t[i].deps) :
        (\E j \in 1 .. i : t[j].skill = skill) => NodeOf(t, i, skill) \in ToSet(g[i].deps)
  <2> SUFFICES ASSUME NEW i \in 1 .. N, NEW skill \in ToSet(t[i].deps), \E j \in 1 .. i : t[j].skill = skill
               PROVE  NodeOf(t, i, skill) \in ToSet(DependsOn(t, i))
    BY <1>3
  <2>1. i \in Nat /\ Len(t[i].deps) \in Nat /\ DOMAIN t[i].deps = 1 .. Len(t[i].deps)
    BY <1>5
  <2> QED BY <2>1, DependsOnIs
<1>8. Closed(g) /\ ~ Repeated(g)
  <2>1. \A i \in 1 .. N : ToSet(g[i].deps) \subseteq 1 .. N
    BY <1>5, <1>6
  <2>2. \A i \in 1 .. N : Len(g[i].deps) \in Nat /\ DOMAIN g[i].deps = 1 .. Len(g[i].deps)
    BY <1>3, <1>5, DependsOnIs
  <2>3. ~ Repeated(g)
    BY <1>3, <1>4 DEF Repeated
  <2> QED BY <1>2, <1>4, <2>1, <2>2, <2>3 DEF Closed, WellFormed
<1>9. ASSUME NEW i \in 1 .. N, t[i].skill \in ToSet(t[i].deps) PROVE Cyclic(g)
  <2>0. i \in Nat /\ i \in 1 .. i
    BY <1>5
  <2>1. NodeOf(t, i, t[i].skill) \in 1 .. i /\ i <= NodeOf(t, i, t[i].skill)
    BY <2>0, NodeOfIs
  <2>2. NodeOf(t, i, t[i].skill) = i
    BY <2>0, <2>1
  <2>3. i \in ToSet(g[i].deps)
    <3>1. \E j \in 1 .. i : t[j].skill = t[i].skill
      BY <2>0
    <3>2. NodeOf(t, i, t[i].skill) \in ToSet(g[i].deps)
      BY <1>7, <1>9, <3>1
    <3> QED BY <2>2, <3>2
  <2>4. {i} \in (SUBSET Ids(g)) \ {{}}
    BY <1>4
  <2>5. \A id \in {i} : \E k \in DOMAIN g : g[k].id = id /\ ToSet(g[k].deps) \cap {i} # {}
    BY <1>3, <1>4, <2>3
  <2> QED BY <2>4, <2>5, Zenon DEF Cyclic
<1>10. ASSUME Cyclic(g) PROVE \E i \in 1 .. N : t[i].skill \in ToSet(t[i].deps)
  <2>1. PICK ids \in (SUBSET (1 .. N)) \ {{}} :
          \A id \in ids : \E k \in 1 .. N : g[k].id = id /\ ToSet(g[k].deps) \cap ids # {}
    <3>1. PICK ids \in (SUBSET Ids(g)) \ {{}} :
            \A id \in ids : \E k \in DOMAIN g : g[k].id = id /\ ToSet(g[k].deps) \cap ids # {}
      BY <1>10, Zenon DEF Cyclic
    <3>2. ids \in (SUBSET (1 .. N)) \ {{}}
      BY <1>4
    <3>3. \A id \in ids : \E k \in 1 .. N : g[k].id = id /\ ToSet(g[k].deps) \cap ids # {}
      BY <1>4, <3>1
    <3> QED BY <3>2, <3>3, Zenon
  <2>2. \A i \in ids : ToSet(g[i].deps) \cap ids # {}
    BY <1>3, <2>1
  <2>3. ids \in SUBSET Nat /\ ids # {}
    BY <1>5, <2>1
  <2>4. PICK i \in ids : \A y \in ids : i <= y
    BY <2>3, LeastElement
  <2>5. PICK d \in ToSet(g[i].deps) : d \in ids
    BY <2>2
  <2>6. PICK skill \in ToSet(t[i].deps) : d \in 1 .. i /\ t[d].skill = skill
    BY <1>6, <2>1, <2>4, <2>5
  <2>7. d = i
    BY <2>3, <2>4, <2>5, <2>6
  <2> QED BY <2>1, <2>4, <2>6, <2>7
<1>11. ASSUME NEW j \in 1 .. N, NEW i \in 1 .. j - 1, t[i].skill \in ToSet(t[j].deps),
              t[j].skill # t[i].skill, \A k \in i + 1 .. j - 1 : t[k].skill # t[i].skill
       PROVE  g[i].id \in ToSet(g[j].deps)
  <2>1. PICK node : node = NodeOf(t, j, t[i].skill)
    OBVIOUS
  <2>2. i \in 1 .. j /\ i \in 1 .. N
    BY <1>5
  <2>3. node \in 1 .. j /\ t[node].skill = t[i].skill /\ i <= node
    BY <1>5, <2>1, <2>2, NodeOfIs
  <2>4. node = i \/ node = j \/ node \in i + 1 .. j - 1
    BY <1>5, <2>2, <2>3
  <2>5. node = i
    BY <1>11, <2>3, <2>4
  <2>6. NodeOf(t, j, t[i].skill) \in ToSet(g[j].deps)
    BY <1>7, <1>11, <2>2
  <2> QED BY <1>3, <2>1, <2>2, <2>5, <2>6
<1> QED BY <1>1, <1>2, <1>4, <1>8, <1>9, <1>10, <1>11

-----------------------------------------------------------------------------
(* A plan on its way                                                       *)

\* Where the plan on its way comes from.
Origin ==
  \/ template = None /\ plan \in Graphs
  \/ template \in Templates /\ plan = Graph(template)

\* A plan is the one sent, and the order in the tree the one its graph gives.
PlanInv ==
  /\ phase = "asked" => template \in Templates /\ over = "no"
  /\ phase = "planned" /\ over = "no" => Origin
  /\ phase = "dispatched" =>
       /\ Origin
       /\ IF Validated(plan, Registry) THEN over # "INVALID" /\ (over = "no" => order = Sorted(plan))
          ELSE over = "INVALID"

LEMMA NextKeepsPlan == PlanInv /\ [RecoveryNext]_vars => PlanInv'
<1> SUFFICES ASSUME PlanInv, [RecoveryNext]_vars PROVE PlanInv'
  OBVIOUS
<1>1. CASE Submit
  <2>1. PICK instruction \in BOOLEAN, matching \in SUBSET {1} :
          /\ phase = "asked" /\ phase' = "planned"
          /\ plan' = SubmitTask(instruction, <<template>>, matching).plan
          /\ over' = IF SubmitTask(instruction, <<template>>, matching).type = "PLAN"
                       THEN over ELSE "REFUSED"
          /\ template' = template
    BY <1>1 DEF Submit
  <2>2. CASE instruction /\ matching # {}
    <3>1. matching = {1}
      BY <2>2
    <3>2. Min(matching) = 1
      BY <3>1 DEF Min
    <3>3. SubmitTask(instruction, <<template>>, matching) =
            [type |-> "PLAN", plan |-> Graph(<<template>>[Min(matching)])]
      BY <2>2, Zenon DEF SubmitTask, Decompose
    <3>4. plan' = Graph(template) /\ template \in Templates
      BY <2>1, <3>2, <3>3 DEF PlanInv
    <3> QED BY <2>1, <3>4 DEF PlanInv, Origin
  <2>3. CASE ~ (instruction /\ matching # {})
    BY <2>1, <2>3 DEF SubmitTask, PlanInv
  <2> QED BY <2>2, <2>3
<1>2. CASE Dispatch
  BY <1>2 DEF Dispatch, PlanInv, Origin
<1>3. CASE Tick
  BY <1>3 DEF Tick, PlanInv
<1>4. CASE Run
  BY <1>4 DEF Run, PlanInv, Origin, planVars
<1>5. CASE Request
  BY <1>5 DEF Request, PlanInv, Origin, planVars, treeVars
<1>6. CASE TrackOn
  BY <1>6 DEF TrackOn, PlanInv, Origin, planVars, treeVars
<1>7. CASE UNCHANGED vars
  BY <1>7 DEF vars, planVars, treeVars, PlanInv, Origin
<1> QED BY <1>1, <1>2, <1>3, <1>4, <1>5, <1>6, <1>7 DEF RecoveryNext

\* What the dispatch of any plan makes of it.
LEMMA OriginIsSound ==
  ASSUME Origin
  PROVE  /\ WellFormed(plan)
         /\ template # None =>
              /\ template \in Seq([skill : Skills, deps : Seq(Skills)])
              /\ plan = Graph(template)
<1>1. CASE template = None /\ plan \in Graphs
  <2>1. plan \in Seq([id : Nat, skill : Skills, deps : Seq(Nat)])
    BY <1>1, PlanAssumption
  <2>2. Len(plan) \in Nat /\ DOMAIN plan = 1 .. Len(plan)
    BY <2>1
  <2>3. ASSUME NEW i \in DOMAIN plan PROVE plan[i].deps \in Seq(Nat)
    <3>1. plan[i] \in [id : Nat, skill : Skills, deps : Seq(Nat)]
      BY <2>1, <2>2, ElementOfSeq
    <3> QED BY <3>1, Zenon
  <2>4. \A i \in DOMAIN plan : Len(plan[i].deps) \in Nat /\ DOMAIN plan[i].deps = 1 .. Len(plan[i].deps)
    BY <2>3
  <2> QED BY <1>1, <2>2, <2>4 DEF WellFormed
<1>2. CASE template \in Templates /\ plan = Graph(template)
  BY <1>2, PlanAssumption, GraphOfTemplate DEF Closed
<1> QED BY <1>1, <1>2 DEF Origin

LEMMA PlanInvKeeps == PlanInv => PlansAreKept
<1> SUFFICES ASSUME PlanInv PROVE TreeKeepsDependencies /\ RefusalIsEarned
  BY DEF PlansAreKept
<1> DEFINE missing == \E i \in DOMAIN plan : ~ ToSet(plan[i].deps) \subseteq Ids(plan)
           unknown == \E i \in DOMAIN plan : plan[i].skill \notin Registry \cup {""}
           alone == \E i \in DOMAIN plan :
                      template # None /\ template[i].skill \in ToSet(template[i].deps)
<1>1. phase = "dispatched" => Origin /\ WellFormed(plan)
  BY OriginIsSound DEF PlanInv
<1>2. phase = "dispatched" => (Closed(plan) <=> ~ missing)
  BY <1>1 DEF Closed
<1>3. phase = "dispatched" =>
        (Validated(plan, Registry) <=> ~ missing /\ ~ unknown /\ ~ Repeated(plan) /\ ~ Cyclic(plan))
  <2> SUFFICES ASSUME phase = "dispatched"
               PROVE  Validated(plan, Registry)
                        <=> ~ missing /\ ~ unknown /\ ~ Repeated(plan) /\ ~ Cyclic(plan)
    OBVIOUS
  <2>1. Validated(plan, Registry) <=> ~ missing /\ ~ unknown /\ Len(Sorted(plan)) = Len(plan)
    BY DEF Validated
  <2>2. Closed(plan) => (Len(Sorted(plan)) = Len(plan) <=> ~ Cyclic(plan) /\ ~ Repeated(plan))
    BY SortedOrCyclic
  <2> HIDE DEF missing, unknown
  <2> QED BY <1>2, <2>1, <2>2
<1>4. phase = "dispatched" /\ template # None =>
        /\ template \in Seq([skill : Skills, deps : Seq(Skills)])
        /\ plan = Graph(template) /\ Closed(plan) /\ DOMAIN template = DOMAIN plan /\ ~ Repeated(plan)
        /\ Cyclic(plan) <=> \E i \in DOMAIN template : template[i].skill \in ToSet(template[i].deps)
  BY <1>1, OriginIsSound, GraphOfTemplate
<1>5. RefusalIsEarned
  <2> SUFFICES ASSUME phase = "dispatched"
               PROVE  /\ over = "INVALID" <=> unknown \/ missing \/ Repeated(plan) \/ Cyclic(plan)
                      /\ template # None => ~ missing /\ ~ Repeated(plan) /\ (Cyclic(plan) <=> alone)
    BY DEF RefusalIsEarned
  <2>1. over = "INVALID" <=> ~ Validated(plan, Registry)
    BY DEF PlanInv
  <2>2. template # None => ~ missing /\ ~ Repeated(plan)
    <3> HIDE DEF missing
    <3> QED BY <1>2, <1>4
  <2>3. template # None => (Cyclic(plan) <=> alone)
    BY <1>4
  <2> HIDE DEF missing, unknown, alone
  <2> QED BY <1>3, <2>1, <2>2, <2>3
<1>6. TreeKeepsDependencies
  <2> DEFINE Before(i, j) == \E m, n \in DOMAIN order : m < n /\ order[m] = i /\ order[n] = j
  <2> SUFFICES ASSUME phase = "dispatched", over = "no"
               PROVE  /\ Len(order) = Len(plan) /\ ToSet(order) = DOMAIN plan
                      /\ \A i, j \in DOMAIN plan : plan[i].id \in ToSet(plan[j].deps) => Before(i, j)
                      /\ template # None =>
                           \A j \in DOMAIN template : \A i \in 1 .. j - 1 :
                             template[i].skill \in ToSet(template[j].deps)
                               /\ template[j].skill # template[i].skill
                               /\ (\A k \in i + 1 .. j - 1 : template[k].skill # template[i].skill)
                             => Before(i, j)
    BY DEF TreeKeepsDependencies
  <2>1. Validated(plan, Registry) /\ order = Sorted(plan)
    BY DEF PlanInv
  <2>2. Len(Sorted(plan)) = Len(plan) /\ Closed(plan)
    <3>1. Len(Sorted(plan)) = Len(plan) /\ ~ missing
      BY <2>1 DEF Validated
    <3> HIDE DEF missing
    <3> QED BY <1>2, <3>1
  <2>3. /\ ToSet(order) = DOMAIN plan
        /\ \A i, j \in DOMAIN plan : plan[i].id \in ToSet(plan[j].deps) => Before(i, j)
    BY <2>1, <2>2, SortedKeeps
  <2> HIDE DEF Before
  <2>4. template # None =>
          \A j \in DOMAIN template : \A i \in 1 .. j - 1 :
            template[i].skill \in ToSet(template[j].deps) /\ template[j].skill # template[i].skill
              /\ (\A k \in i + 1 .. j - 1 : template[k].skill # template[i].skill)
            => plan[i].id \in ToSet(plan[j].deps) /\ i \in DOMAIN plan
    <3> SUFFICES ASSUME template # None, NEW j \in DOMAIN template, NEW i \in 1 .. j - 1,
                        template[i].skill \in ToSet(template[j].deps),
                        template[j].skill # template[i].skill,
                        \A k \in i + 1 .. j - 1 : template[k].skill # template[i].skill
                 PROVE  plan[i].id \in ToSet(plan[j].deps) /\ i \in DOMAIN plan
      OBVIOUS
    <3>1. plan[i].id \in ToSet(plan[j].deps)
      BY <1>4, GraphOfTemplate
    <3>2. Len(plan) \in Nat /\ DOMAIN plan = 1 .. Len(plan) /\ j \in 1 .. Len(plan)
      BY <1>1, <1>4 DEF WellFormed
    <3>3. i \in 1 .. Len(plan)
      BY <3>2
    <3> QED BY <3>1, <3>2, <3>3
  <2> QED BY <1>4, <2>1, <2>2, <2>3, <2>4
<1> QED BY <1>5, <1>6

\* What the cloud sends, or another client, is what the robot carries out, for
\* any templates and plans: a plan is refused exactly when two of its nodes share
\* an id, when it has a cycle, or names a node or a skill nobody knows, and
\* otherwise becomes a tree with each of its nodes once, after all it depends on
\* (decompose, validate_plan_graph, build_behaviour_tree).
THEOREM DependenciesAreKept == RecoverySpec => []PlansAreKept
<1>1. RecoveryInit => PlanInv
  BY DEF RecoveryInit, PlanInv, Origin
<1>2. PlanInv /\ [RecoveryNext]_vars => PlanInv'
  BY NextKeepsPlan
<1>3. PlanInv => PlansAreKept
  BY PlanInvKeeps
<1> QED BY <1>1, <1>2, <1>3, PTL DEF RecoverySpec

===============================================================================
