---------------------------- MODULE PerceptionNode ----------------------------
(***************************************************************************)
(* The perception node (perception_node.py): its four services, and the    *)
(* PoseTracker (pose_tracker.py) whose loop runs in the thread of the      *)
(* caller of start_tracking while cancel() and stop() come from another.   *)
(*                                                                         *)
(* A thread switch may come between any two accesses to the tracker's      *)
(* flags.  Sessions follow one another.  Of an image, a cloud or a pose    *)
(* only what the backend makes of it is kept (Outcomes).                   *)
(***************************************************************************)
EXTENDS Naturals, Backends

CONSTANTS
  MaxMissedFrames  \* _max_missed_frames

ASSUME TrackerAssumption == MaxMissedFrames \in Nat \ {0}

-----------------------------------------------------------------------------
(* Services: an answer succeeds with some content, or has an error code.   *)

\* The backend raises (one that is not loaded does: None has no methods),
\* finds nothing, or finds something with a confidence below or above
\* _min_pose_confidence.
Outcomes == {"raises", "nothing", "weak", "good"}

Answered(content) == [code |-> "", content |-> content]
Refused(code) == [code |-> code, content |-> "none"]

\* "given": what the handler needs is in the request.
DetectObjects(given, outcome) ==
  IF given /\ outcome # "raises" THEN Answered(outcome) ELSE Refused("PER_DETECTION_FAILED")

SegmentObject(given, outcome) ==
  IF given /\ outcome # "raises" THEN Answered(outcome) ELSE Refused("PER_SEGMENTATION_FAILED")

BuildPointCloud(given, outcome) ==
  IF ~ given \/ outcome = "raises" THEN Refused("PER_POINT_CLOUD_FAILED")
  ELSE IF outcome = "nothing" THEN Refused("PER_POINT_CLOUD_EMPTY")
  ELSE Answered(outcome)

EstimatePose(given, outcome) ==
  IF given /\ outcome = "good" THEN Answered(outcome) ELSE Refused("PER_POSE_ESTIMATION_FAILED")

\* _load_backends()
Perception ==
  [detector |-> BackendOutcomes("mock", Outcomes),
   segmentor |-> BackendOutcomes("mock", Outcomes),
   point_cloud_builder |-> BackendOutcomes("simple", Outcomes),
   pose_estimator |-> BackendOutcomes("mock", Outcomes)]

-----------------------------------------------------------------------------
VARIABLES
  running,   \* _running
  cancelled, \* _cancelled
  misses,    \* _consecutive_misses
  session,   \* where the thread in start_tracking is, or how it returned
  calling,   \* a cancel() has set _cancelled and not yet _running
  asked,     \* history: the requests that overlapped the session
  blind      \* history: the frames of the session since an object was seen

trackerVars == <<running, cancelled, misses, session, calling, asked, blind>>

Returned == {"completed", "cancelled", "lost"}
Tracking == session \in {"starting", "testing", "running", "frame", "leaving"}

TrackerInit ==
  /\ running = FALSE
  /\ cancelled = FALSE
  /\ misses = 0
  /\ session = "none"
  /\ calling = FALSE
  /\ asked = {}
  /\ blind = 0

StartTracking ==
  /\ ~ Tracking
  /\ running' = TRUE
  /\ session' = "starting"
  /\ asked' = IF calling THEN {"cancel"} ELSE {}
  /\ blind' = 0
  /\ UNCHANGED <<cancelled, misses, calling>>

\* Slip: the misses of the last session count.
ResetSessionFlag ==
  /\ session = "starting"
  /\ cancelled' = FALSE
  /\ session' = "testing"
  /\ UNCHANGED <<running, misses, calling, asked, blind>>

\* Slip: a cancellation of the last session counts.
ResetSessionMisses ==
  /\ session = "starting"
  /\ misses' = 0
  /\ session' = "testing"
  /\ UNCHANGED <<running, cancelled, calling, asked, blind>>

ResetSession ==
  /\ session = "starting"
  /\ cancelled' = FALSE
  /\ misses' = 0
  /\ session' = "testing"
  /\ UNCHANGED <<running, calling, asked, blind>>

\* while self._running
TestRunning ==
  /\ session = "testing"
  /\ session' = IF running THEN "running" ELSE "leaving"
  /\ UNCHANGED <<running, cancelled, misses, calling, asked, blind>>

\* if self._cancelled, at the head of the loop and after it.
TestCancelled ==
  /\ session \in {"running", "leaving"}
  /\ session' = IF cancelled THEN "cancelled"
                ELSE IF session = "running" THEN "frame" ELSE "completed"
  /\ UNCHANGED <<running, cancelled, misses, calling, asked, blind>>

\* _run_pipeline_step(): any confidence above zero counts.
Sees(detected, segmented, built, estimated) ==
  /\ detected \notin {"raises", "nothing"}
  /\ segmented # "raises"
  /\ built \notin {"raises", "nothing"}
  /\ estimated \notin {"raises", "nothing"}

\* One frame, and its count of misses.
Frame ==
  \E detected, segmented, built, estimated \in Outcomes :
    LET seen == Sees(detected, segmented, built, estimated)
        lost == ~ seen /\ misses + 1 >= MaxMissedFrames
    IN  /\ session = "frame"
        /\ misses' = IF seen THEN 0 ELSE misses + 1
        /\ blind' = IF seen THEN 0 ELSE blind + 1
        /\ running' = (running /\ ~ lost)
        /\ session' = IF lost THEN "lost" ELSE "testing"
        /\ UNCHANGED <<cancelled, calling, asked>>

TrackerStep == ResetSession \/ TestRunning \/ TestCancelled \/ Frame

\* What of a request belongs to the session under way.
Note(request) == asked' = IF Tracking THEN asked \cup {request} ELSE asked

\* cancel(), one assignment after the other.
CancelTracking ==
  /\ ~ calling
  /\ cancelled' = TRUE
  /\ calling' = TRUE
  /\ Note("cancel")
  /\ UNCHANGED <<running, misses, session, blind>>

\* Slip: _running is left set.
CancelReturnsEarly ==
  /\ calling
  /\ calling' = FALSE
  /\ UNCHANGED <<running, cancelled, misses, session, asked, blind>>

CancelReturns ==
  /\ calling
  /\ running' = FALSE
  /\ calling' = FALSE
  /\ UNCHANGED <<cancelled, misses, session, asked, blind>>

StopTracking ==
  /\ running' = FALSE
  /\ Note("stop")
  /\ UNCHANGED <<cancelled, misses, session, calling, blind>>

TrackerRequest == CancelTracking \/ CancelReturns \/ StopTracking

TrackerNext == StartTracking \/ TrackerStep \/ TrackerRequest

-----------------------------------------------------------------------------
(* Properties *)

\* A session is lost only after max_missed_frames frames of its own in a row
\* without the object.
LostAfterMisses == session = "lost" => blind >= MaxMissedFrames

\* A session returns as completed or cancelled only when a request came, or
\* was still under way, while it ran: the flags are shared with the sessions
\* before it (start_tracking, cancel, stop).
EndsOnRequest ==
  /\ session = "completed" => asked # {}
  /\ session = "cancelled" => "cancel" \in asked

\* However sessions, cancels and stops interleave, a session ends for a reason
\* of its own and not of the one before it.
SessionEndIsEarned == LostAfterMisses /\ EndsOnRequest

\* A request to cancel or stop ends the session it finds, wherever its thread
\* is: the resetting of the flags at the start does not swallow it.
RequestsAreHonoured == asked # {} /\ Tracking ~> ~ Tracking

=============================================================================
