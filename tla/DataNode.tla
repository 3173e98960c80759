------------------------------ MODULE DataNode ------------------------------
(***************************************************************************)
(* The data node (data_node.py) with its recorder (episode_recorder.py),   *)
(* skill logger (skill_logger.py), frame logger (frame_logger.py) and      *)
(* label generator (label_generator.py): episodes recorded on the word of  *)
(* task statuses and of service requests, one callback at a time.          *)
(*                                                                         *)
(* Every write of episode.json may raise; the callbacks catch the          *)
(* exception and leave what they had done.  The process may crash or be    *)
(* shut down, and starts again: what is on disk stays, with a directory    *)
(* for the episode that was active.  Episodes are numbered in the order of *)
(* their start times.  Of the labels only recovery_used is kept, of the    *)
(* events the ends of skills and the start of a recovery.                  *)
(***************************************************************************)
EXTENDS Naturals, FiniteSets, SequencesExt

CONSTANTS
  Calls,       \* skill_call_ids
  MaxEpisodes, \* _max_episodes
  LastEpisode, \* bound: episodes started
  MaxLogs,     \* bound: skill logs in an episode
  MaxBuffer,   \* bound: events buffered during a pause
  MaxFrames,   \* bound: frames captured between resets
  None

ASSUME DataAssumption ==
  /\ MaxEpisodes \in Nat /\ LastEpisode \in Nat
  /\ MaxLogs \in Nat /\ MaxBuffer \in Nat /\ MaxFrames \in Nat

VARIABLES
  active,      \* _active_episode, or None
  disk,        \* the episode directories, and what episode.json says in each
  started,     \* the number of the last episode
  pending,     \* _pending_skills
  buffer,      \* _buffer of the skill logger
  frameLogger, \* _frame_logger: its directory and frame count, or None
  written,     \* the frames in the directory of the active episode
  recovering,  \* a recovery started, among _execution_events
  task,        \* the executor, external: whether a task runs
  inOrder,     \* history: the skill logs as if nothing had been buffered
  leftover,    \* history: an episode ended with events in the buffer
  recovered,   \* history: a recovery started during the active episode
  disturbed,   \* history: a stop of the active episode raised
  alone        \* history: only task ends without faults have ended episodes

volatile == <<active, pending, buffer, frameLogger, recovering>>
history == <<inOrder, leftover, recovered, disturbed, alone>>
vars == <<active, disk, started, pending, buffer, frameLogger, written, recovering,
          task, inOrder, leftover, recovered, disturbed, alone>>

Ids == 1 .. LastEpisode
Completed == {"completed_success", "completed_failure"}
Statuses == {"recording", "paused"} \cup Completed
Events == [kind : {"started", "ended"}, call : Calls] \cup [kind : {"recovery_started"}]
Episodes == [id : Ids, status : Statuses, logs : Seq(Calls), recovery : BOOLEAN]
FrameLoggers == [dir : Ids, count : 0 .. MaxFrames]

ASSUME NoneAssumption ==
  None \notin Completed /\ None \notin Episodes /\ None \notin FrameLoggers

Unfinished == [status |-> None, recovery |-> FALSE]

Recording == active # None /\ active.status = "recording"
Paused == active # None /\ active.status = "paused"

Init ==
  /\ active = None
  /\ disk = [e \in {} |-> Unfinished]
  /\ started = 0
  /\ pending = {}
  /\ buffer = <<>>
  /\ frameLogger = None
  /\ written = {}
  /\ recovering = FALSE
  /\ task = "idle"
  /\ inOrder = [pending |-> {}, logs |-> <<>>]
  /\ leftover = FALSE
  /\ recovered = FALSE
  /\ disturbed = FALSE
  /\ alone = TRUE

\* _write_episode_json() of an episode.  Nothing reads what an episode.json
\* says before its episode is completed.
Write(ep) ==
  [e \in DOMAIN disk \cup {ep.id} |->
     IF e # ep.id THEN disk[e]
     ELSE IF ep.status \in Completed THEN [status |-> ep.status, recovery |-> ep.recovery]
     ELSE Unfinished]

\* A write that raises leaves what was there, or destroys it: write_text()
\* truncates the file before it can fail.
Raised(dirs) == {dirs, [disk EXCEPT ![active.id] = Unfinished]}

-----------------------------------------------------------------------------
(* Starting an episode: EpisodeRecorder.start and a new frame logger.      *)

\* The directory has no episode.json yet.
NewDirectory(e) == [d \in DOMAIN disk \cup {e} |->
                      IF d = e THEN Unfinished ELSE disk[d]]

\* Slip: the frame logger of the last episode is kept.
NewFrameLoggerOnce(e) == IF frameLogger = None THEN [dir |-> e, count |-> 0] ELSE frameLogger

NewFrameLogger(e) == [dir |-> e, count |-> 0]

StartEpisode ==
  /\ active = None
  /\ started < LastEpisode
  /\ started' = started + 1
  /\ disk' = NewDirectory(started')
  /\ active' = [id |-> started', status |-> "recording", logs |-> <<>>, recovery |-> FALSE]
  /\ frameLogger' = NewFrameLogger(started')
  /\ written' = {}
  /\ inOrder' = [pending |-> pending, logs |-> <<>>]
  /\ leftover' = (buffer # <<>>)
  /\ recovered' = FALSE
  /\ disturbed' = FALSE
  /\ UNCHANGED <<pending, buffer, recovering>>

\* frames/ cannot be made: start() raises, and the directory stays.
StartFails ==
  /\ active = None
  /\ started < LastEpisode
  /\ started' = started + 1
  /\ disk' = NewDirectory(started')
  /\ UNCHANGED <<volatile, written, inOrder, leftover, recovered, disturbed>>

-----------------------------------------------------------------------------
(* Stopping one: the status, then the labels, each written; then the       *)
(* events are forgotten and old episodes deleted.                          *)

\* Slip: the outcome of the request becomes the status.
StoppedVerbatim(outcome) == [active EXCEPT !.status = outcome]

Stopped(outcome) ==
  [active EXCEPT !.status = IF outcome = "success" THEN "completed_success"
                                                   ELSE "completed_failure"]

\* LabelGenerator.generate and merge_labels(): a label once true stays true.
\* Slip: the labels are made from the events that come after the clear().
LabelledLate(ep) == ep

Labelled(ep) == [ep EXCEPT !.recovery = @ \/ recovering]

\* _enforce_max_episodes(), once every episode.json is written: as many
\* completed episodes go, oldest first, as there are directories too many.
\* Slip: the newest go first.
SurplusNewest(dirs) ==
  LET complete == {e \in DOMAIN dirs : dirs[e].status \in Completed}
  IN  {e \in complete :
         /\ MaxEpisodes # 0
         /\ Cardinality({d \in complete : d > e}) + MaxEpisodes < Cardinality(DOMAIN dirs)}

Surplus(dirs) ==
  LET complete == {e \in DOMAIN dirs : dirs[e].status \in Completed}
  IN  {e \in complete :
         /\ MaxEpisodes # 0
         /\ Cardinality({d \in complete : d < e}) + MaxEpisodes < Cardinality(DOMAIN dirs)}

Enforced(dirs) == [e \in DOMAIN dirs \ Surplus(dirs) |-> dirs[e]]

\* Slip: the episode stays attached after the labels are merged.
DetachedNever == Labelled(Stopped("success"))

Detached == None

\* What the histories say of the active episode is over with it.
EndOfHistory ==
  /\ written' = {}
  /\ inOrder' = [inOrder EXCEPT !.logs = <<>>]
  /\ recovered' = FALSE
  /\ disturbed' = FALSE

StopEpisode(outcome) ==
  /\ active # None
  /\ disk' = Enforced(Write(Labelled(Stopped(outcome))))
  /\ active' = Detached
  /\ recovering' = FALSE
  /\ leftover' = (buffer # <<>>)
  /\ EndOfHistory
  /\ UNCHANGED <<started, pending, buffer, frameLogger>>

\* The first write raises: the episode stays active, completed in memory only.
\* The second raises: the status is on disk or lost again, and the episode is
\* active again, with its labels.
StopFails(outcome) ==
  /\ active # None
  /\ \/ active' = Stopped(outcome) /\ disk' \in Raised(disk)
     \/ active' = Labelled(Stopped(outcome)) /\ disk' \in Raised(Write(Stopped(outcome)))
  /\ disturbed' = TRUE
  /\ UNCHANGED <<started, pending, buffer, frameLogger, written, recovering, inOrder,
                 leftover, recovered>>

\* Only a request writes the tags of the failure miner: that write raises.
TagsFail(outcome) ==
  /\ active # None
  /\ active' = Labelled(Stopped(outcome))
  /\ disk' \in Raised(Write(active'))
  /\ disturbed' = TRUE
  /\ UNCHANGED <<started, pending, buffer, frameLogger, written, recovering, inOrder,
                 leftover, recovered>>

-----------------------------------------------------------------------------
(* _on_task_status, with auto_record.                                      *)

TaskRuns ==
  /\ task = "idle"
  /\ task' = "running"
  /\ \/ active # None /\ UNCHANGED <<volatile, disk, started, written, history>>
     \/ StartEpisode /\ UNCHANGED alone
     \/ StartFails /\ alone' = FALSE

\* Succeeded or failed: whatever episode is active ends.
TaskEnds ==
  \E outcome \in {"success", "failure"} :
    /\ task = "running"
    /\ task' = "idle"
    /\ \/ active = None /\ UNCHANGED <<volatile, disk, started, written, history>>
       \/ StopEpisode(outcome) /\ UNCHANGED alone
       \/ StopFails(outcome) /\ alone' = FALSE

\* A cancelled task ends no episode.
TaskCancelled ==
  /\ task = "running"
  /\ task' = "idle"
  /\ alone' = FALSE
  /\ UNCHANGED <<volatile, disk, started, written, inOrder, leftover, recovered, disturbed>>

-----------------------------------------------------------------------------
(* _on_execution_event: processed at once, or buffered during a pause.     *)

\* SkillLogger.process_event and add_skill_log.
Processed(st, event) ==
  IF event.kind = "started" THEN [st EXCEPT !.pending = @ \cup {event.call}]
  ELSE IF event.kind = "ended" /\ event.call \in st.pending
    THEN [pending |-> st.pending \ {event.call}, logs |-> Append(st.logs, event.call)]
  ELSE st

Logs == IF active = None THEN <<>> ELSE active.logs

Keep(st) ==
  /\ pending' = st.pending
  /\ active' = IF active = None THEN None ELSE [active EXCEPT !.logs = st.logs]

ExecutionEvent(event) ==
  /\ Len(Logs) < MaxLogs /\ Len(inOrder.logs) < MaxLogs
  /\ recovering' = (recovering \/ event.kind = "recovery_started")
  /\ recovered' = (recovered \/ (event.kind = "recovery_started" /\ active # None))
  /\ inOrder' = [Processed(inOrder, event) EXCEPT !.logs = IF active = None THEN <<>> ELSE @]
  /\ IF Paused
       THEN /\ Len(buffer) < MaxBuffer
            /\ buffer' = Append(buffer, event)
            /\ UNCHANGED <<active, pending>>
       ELSE /\ Keep(Processed([pending |-> pending, logs |-> Logs], event))
            /\ UNCHANGED buffer
  /\ UNCHANGED <<disk, started, frameLogger, written, task, leftover, disturbed, alone>>

\* maybe_capture(): the count is the name of the frame's files.
Capture ==
  /\ frameLogger' = [frameLogger EXCEPT !.count = @ + 1]
  /\ written' = written \cup {frameLogger.count}

\* _on_robot_state: a frame, when the time since the last allows one.
RobotState ==
  /\ Recording /\ frameLogger # None
  /\ frameLogger.count < MaxFrames
  /\ Capture
  /\ UNCHANGED <<active, disk, started, pending, buffer, recovering, task, history>>

-----------------------------------------------------------------------------
(* _handle_episode_control                                                 *)

StartRequest ==
  /\ StartEpisode \/ StartFails
  /\ alone' = FALSE
  /\ UNCHANGED task

StopRequest ==
  /\ \E outcome \in {"success", "failure"} :
       StopEpisode(outcome) \/ StopFails(outcome) \/ TagsFail(outcome)
  /\ alone' = FALSE
  /\ UNCHANGED task

PauseRequest ==
  /\ Recording
  /\ active' = [active EXCEPT !.status = "paused"]
  /\ UNCHANGED <<disk, started, pending, buffer, frameLogger, written, recovering, task, history>>

\* The buffered events are processed, and the frame logger starts again.
\* Slip: the buffer is read without being cleared.
FlushedUncleared == buffer

Flushed == <<>>

ResumeRequest ==
  /\ Paused
  /\ LET st == FoldLeft(Processed, [pending |-> pending, logs |-> active.logs], buffer)
     IN  /\ pending' = st.pending
         /\ active' = [active EXCEPT !.status = "recording", !.logs = st.logs]
  /\ buffer' = Flushed
  /\ frameLogger' = [frameLogger EXCEPT !.count = 0]
  /\ UNCHANGED <<disk, started, written, recovering, task, history>>

\* Labels from outside are merged and the episode is written as it is.
LabelRequest ==
  /\ active # None
  /\ \E ep \in {active, [active EXCEPT !.recovery = TRUE]} :
       /\ active' = ep
       /\ disk' \in {Write(ep)} \cup Raised(disk)
  /\ UNCHANGED <<started, pending, buffer, frameLogger, written, recovering, task, history>>

EpisodeControl ==
  StartRequest \/ StopRequest \/ PauseRequest \/ ResumeRequest \/ LabelRequest

-----------------------------------------------------------------------------
\* A new process knows nothing of the old one's episode.
Restart ==
  /\ active' = None
  /\ pending' = {}
  /\ buffer' = <<>>
  /\ frameLogger' = None
  /\ recovering' = FALSE
  /\ leftover' = FALSE
  /\ EndOfHistory
  /\ alone' = FALSE
  /\ UNCHANGED <<started, task>>

Crash == Restart /\ UNCHANGED disk

\* _shutdown(): the active episode ends as a failure, without labels.
Shutdown ==
  /\ active # None
  /\ disk' \in {Write(Stopped("failure"))} \cup Raised(disk)
  /\ Restart

Next ==
  \/ TaskRuns \/ TaskEnds \/ TaskCancelled
  \/ \E event \in Events : ExecutionEvent(event)
  \/ RobotState
  \/ EpisodeControl
  \/ Crash \/ Shutdown

Spec == Init /\ [][Next]_vars

-----------------------------------------------------------------------------
DataTypeOK ==
  /\ active = None \/ active \in Episodes
  /\ DOMAIN disk \subseteq 1 .. started
  /\ \A e \in DOMAIN disk :
       disk[e] \in [status : Completed, recovery : BOOLEAN] \cup {Unfinished}
  /\ started \in 0 .. LastEpisode
  /\ pending \subseteq Calls
  /\ buffer \in Seq(Events)
  /\ frameLogger = None \/ frameLogger \in FrameLoggers
  /\ written \subseteq 0 .. MaxFrames
  /\ recovering \in BOOLEAN
  /\ task \in {"idle", "running"}

\* Frames go to the directory of the episode being recorded, however it was
\* started (_on_task_status, _handle_episode_control), and that directory is
\* there.
FramesGoToEpisode ==
  Recording => /\ frameLogger # None /\ frameLogger.dir = active.id
               /\ active.id \in DOMAIN disk

\* Without service requests, cancelled tasks and faults an episode is active
\* exactly while a task runs (_on_task_status).
EpisodesFollowTasks == alone => (active # None <=> task = "running")

\* What was logged while paused is logged on resume, once and in the order of
\* the events, unless an episode ended with events in the buffer.
LogsKeepOrder == Recording /\ ~ leftover => active.logs = inOrder.logs

\* The record of an episode is its own and complete: its frames are in its
\* directory, its skill logs in the order of the events, through pauses and
\* resumes, and its life is that of the task while nobody interferes.
DataStateOK == DataTypeOK /\ FramesGoToEpisode /\ EpisodesFollowTasks /\ LogsKeepOrder

ActiveIs(e) == active # None /\ active.id = e
Disturbed == {e \in Ids : disturbed /\ ActiveIs(e)}

\* The outcome on disk of a stopped episode never changes, unless its stop was
\* disturbed: then the next stop, of whatever task, ends it again.
OutcomeStays ==
  \A e \in (DOMAIN disk \cap DOMAIN disk') \ Disturbed :
    disk[e].status \in Completed => disk'[e].status = disk[e].status

\* A recovery that started during an episode is in its labels, when its stop
\* was not disturbed (a shutdown makes none, but ends the episode as a failure).
RecoveryIsLabelled ==
  \A e \in DOMAIN disk' \ Disturbed :
    recovered /\ active' = None /\ ActiveIs(e) /\ disk'[e].status = "completed_success"
      => disk'[e].recovery

\* What is on disk of an episode that was stopped without a fault is final, and
\* complete when it ended successfully (stop, merge_labels).  Two cases are left
\* out, for the code makes no more of them: an episode whose stop raised stays
\* active, and its outcome changes with the next stop or is lost with the next
\* write that raises; and a shutdown ends an episode as a failure without labels.
StoppedEpisodesAreFinal == [][OutcomeStays /\ RecoveryIsLabelled]_vars

\* Only completed episodes are deleted, the oldest first, and the one just
\* stopped is kept as long as fewer than max_episodes directories hold no
\* completed episode.
OldestGoFirst ==
  [][ LET gone == DOMAIN disk \ DOMAIN disk'
          open == {e \in DOMAIN disk' : disk'[e].status \notin Completed}
          ended == IF active = None THEN {} ELSE {active.id}
      IN  /\ \A e \in gone \ ended : disk[e].status \in Completed
          /\ \A e \in gone : \A d \in DOMAIN disk' : disk'[d].status \in Completed => e < d
          /\ gone # {} /\ Cardinality(open) < MaxEpisodes => ended \subseteq DOMAIN disk' ]_vars

\* frame_logger.py:106 "Reset the rate limiter (called on episode
\* start/resume)": a resumed episode goes on after the frames it has.
FramesAreKept == Recording => frameLogger.count \notin written

=============================================================================
