----------------------------- MODULE SafetyGuard -----------------------------
(***************************************************************************)
(* roboweave_safety/safety_guard.py: the safety level, the emergency-stop  *)
(* latch and the list of active violations, one action per method.         *)
(*                                                                         *)
(* The list never holds a type twice (the methods test before they append) *)
(* and nothing reads its order, so it is a set here.                       *)
(***************************************************************************)
EXTENDS Naturals

CONSTANTS
  ViolationTypes,   \* violation_type values the monitors emit
  Operators,        \* operator ids that are not blank
  BlankOperator,    \* an empty or all-space operator id
  Batches           \* the lists of events handed to process_violations()

VARIABLES
  level,             \* _level
  eStopActive,       \* _e_stop_active
  eStopLatched,      \* _e_stop_latched
  activeViolations   \* _active_violations

guardVars == <<level, eStopActive, eStopLatched, activeViolations>>

Levels == {"normal", "warning", "critical", "emergency_stop"}

\* A SafetyEvent.  No caller in the repository raises one at
\* level NORMAL.
Events == [type : ViolationTypes, level : Levels \ {"normal"}]

ASSUME GuardAssumption ==
  /\ BlankOperator \notin Operators
  /\ Batches \subseteq SUBSET Events

AnyAt(events, l) == \E e \in events : e.level = l

GuardInit ==
  /\ level = "normal"
  /\ eStopActive = FALSE
  /\ eStopLatched = FALSE
  /\ activeViolations = {}

-----------------------------------------------------------------------------
\* Mutated loop: an EMERGENCY_STOP event raises the level and forgets the flags.
EscalateWithoutLatch(events) ==
  /\ level' = IF AnyAt(events, "emergency_stop") THEN "emergency_stop"
              ELSE IF AnyAt(events, "critical") THEN "critical" ELSE level
  /\ UNCHANGED <<eStopActive, eStopLatched>>

\* The loop of process_violations() over a batch: whatever the order of the
\* events, the level ends at the worst of them and never below where it was.
Escalate(events) ==
  /\ level' = IF AnyAt(events, "emergency_stop") THEN "emergency_stop"
              ELSE IF AnyAt(events, "critical") /\ level \in {"normal", "warning"}
                   THEN "critical"
              ELSE IF AnyAt(events, "warning") /\ level = "normal" THEN "warning"
              ELSE level
  /\ eStopActive' = (eStopActive \/ AnyAt(events, "emergency_stop"))
  /\ eStopLatched' = (eStopLatched \/ AnyAt(events, "emergency_stop"))

\* process_violations()
ProcessViolations(events) ==
  IF eStopLatched
  THEN UNCHANGED guardVars
  ELSE /\ activeViolations' = activeViolations \cup {e.type : e \in events}
       /\ Escalate(events)

\* emergency_stop()
EmergencyStop ==
  /\ level' = "emergency_stop"
  /\ eStopActive' = TRUE
  /\ eStopLatched' = TRUE
  /\ UNCHANGED activeViolations

\* Mutated release_stop(): leaves the list of violations behind.
ReleaseStopKeepingList(operator) ==
  IF operator = BlankOperator
  THEN UNCHANGED guardVars
  ELSE /\ level' = "normal"
       /\ eStopActive' = FALSE
       /\ eStopLatched' = FALSE
       /\ UNCHANGED activeViolations

\* release_stop(): a blank operator id is refused.
ReleaseStop(operator) ==
  IF operator = BlankOperator
  THEN UNCHANGED guardVars
  ELSE /\ level' = "normal"
       /\ eStopActive' = FALSE
       /\ eStopLatched' = FALSE
       /\ activeViolations' = {}

\* Mutated enter_safe_mode(): the name of the violation ends up in the level.
EnterSafeModeAsLevel ==
  IF eStopLatched
  THEN UNCHANGED guardVars
  ELSE /\ level' = "safe_mode"
       /\ activeViolations' = activeViolations \cup {"safe_mode"}
       /\ UNCHANGED <<eStopActive, eStopLatched>>

\* enter_safe_mode(): also brings CRITICAL down to WARNING.
EnterSafeMode ==
  IF eStopLatched
  THEN UNCHANGED guardVars
  ELSE /\ level' = "warning"
       /\ activeViolations' = activeViolations \cup {"safe_mode"}
       /\ UNCHANGED <<eStopActive, eStopLatched>>

\* clear_violations(): empties the list and steps down one level.
ClearViolations ==
  IF eStopLatched
  THEN UNCHANGED guardVars
  ELSE /\ activeViolations' = {}
       /\ level' = IF level = "warning" THEN "normal"
                   ELSE IF level = "critical" THEN "warning" ELSE level
       /\ UNCHANGED <<eStopActive, eStopLatched>>

\* Any caller, any batch of events.
GuardNext ==
  \/ \E events \in Batches : ProcessViolations(events)
  \/ EmergencyStop
  \/ \E operator \in Operators \cup {BlankOperator} : ReleaseStop(operator)
  \/ EnterSafeMode
  \/ ClearViolations

GuardSpec == GuardInit /\ [][GuardNext]_guardVars

-----------------------------------------------------------------------------
\* Every variable has its type; safe_mode shares the list with the violations.
GuardTypeOK ==
  /\ level \in Levels
  /\ eStopActive \in BOOLEAN
  /\ eStopLatched \in BOOLEAN
  /\ activeViolations \subseteq ViolationTypes \cup {"safe_mode"}

\* The three records of an emergency stop never disagree.  Each reader looks
\* at a different one (the guard's methods at the latch, the VLA filter at
\* e_stop_active, the status message at all three), so a disagreement would
\* let actions through during a stop or refuse them after it.
StopLatchConsistent ==
  /\ eStopLatched <=> level = "emergency_stop"
  /\ eStopActive <=> level = "emergency_stop"

\* A level reported as normal means nothing is listed against it.
NormalMeansNoViolations == level = "normal" => activeViolations = {}

\* What every caller may rely on between two calls, in whatever order the
\* methods were used: types, the records of a stop, an honest normal level.
GuardStateOK == GuardTypeOK /\ StopLatchConsistent /\ NormalMeansNoViolations

\* While the stop is latched no sequence of events, safe-mode requests or
\* recoveries changes anything, up to the release that resets everything.
LatchedStopIsFrozen ==
  [][eStopLatched => /\ level' = "normal" /\ activeViolations' = {}
                     /\ ~eStopActive' /\ ~eStopLatched']_guardVars
=============================================================================
