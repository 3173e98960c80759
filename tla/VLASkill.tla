------------------------------- MODULE VLASkill -------------------------------
(***************************************************************************)
(* roboweave_vla/vla_skill_base.py with vla_monitor.py: execute() of a VLA *)
(* skill, cut at its awaits, and cancel().  A skill is one object in the   *)
(* registry; it asks for no resource, so nothing keeps two calls of it     *)
(* apart, and they share the flag _cancelled.  Each call has a monitor of  *)
(* its own.                                                                *)
(*                                                                         *)
(* predict() and reset() belong to the subclass: they return after any     *)
(* time, or raise.  A cancelled task (the orchestrator's timeout, for one) *)
(* raises CancelledError at whatever await it stands at.                   *)
(***************************************************************************)
EXTENDS Naturals, Sequences

CONSTANTS
  Executions,       \* calls of execute()
  MaxSteps,         \* of each: inputs["max_steps"], 0 for no limit
  Timeout,          \* of each: inputs["timeout_sec"] in ticks, 0 for no limit
  LowLimit,         \* consecutive_low_confidence_limit
  MaxPredictions    \* bound: predictions of one execution

ASSUME SkillAssumption ==
  /\ MaxSteps \in [Executions -> Nat]
  /\ Timeout \in [Executions -> Nat]
  /\ LowLimit \in Nat \ {0}
  /\ MaxPredictions \in Nat

VARIABLES
  cancelled,     \* _cancelled, of the skill
  at,            \* where each execution stands
  steps,         \* its monitor: _steps
  consecutiveLow,\* its monitor: _consecutive_low
  age,           \* its monitor: time since _start_time
  result,        \* its status, or its failure code
  answers,       \* history: what predict() answered, and when
  heard          \* history: what has become of the last cancel() it lived through

monitorVars == <<steps, consecutiveLow, age>>

vars == <<cancelled, at, steps, consecutiveLow, age, result, answers, heard>>

\* The awaits: reset() at the start, predict(), reset() on the way out.
Places == {"idle", "resetting", "predicting", "leaving", "done"}

\* What ends an execution by its monitor.
Limits == {"VLA_CONFIDENCE_LOW", "VLA_TIMEOUT", "success"}

Results == Limits \cup {"none", "VLA_PREDICT_ERROR", "cancelled", "raised"}

Running(e) == at[e] \in {"resetting", "predicting", "leaving"}

-----------------------------------------------------------------------------
\* Mutated check(): looks at the clock before it looks at the confidences.
CheckTimeoutFirst(n, low, t, e) ==
  IF Timeout[e] > 0 /\ t > Timeout[e] THEN "VLA_TIMEOUT"
  ELSE IF low >= LowLimit THEN "VLA_CONFIDENCE_LOW"
  ELSE IF MaxSteps[e] > 0 /\ n >= MaxSteps[e] THEN "success"
  ELSE "none"

\* VLAMonitor.check() after n steps, the last low of them of low confidence, at
\* age t.  It also counts rejections; execute() asks no filter and records none.
Check(n, low, t, e) ==
  IF low >= LowLimit THEN "VLA_CONFIDENCE_LOW"
  ELSE IF Timeout[e] > 0 /\ t > Timeout[e] THEN "VLA_TIMEOUT"
  ELSE IF MaxSteps[e] > 0 /\ n >= MaxSteps[e] THEN "success"
  ELSE "none"

\* Mutated record_step(): a confident answer does not end the row of low ones.
LowAfterCounting(low, confident) == IF confident THEN low ELSE low + 1

\* VLAMonitor.record_step()
LowAfter(low, confident) == IF confident THEN 0 ELSE low + 1

\* The test of the loop.
LoopTest == IF cancelled THEN "leaving" ELSE "predicting"

\* A start takes a standing cancel() from everybody who heard it.
Undone == [e \in Executions |-> IF heard[e] = "standing" THEN "undone" ELSE heard[e]]

\* Mutated execute(): does not clear the flag, as if only one call were made.
ExecuteKeepingFlag(e) ==
  /\ at[e] = "idle"
  /\ at' = [at EXCEPT ![e] = "resetting"]
  /\ heard' = Undone
  /\ UNCHANGED <<cancelled, monitorVars, result, answers>>

\* execute() up to its first await: a new monitor, and the flag cleared.
Execute(e) ==
  /\ at[e] = "idle"
  /\ cancelled' = FALSE
  /\ at' = [at EXCEPT ![e] = "resetting"]
  /\ heard' = Undone
  /\ UNCHANGED <<monitorVars, result, answers>>

\* Mutated start: the flag is cleared after the reset, where vla_node.py has it.
StartClearing(e) ==
  /\ at[e] = "resetting"
  /\ cancelled' = FALSE
  /\ at' = [at EXCEPT ![e] = "predicting"]
  /\ UNCHANGED <<monitorVars, result, answers, heard>>

\* reset() returns: monitor.start(), the first test of the loop.
Start(e) ==
  /\ at[e] = "resetting"
  /\ at' = [at EXCEPT ![e] = LoopTest]
  /\ UNCHANGED <<cancelled, monitorVars, result, answers, heard>>

\* predict() answers: record_step(), check(), and the test of the loop when the
\* monitor lets it go on.
Predicted(e, confident) ==
  /\ at[e] = "predicting" /\ steps[e] < MaxPredictions
  /\ steps' = [steps EXCEPT ![e] = @ + 1]
  /\ consecutiveLow' = [consecutiveLow EXCEPT ![e] = LowAfter(@, confident)]
  /\ answers' = [answers EXCEPT ![e] = Append(@, [confident |-> confident, age |-> age[e]])]
  /\ result' = [result EXCEPT ![e] = Check(steps'[e], consecutiveLow'[e], age[e], e)]
  /\ at' = [at EXCEPT ![e] = IF result'[e] \in Limits THEN "done" ELSE LoopTest]
  /\ UNCHANGED <<cancelled, age, heard>>

\* predict() raises: an answer of its own kind, and no second reset().
PredictRaises(e) ==
  /\ at[e] = "predicting"
  /\ result' = [result EXCEPT ![e] = "VLA_PREDICT_ERROR"]
  /\ at' = [at EXCEPT ![e] = "done"]
  /\ UNCHANGED <<cancelled, monitorVars, answers, heard>>

\* The reset() after the loop returns.
Cancelled(e) ==
  /\ at[e] = "leaving"
  /\ result' = [result EXCEPT ![e] = "cancelled"]
  /\ at' = [at EXCEPT ![e] = "done"]
  /\ UNCHANGED <<cancelled, monitorVars, answers, heard>>

\* A reset() raises, or the task is cancelled at one of the awaits (except
\* Exception does not catch CancelledError): the exception leaves execute().
Raised(e) ==
  /\ Running(e)
  /\ result' = [result EXCEPT ![e] = "raised"]
  /\ at' = [at EXCEPT ![e] = "done"]
  /\ UNCHANGED <<cancelled, monitorVars, answers, heard>>

\* cancel(), which names no execution.
Cancel ==
  /\ cancelled' = TRUE
  /\ heard' = [e \in Executions |-> IF Running(e) THEN "standing" ELSE heard[e]]
  /\ UNCHANGED <<at, monitorVars, result, answers>>

\* Time passes for the monitors that were started, up to where it no longer
\* makes a difference.
Elapse ==
  /\ age' = [e \in Executions |->
               IF at[e] = "predicting" /\ age[e] <= Timeout[e] THEN age[e] + 1 ELSE age[e]]
  /\ UNCHANGED <<cancelled, at, steps, consecutiveLow, result, answers, heard>>

Init ==
  /\ cancelled = FALSE
  /\ at = [e \in Executions |-> "idle"]
  /\ steps = [e \in Executions |-> 0]
  /\ consecutiveLow = [e \in Executions |-> 0]
  /\ age = [e \in Executions |-> 0]
  /\ result = [e \in Executions |-> "none"]
  /\ answers = [e \in Executions |-> <<>>]
  /\ heard = [e \in Executions |-> "none"]

Next ==
  \/ \E e \in Executions :
       \/ Execute(e) \/ Start(e) \/ PredictRaises(e) \/ Cancelled(e) \/ Raised(e)
       \/ \E confident \in BOOLEAN : Predicted(e, confident)
  \/ Cancel
  \/ Elapse

Spec == Init /\ [][Next]_vars

-----------------------------------------------------------------------------
\* Every variable has its type.
TypeOK ==
  /\ cancelled \in BOOLEAN
  /\ at \in [Executions -> Places]
  /\ steps \in [Executions -> Nat]
  /\ consecutiveLow \in [Executions -> Nat]
  /\ age \in [Executions -> Nat]
  /\ result \in [Executions -> Results]
  /\ answers \in [Executions -> Seq([confident : BOOLEAN, age : Nat])]
  /\ heard \in [Executions -> {"none", "standing", "undone"}]

\* The answers of an execution up to the n-th end in a full row of low ones.
RowOfLow(e, n) ==
  n >= LowLimit /\ \A i \in (n - LowLimit + 1)..n : ~answers[e][i].confident

\* What the n-th answer of an execution calls for, said of the answers alone: a
\* row of low ones comes before the time, and both before success.
Due(e, n) ==
  IF n = 0 THEN "none"
  ELSE IF RowOfLow(e, n) THEN "VLA_CONFIDENCE_LOW"
  ELSE IF Timeout[e] > 0 /\ answers[e][n].age > Timeout[e] THEN "VLA_TIMEOUT"
  ELSE IF MaxSteps[e] > 0 /\ n >= MaxSteps[e] THEN "success"
  ELSE "none"

\* An execution ends at the first answer that calls for an end, with the result
\* it calls for, and with no limit's result otherwise: nothing is predicted past
\* max_steps, at most one answer comes after the timeout, low answers are
\* counted in a row only, and a call that ran next to others, was cancelled or
\* saw predict() raise is not taken for one that met a limit.
ResultsAreEarned ==
  \A e \in Executions :
    /\ \A n \in 0..(Len(answers[e]) - 1) : Due(e, n) = "none"
    /\ Due(e, Len(answers[e])) = IF result[e] \in Limits THEN result[e] ELSE "none"

\* What cancel() is worth to calls that share its flag: an execution that heard
\* one begins no further prediction, not even the first, unless another call of
\* the skill started since; and none leaves its loop as cancelled that lived
\* through no cancel() at all.
CancelIsHeard ==
  [][\A e \in Executions :
       /\ heard[e] = "standing" /\ at'[e] = "predicting"
            => at[e] = "predicting" /\ answers'[e] = answers[e]
       /\ at'[e] = "leaving" => heard[e] # "none"]_vars
=============================================================================
