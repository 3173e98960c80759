---------------------------- MODULE VLASkillProofs ----------------------------
(***************************************************************************)
(* Proofs about VLASkill: the results of its executions and the reach of   *)
(* cancel(), for any number of overlapping calls, limits and timeouts.     *)
(***************************************************************************)
EXTENDS VLASkill, TLAPS

Answer == [confident : BOOLEAN, age : Nat]

\* What _consecutive_low counts: the answers end in low ones, and before those
\* stands a confident one or nothing.
Counts(s, low) ==
  /\ low <= Len(s)
  /\ \A i \in (Len(s) - low + 1)..Len(s) : ~s[i].confident
  /\ low < Len(s) => s[Len(s) - low].confident

MonitorInv ==
  \A e \in Executions :
    /\ steps[e] = Len(answers[e])
    /\ Counts(answers[e], consecutiveLow[e])
    /\ at[e] # "done" => result[e] = "none"

\* The flag stands where a cancel() is standing, and only by a cancel() that
\* every running execution heard; whoever left its loop heard one.
FlagInv ==
  \A e \in Executions :
    /\ heard[e] = "standing" => cancelled
    /\ Running(e) /\ cancelled => heard[e] # "none"
    /\ at[e] = "leaving" => heard[e] # "none"

SkillInv == TypeOK /\ MonitorInv /\ ResultsAreEarned /\ FlagInv

-----------------------------------------------------------------------------
LEMMA AppendedAnswers ==
  ASSUME NEW s \in Seq(Answer), NEW a \in Answer
  PROVE  /\ Append(s, a) \in Seq(Answer)
         /\ Len(s) \in Nat /\ Len(Append(s, a)) = Len(s) + 1
         /\ Append(s, a)[Len(s) + 1] = a
         /\ \A i \in 1..Len(s) : Append(s, a)[i] = s[i]
  OBVIOUS

\* record_step() keeps the count of the row.
LEMMA CountIsKept ==
  ASSUME NEW s \in Seq(Answer), NEW a \in Answer, NEW low \in Nat, Counts(s, low)
  PROVE  /\ LowAfter(low, a.confident) \in Nat
         /\ Counts(Append(s, a), LowAfter(low, a.confident))
<1> DEFINE r == Append(s, a)
<1>1. /\ Len(s) \in Nat /\ Len(r) = Len(s) + 1 /\ r[Len(s) + 1] = a
      /\ \A i \in 1..Len(s) : r[i] = s[i]
  BY AppendedAnswers
<1>2. a.confident \in BOOLEAN
  BY DEF Answer
<1> HIDE DEF r
<1>3. CASE a.confident
  BY <1>1, <1>3 DEF Counts, LowAfter
<1>4. CASE ~a.confident
  <2>1. LowAfter(low, a.confident) = low + 1
    BY <1>4 DEF LowAfter
  <2>2. low + 1 <= Len(r)
    BY <1>1 DEF Counts
  <2>3. ASSUME NEW i \in (Len(r) - (low + 1) + 1)..Len(r) PROVE ~r[i].confident
    <3>1. CASE i = Len(s) + 1
      BY <1>1, <1>4, <3>1
    <3>2. CASE i # Len(s) + 1
      <4>1. i \in (Len(s) - low + 1)..Len(s) /\ i \in 1..Len(s)
        BY <1>1, <3>2 DEF Counts
      <4> QED
        BY <1>1, <4>1 DEF Counts
    <3> QED
      BY <3>1, <3>2
  <2>4. ASSUME low + 1 < Len(r) PROVE r[Len(r) - (low + 1)].confident
    <3>1. low < Len(s) /\ Len(r) - (low + 1) = Len(s) - low /\ Len(s) - low \in 1..Len(s)
      BY <1>1, <2>4
    <3> QED
      BY <1>1, <3>1 DEF Counts
  <2> QED
    BY <2>1, <2>2, <2>3, <2>4 DEF Counts, r
<1> QED
  BY <1>2, <1>3, <1>4 DEF r

\* A counter at its limit is a full row of low answers, and the other way round.
LEMMA CountIsRow ==
  ASSUME NEW s \in Seq(Answer), NEW low \in Nat, Counts(s, low),
         NEW limit \in Nat \ {0}
  PROVE  low >= limit <=> /\ Len(s) >= limit
                          /\ \A i \in (Len(s) - limit + 1)..Len(s) : ~s[i].confident
<1>1. Len(s) \in Nat
  OBVIOUS
<1>2. ASSUME low >= limit
      PROVE  /\ Len(s) >= limit
             /\ \A i \in (Len(s) - limit + 1)..Len(s) : ~s[i].confident
  <2>1. ASSUME NEW i \in (Len(s) - limit + 1)..Len(s) PROVE ~s[i].confident
    <3>1. i \in (Len(s) - low + 1)..Len(s)
      BY <1>1, <1>2
    <3> QED
      BY <3>1 DEF Counts
  <2> QED
    BY <1>1, <1>2, <2>1 DEF Counts
<1>3. ASSUME low < limit, Len(s) >= limit,
             \A i \in (Len(s) - limit + 1)..Len(s) : ~s[i].confident
      PROVE  FALSE
  <2>1. low < Len(s) /\ Len(s) - low \in (Len(s) - limit + 1)..Len(s)
    BY <1>1, <1>3
  <2> QED
    BY <1>3, <2>1 DEF Counts
<1> QED
  BY <1>1, <1>2, <1>3

LEMMA MonitorTypes ==
  ASSUME TypeOK, NEW e \in Executions
  PROVE  /\ answers[e] \in Seq(Answer) /\ Len(answers[e]) \in Nat
         /\ steps[e] \in Nat /\ consecutiveLow[e] \in Nat /\ age[e] \in Nat
         /\ result[e] \in Results /\ at[e] \in Places
         /\ LowLimit \in Nat \ {0} /\ MaxSteps[e] \in Nat /\ Timeout[e] \in Nat
  BY SkillAssumption DEF TypeOK, Answer

\* An execution whose answers stay as they are is owed what it was owed.
LEMMA DueStays ==
  ASSUME NEW e \in Executions, answers'[e] = answers[e], NEW n
  PROVE  Due(e, n)' = Due(e, n)
  BY DEF Due, RowOfLow

\* A new answer leaves what the earlier ones called for.
LEMMA EarlierDueStays ==
  ASSUME TypeOK, NEW e \in Executions, NEW a \in Answer,
         answers'[e] = Append(answers[e], a), NEW n \in 0..Len(answers[e])
  PROVE  Due(e, n)' = Due(e, n)
<1>1. /\ \A i \in 1..Len(answers[e]) : answers'[e][i] = answers[e][i]
      /\ Len(answers[e]) \in Nat
  BY MonitorTypes, AppendedAnswers
<1>2. CASE n = 0
  BY <1>2 DEF Due
<1>3. CASE n \in 1..Len(answers[e])
  <2>1. answers'[e][n] = answers[e][n]
    BY <1>1, <1>3
  <2>2. RowOfLow(e, n)' <=> RowOfLow(e, n)
    <3>1. ASSUME NEW i \in (n - LowLimit + 1)..n, n >= LowLimit
          PROVE  answers'[e][i] = answers[e][i]
      BY <1>1, <1>3, <3>1, SkillAssumption
    <3> QED
      BY <3>1 DEF RowOfLow
  <2> QED
    BY <2>1, <2>2 DEF Due
<1> QED
  BY <1>1, <1>2, <1>3

\* check() after record_step() says what the last answer, the n-th, calls for.
LEMMA CheckIsDue ==
  ASSUME TypeOK, MonitorInv, NEW e \in Executions, NEW a \in Answer, a.age = age[e],
         answers'[e] = Append(answers[e], a)
  PROVE  \A n, low : n = steps[e] + 1 /\ low = LowAfter(consecutiveLow[e], a.confident)
           => /\ n = Len(answers'[e]) /\ n \in Nat /\ low \in Nat
              /\ Counts(answers'[e], low)
              /\ Due(e, n)' = Check(n, low, age[e], e)
<1> SUFFICES ASSUME NEW n, n = steps[e] + 1,
                    NEW low, low = LowAfter(consecutiveLow[e], a.confident)
             PROVE  /\ n = Len(answers'[e]) /\ n \in Nat /\ low \in Nat
                    /\ Counts(answers'[e], low)
                    /\ Due(e, n)' = Check(n, low, age[e], e)
  OBVIOUS
<1>0. PICK s : s = Append(answers[e], a) /\ answers'[e] = s
  OBVIOUS
<1>1. /\ s \in Seq(Answer) /\ n = Len(s) /\ s[n] = a
      /\ n \in Nat /\ n # 0 /\ low \in Nat /\ Counts(s, low)
  <2>1. answers[e] \in Seq(Answer) /\ consecutiveLow[e] \in Nat /\ steps[e] \in Nat
    BY MonitorTypes
  <2>2. steps[e] = Len(answers[e]) /\ Counts(answers[e], consecutiveLow[e])
    BY DEF MonitorInv
  <2>3. low \in Nat /\ Counts(s, low)
    BY <1>0, <2>1, <2>2, CountIsKept
  <2> QED
    BY <1>0, <2>1, <2>2, <2>3, AppendedAnswers
<1>2. RowOfLow(e, n)' <=> low >= LowLimit
  <2>1. low >= LowLimit <=> /\ Len(s) >= LowLimit
                            /\ \A i \in (Len(s) - LowLimit + 1)..Len(s) : ~s[i].confident
    <3>1. s \in Seq(Answer) /\ low \in Nat /\ Counts(s, low) /\ LowLimit \in Nat \ {0}
      BY <1>1, SkillAssumption
    <3> HIDE <1>1
    <3> QED
      BY <3>1, CountIsRow
  <2>2. low >= LowLimit <=> n >= LowLimit /\ \A i \in (n - LowLimit + 1)..n : ~s[i].confident
    BY <1>1, <2>1
  <2> QED
    BY <1>0, <2>2 DEF RowOfLow
<1>3. Due(e, n)' = IF low >= LowLimit THEN "VLA_CONFIDENCE_LOW"
                   ELSE IF Timeout[e] > 0 /\ age[e] > Timeout[e] THEN "VLA_TIMEOUT"
                   ELSE IF MaxSteps[e] > 0 /\ n >= MaxSteps[e] THEN "success"
                   ELSE "none"
  BY <1>0, <1>1, <1>2 DEF Due
<1> QED
  BY <1>0, <1>1, <1>3 DEF Check

-----------------------------------------------------------------------------
LEMMA SkillStarts == Init => SkillInv
<1> SUFFICES ASSUME Init PROVE SkillInv
  OBVIOUS
<1>1. TypeOK
  <2>1. <<>> \in Seq([confident : BOOLEAN, age : Nat])
    OBVIOUS
  <2> QED
    BY <2>1 DEF Init, TypeOK, Places, Results, Limits
<1>2. ASSUME NEW e \in Executions
      PROVE  /\ answers[e] = <<>> /\ Len(answers[e]) = 0
             /\ steps[e] = 0 /\ consecutiveLow[e] = 0 /\ result[e] = "none"
             /\ heard[e] = "none" /\ ~cancelled /\ at[e] = "idle"
  BY DEF Init
<1>3. MonitorInv
  <2>1. ASSUME NEW e \in Executions PROVE Counts(answers[e], 0)
    BY <1>2 DEF Counts
  <2> QED
    BY <1>2, <2>1 DEF MonitorInv
<1>4. ResultsAreEarned
  <2>1. ASSUME NEW e PROVE Due(e, 0) = "none"
    BY DEF Due
  <2>2. "none" \notin Limits
    BY DEF Limits
  <2>3. 0..(0 - 1) = {}
    OBVIOUS
  <2> QED
    BY <1>2, <2>1, <2>2, <2>3 DEF ResultsAreEarned
<1>5. FlagInv
  BY <1>2 DEF FlagInv
<1> QED
  BY <1>1, <1>3, <1>4, <1>5 DEF SkillInv

LEMMA TypesKept ==
  ASSUME TypeOK, [Next]_vars
  PROVE  TypeOK'
<1> USE DEF TypeOK, monitorVars
<1>1. ASSUME NEW e \in Executions, Execute(e) \/ Start(e) PROVE TypeOK'
  BY <1>1 DEF Execute, Start, Undone, LoopTest, Places
<1>2. ASSUME NEW e \in Executions, PredictRaises(e) \/ Cancelled(e) \/ Raised(e)
      PROVE  TypeOK'
  BY <1>2 DEF PredictRaises, Cancelled, Raised, Results, Places
<1>3. ASSUME NEW e \in Executions, NEW confident \in BOOLEAN, Predicted(e, confident)
      PROVE  TypeOK'
  <2>1. steps' \in [Executions -> Nat] /\ consecutiveLow' \in [Executions -> Nat]
    BY <1>3 DEF Predicted, LowAfter
  <2>2. Check(steps'[e], consecutiveLow'[e], age[e], e) \in Results
    BY DEF Check, Results, Limits
  <2>3. result' \in [Executions -> Results] /\ at' \in [Executions -> Places]
    BY <1>3, <2>2 DEF Predicted, LoopTest, Places
  <2>4. answers' \in [Executions -> Seq([confident : BOOLEAN, age : Nat])]
    <3>1. Append(answers[e], [confident |-> confident, age |-> age[e]])
            \in Seq([confident : BOOLEAN, age : Nat])
      OBVIOUS
    <3> QED
      BY <1>3, <3>1 DEF Predicted
  <2> QED
    BY <1>3, <2>1, <2>3, <2>4 DEF Predicted
<1>4. CASE Cancel
  BY <1>4 DEF Cancel
<1>5. CASE Elapse
  BY <1>5 DEF Elapse
<1>6. CASE UNCHANGED vars
  BY <1>6 DEF vars
<1> QED
  BY <1>1, <1>2, <1>3, <1>4, <1>5, <1>6 DEF Next

\* What SkillInv says of the monitor and the result of one execution.
Earned(e) ==
  /\ steps[e] = Len(answers[e])
  /\ Counts(answers[e], consecutiveLow[e])
  /\ at[e] # "done" => result[e] = "none"
  /\ \A n \in 0..(Len(answers[e]) - 1) : Due(e, n) = "none"
  /\ Due(e, steps[e]) = IF result[e] \in Limits THEN result[e] ELSE "none"

LEMMA EarnedOneByOne ==
  MonitorInv /\ ResultsAreEarned <=> \A e \in Executions : Earned(e)
  BY DEF MonitorInv, ResultsAreEarned, Earned

\* A step that leaves the answers and the monitor of an execution alone, and
\* gives it no result but those that have nothing to do with limits.
LEMMA EarnedStays ==
  ASSUME NEW e \in Executions, Earned(e), answers'[e] = answers[e], steps'[e] = steps[e],
         consecutiveLow'[e] = consecutiveLow[e],
         \/ result'[e] = result[e] /\ (at'[e] # "done" => at[e] # "done")
         \/ /\ at[e] # "done" /\ at'[e] = "done"
            /\ result'[e] \in {"VLA_PREDICT_ERROR", "cancelled", "raised"}
  PROVE  Earned(e)'
<1>1. \A n : Due(e, n)' = Due(e, n)
  BY DueStays
<1>2. IF result'[e] \in Limits THEN result'[e] = result[e] /\ result[e] \in Limits
                               ELSE result[e] \notin Limits
  BY DEF Earned, Limits
<1>3. Due(e, steps[e]) = IF result'[e] \in Limits THEN result'[e] ELSE "none"
  BY <1>2 DEF Earned
<1>4. at'[e] # "done" => result'[e] = "none"
  BY DEF Earned
<1>5. /\ steps'[e] = Len(answers'[e])
      /\ Counts(answers'[e], consecutiveLow'[e])
  BY DEF Earned
<1>6. \A n \in 0..(Len(answers'[e]) - 1) : Due(e, n)' = "none"
  BY <1>1 DEF Earned
<1> QED
  BY <1>1, <1>3, <1>4, <1>5, <1>6 DEF Earned

\* An answer of predict(): the result is the one it calls for, or none yet.
LEMMA EarnedByAnswer ==
  ASSUME TypeOK, MonitorInv, NEW e \in Executions, Earned(e),
         NEW confident \in BOOLEAN, Predicted(e, confident)
  PROVE  Earned(e)'
<1> DEFINE a == [confident |-> confident, age |-> age[e]]
           s == Append(answers[e], a)
           n == steps[e] + 1
           low == LowAfter(consecutiveLow[e], a.confident)
<1>1. /\ answers'[e] = s /\ steps'[e] = n /\ consecutiveLow'[e] = low
      /\ result'[e] = Check(n, low, age[e], e)
      /\ at'[e] = IF result'[e] \in Limits THEN "done" ELSE LoopTest
      /\ at[e] = "predicting"
  BY DEF TypeOK, Predicted
<1>2. a \in Answer /\ a.age = age[e]
  BY MonitorTypes DEF Answer
<1> HIDE DEF a, s, n, low
<1>3. /\ n = Len(s) /\ n \in Nat /\ low \in Nat /\ Counts(s, low)
      /\ \A m : m = n => Due(e, m)' = Check(n, low, age[e], e)
  <2>1. answers'[e] = Append(answers[e], a)
    BY <1>1 DEF s
  <2>2. n = steps[e] + 1 /\ low = LowAfter(consecutiveLow[e], a.confident)
    BY DEF n, low
  <2>3. \A m, l : m = steps[e] + 1 /\ l = LowAfter(consecutiveLow[e], a.confident)
          => /\ m = Len(answers'[e]) /\ m \in Nat /\ l \in Nat
             /\ Counts(answers'[e], l)
             /\ Due(e, m)' = Check(m, l, age[e], e)
    BY <1>2, <2>1, CheckIsDue
  <2> QED
    BY <1>1, <2>2, <2>3
<1>4. Check(n, low, age[e], e) \in Limits \cup {"none"} /\ "none" \notin Limits
  BY DEF Check, Limits
<1>5. result[e] = "none" /\ Len(answers[e]) = steps[e] /\ steps[e] \in Nat
  BY <1>1, MonitorTypes DEF Earned
<1>6. ASSUME NEW m \in 0..(n - 1) PROVE Due(e, m)' = "none"
  <2>1. m \in 0..Len(answers[e])
    BY <1>5, <1>6 DEF n
  <2>2. Due(e, m)' = Due(e, m)
    BY <1>1, <1>2, <2>1, EarlierDueStays DEF s
  <2>3. Due(e, m) = "none"
    <3>1. CASE m = steps[e]
      BY <1>4, <1>5, <3>1 DEF Earned
    <3>2. CASE m \in 0..(Len(answers[e]) - 1)
      BY <3>2 DEF Earned
    <3> QED
      BY <1>5, <2>1, <3>1, <3>2
  <2> QED
    BY <2>2, <2>3
<1>7. at'[e] # "done" => result'[e] = "none"
  BY <1>1, <1>4
<1>8. Due(e, steps[e])' = IF result'[e] \in Limits THEN result'[e] ELSE "none"
  BY <1>1, <1>3, <1>4
<1> QED
  BY <1>1, <1>3, <1>6, <1>7, <1>8 DEF Earned

LEMMA EarnedKept ==
  ASSUME TypeOK, MonitorInv, ResultsAreEarned, [Next]_vars
  PROVE  MonitorInv' /\ ResultsAreEarned'
<1> SUFFICES ASSUME NEW e \in Executions PROVE Earned(e)'
  BY DEF MonitorInv, ResultsAreEarned, Earned
<1>1. Earned(e)
  BY EarnedOneByOne
<1> USE DEF TypeOK, monitorVars
<1>2. ASSUME NEW f \in Executions, NEW confident \in BOOLEAN, Predicted(f, confident)
      PROVE  Earned(e)'
  <2>1. CASE e = f
    BY <1>1, <1>2, <2>1, EarnedByAnswer
  <2>2. CASE e # f
    <3>1. /\ answers'[e] = answers[e] /\ steps'[e] = steps[e] /\ at'[e] = at[e]
          /\ consecutiveLow'[e] = consecutiveLow[e] /\ result'[e] = result[e]
      BY <1>2, <2>2 DEF Predicted
    <3> QED
      BY <1>1, <3>1, EarnedStays
  <2> QED
    BY <2>1, <2>2
<1>3. ASSUME NEW f \in Executions, Execute(f) \/ Start(f) PROVE Earned(e)'
  <2>1. /\ answers'[e] = answers[e] /\ steps'[e] = steps[e] /\ result'[e] = result[e]
        /\ consecutiveLow'[e] = consecutiveLow[e]
        /\ at'[e] # "done" => at[e] # "done"
    BY <1>3 DEF Execute, Start, LoopTest
  <2> QED
    BY <1>1, <2>1, EarnedStays
<1>4. ASSUME NEW f \in Executions, PredictRaises(f) \/ Cancelled(f) \/ Raised(f)
      PROVE  Earned(e)'
  <2>1. /\ answers'[e] = answers[e] /\ steps'[e] = steps[e]
        /\ consecutiveLow'[e] = consecutiveLow[e]
    BY <1>4 DEF PredictRaises, Cancelled, Raised
  <2>2. CASE e = f
    <3>1. /\ at[e] # "done" /\ at'[e] = "done"
          /\ result'[e] \in {"VLA_PREDICT_ERROR", "cancelled", "raised"}
      BY <1>4, <2>2 DEF PredictRaises, Cancelled, Raised, Running
    <3> QED
      BY <1>1, <2>1, <3>1, EarnedStays
  <2>3. CASE e # f
    <3>1. result'[e] = result[e] /\ at'[e] = at[e]
      BY <1>4, <2>3 DEF PredictRaises, Cancelled, Raised
    <3> QED
      BY <1>1, <2>1, <3>1, EarnedStays
  <2> QED
    BY <2>2, <2>3
<1>5. ASSUME Cancel \/ Elapse \/ UNCHANGED vars PROVE Earned(e)'
  <2>1. /\ answers'[e] = answers[e] /\ steps'[e] = steps[e] /\ at'[e] = at[e]
        /\ consecutiveLow'[e] = consecutiveLow[e] /\ result'[e] = result[e]
    BY <1>5 DEF Cancel, Elapse, vars
  <2> QED
    BY <1>1, <2>1, EarnedStays
<1> QED
  BY <1>2, <1>3, <1>4, <1>5 DEF Next

LEMMA FlagKept ==
  ASSUME TypeOK, FlagInv, [Next]_vars
  PROVE  FlagInv'
<1> USE DEF TypeOK, FlagInv, monitorVars, Running
<1>1. ASSUME NEW e \in Executions, Execute(e) PROVE FlagInv'
  BY <1>1 DEF Execute, Undone
<1>2. ASSUME NEW e \in Executions, Start(e) PROVE FlagInv'
  BY <1>2 DEF Start, LoopTest
<1>3. ASSUME NEW e \in Executions, NEW confident \in BOOLEAN, Predicted(e, confident)
      PROVE  FlagInv'
  BY <1>3 DEF Predicted, LoopTest
<1>4. ASSUME NEW e \in Executions, PredictRaises(e) \/ Cancelled(e) \/ Raised(e)
      PROVE  FlagInv'
  BY <1>4 DEF PredictRaises, Cancelled, Raised
<1>5. CASE Cancel
  BY <1>5 DEF Cancel
<1>6. CASE Elapse \/ UNCHANGED vars
  BY <1>6 DEF Elapse, vars
<1> QED
  BY <1>1, <1>2, <1>3, <1>4, <1>5, <1>6 DEF Next

LEMMA SkillStep == SkillInv /\ [Next]_vars => SkillInv'
  BY TypesKept, EarnedKept, FlagKept DEF SkillInv

\* The types, and ResultsAreEarned: for any number of overlapping calls, any
\* limits and any timeouts, an execution ends at the first answer that calls
\* for an end, with the result it calls for, and with no other limit's result.
THEOREM SkillInvariant == Spec => [](TypeOK /\ ResultsAreEarned)
<1>1. SkillInv => TypeOK /\ ResultsAreEarned
  BY DEF SkillInv
<1> QED
  BY SkillStarts, SkillStep, <1>1, PTL DEF Spec

\* CancelIsHeard: an execution that heard a cancel() begins no further
\* prediction unless a later start cleared the flag, and none is cancelled that
\* heard of no cancel(), although the flag is shared and names nobody.
THEOREM CancelReachesRunning == Spec => CancelIsHeard
<1> DEFINE Heard(e) ==
      /\ heard[e] = "standing" /\ at'[e] = "predicting"
           => at[e] = "predicting" /\ answers'[e] = answers[e]
      /\ at'[e] = "leaving" => heard[e] # "none"
<1>1. ASSUME SkillInv, Next, NEW e \in Executions PROVE Heard(e)
  <2> USE <1>1 DEF SkillInv, TypeOK, FlagInv, monitorVars, Running
  <2>1. ASSUME NEW f \in Executions, Execute(f) PROVE Heard(e)
    BY <2>1 DEF Execute
  <2>2. ASSUME NEW f \in Executions, Start(f) PROVE Heard(e)
    BY <2>2 DEF Start, LoopTest
  <2>3. ASSUME NEW f \in Executions, NEW confident \in BOOLEAN, Predicted(f, confident)
        PROVE  Heard(e)
    BY <2>3 DEF Predicted, LoopTest
  <2>4. ASSUME NEW f \in Executions, PredictRaises(f) \/ Cancelled(f) \/ Raised(f)
        PROVE  Heard(e)
    BY <2>4 DEF PredictRaises, Cancelled, Raised
  <2>5. CASE Cancel \/ Elapse
    BY <2>5 DEF Cancel, Elapse
  <2> QED
    BY <1>1, <2>1, <2>2, <2>3, <2>4, <2>5 DEF Next
<1>2. SkillInv /\ [Next]_vars => [\A e \in Executions : Heard(e)]_vars
  BY <1>1
<1> QED
  BY SkillStarts, SkillStep, <1>2, PTL DEF Spec, CancelIsHeard
=============================================================================
