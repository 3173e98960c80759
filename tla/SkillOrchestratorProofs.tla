---------------------- MODULE SkillOrchestratorProofs ----------------------
(***************************************************************************)
(* Proofs about the lock table, for every set of holders and of resources, *)
(* and about execute_skill and cancel_skill, for any number of calls,      *)
(* skills and resources: with ids that are used again, that no lock is     *)
(* without an owner; the rest when every call has an id of its own.        *)
(*                                                                         *)
(* The invariant that carries the rest says of every invocation nobody     *)
(* has cancelled ("Undisturbed") that its locks are held and that _running *)
(* points to it, and that no two calls share an id.  Where nobody may call *)
(* cancel_skill an invocation stays undisturbed until its finally block,   *)
(* timeouts included; otherwise until a CancelledError is on its way.      *)
(***************************************************************************)
EXTENDS SkillOrchestrator, TLAPS

-----------------------------------------------------------------------------
(* The lock table: its two operations *)

\* Releasing keeps the dictionaries well typed.
LEMMA ReleaseType ==
  ASSUME TypeOK, NEW h \in Holders, Release(h)
  PROVE  TypeOK'
BY DEF TypeOK, Release

\* Granting keeps the dictionaries well typed.
LEMMA GrantType ==
  ASSUME TypeOK, NEW h \in Holders,
         NEW S \in SUBSET Resources, NEW X \in SUBSET Resources, Grant(h, S, X)
  PROVE  TypeOK'
BY DEF TypeOK, Grant

\* release() cannot bring a reader next to a writer.
LEMMA ReleaseExclusion ==
  ASSUME TypeOK, ReadersExcludeWriter, NEW h \in Holders, Release(h)
  PROVE  ReadersExcludeWriter'
BY NoHolderAssumption DEF TypeOK, ReadersExcludeWriter, Release

\* acquire() grants nothing that would put a reader next to a writer.
LEMMA AcquireExclusion ==
  ASSUME TypeOK, ReadersExcludeWriter, NEW h \in Holders,
         NEW S \in SUBSET Resources, NEW X \in SUBSET Resources, Acquire(h, S, X)
  PROVE  ReadersExcludeWriter'
<1> SUFFICES ASSUME NEW r \in Resources, exclusive'[r] # NoHolder
             PROVE  shared'[r] \subseteq {exclusive'[r]}
  BY DEF ReadersExcludeWriter
<1>1. /\ exclusive'[r] = IF r \in X THEN h ELSE exclusive[r]
      /\ shared'[r] = IF r \in S THEN shared[r] \cup {h} ELSE shared[r]
  BY DEF Acquire, Grant
<1>2. CASE r \in X
  BY <1>1, <1>2 DEF Acquire, Grantable, CanAcquireExclusive
<1>3. CASE r \notin X
  <2>1. exclusive'[r] = exclusive[r] /\ shared[r] \subseteq {exclusive[r]}
    BY <1>1, <1>3 DEF ReadersExcludeWriter
  <2>2. r \in S => exclusive[r] = h
    BY <1>1, <1>3 DEF Acquire, Grantable, CanAcquireShared
  <2> QED BY <1>1, <2>1, <2>2
<1> QED BY <1>2, <1>3

-----------------------------------------------------------------------------
(* The lock table: its invariants *)

\* The dictionaries of ResourceManager keep their declared types.
THEOREM TypeCorrect == Spec => []TypeOK
<1>1. Init => TypeOK
  BY DEF Init, TypeOK
<1>2. TypeOK /\ [Next]_lockVars => TypeOK'
  <2> SUFFICES ASSUME TypeOK, [Next]_lockVars PROVE TypeOK'
    OBVIOUS
  <2>1. CASE UNCHANGED lockVars
    BY <2>1 DEF TypeOK, lockVars
  <2>2. ASSUME NEW h \in Holders, Release(h) PROVE TypeOK'
    BY <2>2, ReleaseType
  <2>3. ASSUME NEW h \in Holders, NEW S \in SUBSET Resources, NEW X \in SUBSET Resources,
               Acquire(h, S, X)
        PROVE  TypeOK'
    BY <2>3, GrantType DEF Acquire
  <2> QED BY <2>1, <2>2, <2>3 DEF Next
<1> QED BY <1>1, <1>2, PTL DEF Spec

\* No sequence of acquire() and release() calls lets a reader in beside a
\* writer of the same resource.
THEOREM WriterExcludesReaders == Spec => []ReadersExcludeWriter
<1>1. Init => ReadersExcludeWriter
  BY DEF Init, ReadersExcludeWriter
<1>2. TypeOK /\ ReadersExcludeWriter /\ [Next]_lockVars => ReadersExcludeWriter'
  <2> SUFFICES ASSUME TypeOK, ReadersExcludeWriter, [Next]_lockVars
               PROVE  ReadersExcludeWriter'
    OBVIOUS
  <2>1. CASE UNCHANGED lockVars
    BY <2>1 DEF ReadersExcludeWriter, lockVars
  <2>2. ASSUME NEW h \in Holders, Release(h) PROVE ReadersExcludeWriter'
    BY <2>2, ReleaseExclusion
  <2>3. ASSUME NEW h \in Holders, NEW S \in SUBSET Resources, NEW X \in SUBSET Resources,
               Acquire(h, S, X)
        PROVE  ReadersExcludeWriter'
    BY <2>3, AcquireExclusion
  <2> QED BY <2>1, <2>2, <2>3 DEF Next
<1> QED BY <1>1, <1>2, TypeCorrect, PTL DEF Spec

-----------------------------------------------------------------------------
(* The lock table: its refinement *)

\* Every step of the two dictionaries is a step of the abstract lock table, or
\* leaves it alone: acquire() takes all it was asked for or nothing, and no call
\* takes anything away from another holder.
THEOREM Refinement == Spec => ImplementsLockTable
<1> DEFINE grants == [h \in Holders |-> Owned(h)]
<1>1. Init => Locks!Init
  BY NoHolderAssumption DEF Init, Locks!Init, Locks!NoGrant, Owned
<1>2. TypeOK /\ [Next]_lockVars => [Locks!Next]_grants
  <2> SUFFICES ASSUME TypeOK, [Next]_lockVars PROVE [Locks!Next]_grants
    OBVIOUS
  <2>1. CASE UNCHANGED lockVars
    BY <2>1 DEF lockVars, Owned
  <2>2. ASSUME NEW h \in Holders, Release(h) PROVE Locks!Release(h)
    <3>1. Owned(h)' = Locks!NoGrant
      BY <2>2, NoHolderAssumption DEF TypeOK, Release, Owned, Locks!NoGrant
    <3>2. ASSUME NEW g \in Holders \ {h} PROVE Owned(g)' = Owned(g)
      BY <2>2, NoHolderAssumption DEF TypeOK, Release, Owned
    <3> QED BY <3>1, <3>2 DEF Locks!Release
  <2>3. ASSUME NEW h \in Holders, NEW S \in SUBSET Resources, NEW X \in SUBSET Resources,
               Acquire(h, S, X)
        PROVE  \E request \in Locks!Grants : Locks!Acquire(h, request)
    <3> DEFINE request == [shared |-> S, exclusive |-> X]
    <3>1. request \in Locks!Grants
      BY DEF Locks!Grants
    <3>2. ASSUME NEW g \in Holders \ {h} PROVE ~ Locks!Conflict(request, Owned(g))
      <4>1. X \cap (Owned(g).exclusive \cup Owned(g).shared) = {}
        BY <2>3, NoHolderAssumption
        DEF Acquire, Grantable, CanAcquireExclusive, Owned
      <4>2. Owned(g).exclusive \cap S = {}
        BY <2>3, NoHolderAssumption DEF Acquire, Grantable, CanAcquireShared, Owned
      <4> QED BY <4>1, <4>2 DEF Locks!Conflict
    <3>3. Owned(h)' = [shared    |-> Owned(h).shared \cup S,
                       exclusive |-> Owned(h).exclusive \cup X]
      BY <2>3 DEF TypeOK, Acquire, Grant, Owned
    <3>4. ASSUME NEW g \in Holders \ {h} PROVE Owned(g)' = Owned(g)
      <4>1. \A r \in X : exclusive[r] # g
        BY <2>3, NoHolderAssumption DEF Acquire, Grantable, CanAcquireExclusive
      <4> QED BY <2>3, <4>1 DEF TypeOK, Acquire, Grant, Owned
    <3>5. Locks!Acquire(h, request)
      BY <3>2, <3>3, <3>4 DEF Locks!Acquire
    <3> QED BY <3>1, <3>5
  <2>4. CASE Next
    BY <2>4, <2>2, <2>3 DEF Next, Locks!Next
  <2> QED BY <2>1, <2>4
<1> QED BY <1>1, <1>2, TypeCorrect, PTL DEF Spec, ImplementsLockTable, Locks!Spec

-----------------------------------------------------------------------------
(* The invariant of the orchestrator *)

\* The part of an invocation's life in which its locks are promised to it.
Undisturbed(i) ==
  \/ skillTask[i] \in {"ready", "executing"}
  \/ Live(i) /\ Cancellable = {}

HoldsNeeds(i) ==
  /\ \A r \in ExclusiveNeed(i) : exclusive[r] = Id(i)
  /\ \A r \in SharedNeed(i) : Id(i) \in shared[r]

SubmittedHaveCalls == \A i \in Invocations : phase[i] # "absent" => call[i] \in Calls

DistinctIds ==
  \A i, j \in Invocations :
    i # j /\ call[i] # NoCall /\ call[j] # NoCall => Id(i) # Id(j)

TasksAreLive ==
  \A i \in Invocations :
    skillTask[i] \in {"ready", "executing", "aborting", "cancelling"} => Live(i)

UndisturbedHold == \A i \in Invocations : Undisturbed(i) => HoldsNeeds(i)

UndisturbedRunning == \A i \in Invocations : Undisturbed(i) => running[Id(i)] = i

OrchestratorInv ==
  /\ OrchestratorTypeOK
  /\ ReadersExcludeWriter
  /\ SubmittedHaveCalls
  /\ DistinctIds
  /\ TasksAreLive
  /\ UndisturbedHold
  /\ UndisturbedRunning

-----------------------------------------------------------------------------
(* The lock operations, seen from another invocation *)

\* What a skill asks for is a set of resources.
LEMMA NeedsAreResources ==
  ASSUME NEW i \in Invocations, call[i] \in Calls
  PROVE  /\ SharedNeed(i) \in SUBSET Resources
         /\ ExclusiveNeed(i) \in SUBSET Resources
         /\ Id(i) \in Holders
BY SkillsAssumption DEF Calls, SharedNeed, ExclusiveNeed, Id

\* release() of another id leaves an invocation's locks alone.
LEMMA ReleaseKeepsOthers ==
  ASSUME NEW i \in Invocations, call[i] \in Calls, call'[i] = call[i], HoldsNeeds(i),
         NEW h \in Holders, Id(i) # h, Release(h)
  PROVE  HoldsNeeds(i)'
<1>1. /\ SharedNeed(i)' = SharedNeed(i) /\ SharedNeed(i) \in SUBSET Resources
      /\ ExclusiveNeed(i)' = ExclusiveNeed(i) /\ ExclusiveNeed(i) \in SUBSET Resources
      /\ Id(i)' = Id(i)
  BY NeedsAreResources DEF SharedNeed, ExclusiveNeed, Id
<1> QED BY <1>1 DEF HoldsNeeds, Release

\* acquire() for another id leaves an invocation's locks alone.
LEMMA AcquireKeepsOthers ==
  ASSUME NEW i \in Invocations, call[i] \in Calls, call'[i] = call[i], HoldsNeeds(i),
         NEW h \in Holders, Id(i) # h, NEW S, NEW X, Acquire(h, S, X)
  PROVE  HoldsNeeds(i)'
<1>1. /\ SharedNeed(i)' = SharedNeed(i) /\ SharedNeed(i) \in SUBSET Resources
      /\ ExclusiveNeed(i)' = ExclusiveNeed(i) /\ ExclusiveNeed(i) \in SUBSET Resources
      /\ Id(i)' = Id(i) /\ Id(i) \in Holders
  BY NeedsAreResources DEF SharedNeed, ExclusiveNeed, Id
<1>2. ASSUME NEW r \in ExclusiveNeed(i) PROVE exclusive'[r] = Id(i)
  <2>1. exclusive[r] = Id(i) /\ Id(i) # NoHolder
    BY <1>1, NoHolderAssumption DEF HoldsNeeds
  <2>2. r \notin X
    BY <2>1 DEF Acquire, Grantable, CanAcquireExclusive
  <2> QED BY <1>1, <2>1, <2>2 DEF Acquire, Grant
<1>3. ASSUME NEW r \in SharedNeed(i) PROVE Id(i) \in shared'[r]
  BY <1>1 DEF HoldsNeeds, Acquire, Grant
<1> QED BY <1>1, <1>2, <1>3 DEF HoldsNeeds

\* After a granted acquire() the invocation holds what it asked for.
LEMMA AcquireGivesNeeds ==
  ASSUME NEW i \in Invocations, call[i] \in Calls, call'[i] = call[i],
         Acquire(Id(i), SharedNeed(i), ExclusiveNeed(i))
  PROVE  HoldsNeeds(i)'
<1>1. /\ SharedNeed(i)' = SharedNeed(i) /\ SharedNeed(i) \in SUBSET Resources
      /\ ExclusiveNeed(i)' = ExclusiveNeed(i) /\ ExclusiveNeed(i) \in SUBSET Resources
      /\ Id(i)' = Id(i)
  BY NeedsAreResources DEF SharedNeed, ExclusiveNeed, Id
<1> QED BY <1>1 DEF HoldsNeeds, Acquire, Grant

\* Steps that change neither the locks nor the call keep them held.
LEMMA UnchangedKeeps ==
  ASSUME NEW i \in Invocations, call'[i] = call[i], HoldsNeeds(i), UNCHANGED lockVars
  PROVE  HoldsNeeds(i)'
BY DEF HoldsNeeds, SharedNeed, ExclusiveNeed, Id, lockVars

\* What the invariant says of one undisturbed invocation.
LEMMA UndisturbedFacts ==
  ASSUME OrchestratorInv, NEW i \in Invocations, Undisturbed(i)
  PROVE  /\ Live(i)
         /\ call[i] \in Calls
         /\ call[i] # NoCall
         /\ HoldsNeeds(i)
         /\ running[Id(i)] = i
BY NullAssumption
DEF OrchestratorInv, Undisturbed, TasksAreLive, Live, SubmittedHaveCalls,
    UndisturbedHold, UndisturbedRunning

-----------------------------------------------------------------------------
(* One lemma per kind of step *)

\* RegisterSkill touches no invocation.
LEMMA RegisterKeepsInv ==
  ASSUME OrchestratorInv, NEW s \in Skills, RegisterSkill(s)
  PROVE  OrchestratorInv'
<1> USE DEF OrchestratorInv, RegisterSkill, taskVars, lockVars
<1>1. OrchestratorTypeOK'
  BY DEF OrchestratorTypeOK, TypeOK
<1>2. ReadersExcludeWriter'
  BY DEF ReadersExcludeWriter
<1>3. SubmittedHaveCalls' /\ DistinctIds' /\ TasksAreLive'
  BY DEF SubmittedHaveCalls, DistinctIds, TasksAreLive, Live, Id
<1>4. UndisturbedHold' /\ UndisturbedRunning'
  BY DEF UndisturbedHold, UndisturbedRunning, Undisturbed, Live, HoldsNeeds,
         ExclusiveNeed, SharedNeed, Id
<1> QED BY <1>1, <1>2, <1>3, <1>4

\* Submit gives a new invocation an id nobody has used.
LEMMA SubmitKeepsInv ==
  ASSUME OrchestratorInv, UniqueIds,
         NEW i \in Invocations, NEW c \in Calls, Submit(i, c)
  PROVE  OrchestratorInv'
<1> USE DEF OrchestratorInv, Submit, CreateTask, lockVars
<1>1. OrchestratorTypeOK'
  BY DEF OrchestratorTypeOK, TypeOK, Phases
<1>2. ReadersExcludeWriter'
  BY DEF ReadersExcludeWriter
<1>3. SubmittedHaveCalls' /\ DistinctIds'
  BY DEF SubmittedHaveCalls, DistinctIds, OrchestratorTypeOK, Id
<1>4. TasksAreLive'
  BY DEF TasksAreLive, Live, OrchestratorTypeOK
<1>5. ASSUME NEW j \in Invocations, Undisturbed(j)'
      PROVE  HoldsNeeds(j)' /\ running'[Id(j)'] = j
  <2>1. Undisturbed(j) /\ j # i
    BY <1>5 DEF Undisturbed, Live, OrchestratorTypeOK, TasksAreLive
  <2>2. call'[j] = call[j] /\ HoldsNeeds(j) /\ running[Id(j)] = j
    BY <2>1, UndisturbedFacts DEF OrchestratorTypeOK
  <2> QED BY <2>2, UnchangedKeeps DEF Id
<1>6. UndisturbedHold' /\ UndisturbedRunning'
  BY <1>5 DEF UndisturbedHold, UndisturbedRunning
<1> QED BY <1>1, <1>2, <1>3, <1>4, <1>6

\* A step of a skill's own task, or of its deadline, changes no lock and no call.
LEMMA SkillTaskKeepsInv ==
  ASSUME OrchestratorInv, NEW i \in Invocations,
         StartSkill(i) \/ FinishSkill(i) \/ UnwindSkill(i) \/ Expire(i)
  PROVE  OrchestratorInv'
<1>1. /\ UNCHANGED <<lockVars, registry, call, phase, result, running>>
      /\ \/ skillTask[i] = "ready" /\ skillTask' = [skillTask EXCEPT ![i] = "executing"]
         \/ skillTask' = [skillTask EXCEPT ![i] = "finished"]
         \/ Live(i) /\ skillTask' = [skillTask EXCEPT ![i] = CancelState(@)]
  BY DEF StartSkill, FinishSkill, UnwindSkill, EndSkill, Expire
<1>2. OrchestratorTypeOK'
  <2>1. skillTask' \in [Invocations -> SkillTaskStates]
    BY <1>1 DEF OrchestratorInv, OrchestratorTypeOK, SkillTaskStates, CancelState
  <2>2. outcome' \in [Invocations -> Outcomes] /\ expired' \in [Invocations -> BOOLEAN]
    BY DEF OrchestratorInv, OrchestratorTypeOK, Outcomes, StartSkill, FinishSkill,
           UnwindSkill, EndSkill, Expire
  <2> QED BY <1>1, <2>1, <2>2 DEF OrchestratorInv, OrchestratorTypeOK, TypeOK, lockVars
<1>3. ReadersExcludeWriter' /\ SubmittedHaveCalls' /\ DistinctIds'
  BY <1>1 DEF OrchestratorInv, ReadersExcludeWriter, SubmittedHaveCalls, DistinctIds,
              Id, lockVars
<1>4. TasksAreLive'
  BY <1>1 DEF OrchestratorInv, OrchestratorTypeOK, TasksAreLive, Live, CancelState
<1>5. ASSUME NEW j \in Invocations, Undisturbed(j)' PROVE Undisturbed(j)
  BY <1>1, <1>5
  DEF OrchestratorInv, OrchestratorTypeOK, Undisturbed, Live, CancelState, SkillTaskStates
<1>6. UndisturbedHold' /\ UndisturbedRunning'
  BY <1>1, <1>5, UndisturbedFacts, UnchangedKeeps
  DEF UndisturbedHold, UndisturbedRunning, Id, lockVars
<1> QED BY <1>2, <1>3, <1>4, <1>6 DEF OrchestratorInv

\* The finally block ends one invocation and takes nothing from the others.
LEMMA FinallyKeepsInv ==
  ASSUME OrchestratorInv, NEW i \in Invocations, NEW r \in Results, Finally(i, r),
         phase[i] \in {"created", "waiting"},
         skillTask[i] \notin {"ready", "executing", "aborting", "cancelling"},
         UNCHANGED <<registry, call, skillTask, outcome, expired>>
  PROVE  OrchestratorInv'
<1> USE DEF OrchestratorInv, Finally
<1>1. call[i] \in Calls /\ call[i] # NoCall /\ Id(i) \in Holders
  BY NullAssumption, NeedsAreResources DEF SubmittedHaveCalls
<1>2. OrchestratorTypeOK'
  <2>1. TypeOK'
    BY <1>1, ReleaseType DEF OrchestratorTypeOK
  <2> QED BY <1>1, <2>1 DEF OrchestratorTypeOK, Phases
<1>3. ReadersExcludeWriter'
  BY <1>1, ReleaseExclusion DEF OrchestratorTypeOK
<1>4. SubmittedHaveCalls' /\ DistinctIds'
  BY <1>1 DEF SubmittedHaveCalls, DistinctIds, OrchestratorTypeOK, Id
<1>5. TasksAreLive'
  BY DEF TasksAreLive, Live, OrchestratorTypeOK
<1>6. ASSUME NEW j \in Invocations, Undisturbed(j)'
      PROVE  HoldsNeeds(j)' /\ running'[Id(j)'] = j
  <2>1. Undisturbed(j) /\ j # i
    BY <1>6 DEF Undisturbed, Live, OrchestratorTypeOK
  <2>2. /\ call[j] \in Calls /\ call[j] # NoCall
        /\ HoldsNeeds(j) /\ running[Id(j)] = j
    BY <2>1, UndisturbedFacts
  <2>3. Id(j) # Id(i) /\ Id(j) \in Holders
    BY <1>1, <2>1, <2>2, NeedsAreResources DEF DistinctIds
  <2>4. HoldsNeeds(j)'
    BY <1>1, <2>2, <2>3, ReleaseKeepsOthers
  <2> QED BY <1>1, <2>2, <2>3, <2>4 DEF OrchestratorTypeOK, Id
<1>7. UndisturbedHold' /\ UndisturbedRunning'
  BY <1>6 DEF UndisturbedHold, UndisturbedRunning
<1> QED BY <1>2, <1>3, <1>4, <1>5, <1>7

\* Whatever execute_skill does before its await keeps the invariant.
LEMMA BeginKeepsInv ==
  ASSUME OrchestratorInv, UniqueIds, NEW i \in Invocations, Begin(i)
  PROVE  OrchestratorInv'
<1>1. /\ call[i] \in Calls /\ call[i] # NoCall /\ Id(i) \in Holders
      /\ SharedNeed(i) \in SUBSET Resources /\ ExclusiveNeed(i) \in SUBSET Resources
      /\ phase[i] = "created"
      /\ skillTask[i] \notin {"ready", "executing", "aborting", "cancelling"}
  BY NullAssumption, NeedsAreResources
  DEF OrchestratorInv, SubmittedHaveCalls, TasksAreLive, Live, Begin
<1>2. CASE RejectConflict(i) \/ RejectPrecondition(i)
  BY <1>1, <1>2, FinallyKeepsInv DEF RejectConflict, RejectPrecondition, Begin, Results, Failures
<1>3. CASE RejectUnknownSkill(i)
  <2> USE <1>1, <1>3 DEF OrchestratorInv, RejectUnknownSkill, Begin, lockVars
  <2>1. OrchestratorTypeOK'
    BY DEF OrchestratorTypeOK, TypeOK, Phases, Results, Failures
  <2>2. ReadersExcludeWriter'
    BY DEF ReadersExcludeWriter
  <2>3. SubmittedHaveCalls' /\ DistinctIds' /\ TasksAreLive'
    BY DEF SubmittedHaveCalls, DistinctIds, TasksAreLive, Live, Id, OrchestratorTypeOK
  <2>4. ASSUME NEW j \in Invocations, Undisturbed(j)' PROVE Undisturbed(j)
    BY <2>4 DEF Undisturbed, Live, OrchestratorTypeOK
  <2>5. UndisturbedHold' /\ UndisturbedRunning'
    BY <2>4, UndisturbedFacts, UnchangedKeeps DEF UndisturbedHold, UndisturbedRunning, Id
  <2> QED BY <2>1, <2>2, <2>3, <2>5
<1>4. CASE Launch(i)
  <2> USE <1>1, <1>4 DEF OrchestratorInv, Launch, Begin
  <2>1. OrchestratorTypeOK'
    <3>1. TypeOK'
      BY GrantType DEF OrchestratorTypeOK, Acquire
    <3> QED BY <3>1 DEF OrchestratorTypeOK, Phases, SkillTaskStates
  <2>2. ReadersExcludeWriter'
    BY AcquireExclusion DEF OrchestratorTypeOK
  <2>3. SubmittedHaveCalls' /\ DistinctIds' /\ TasksAreLive'
    BY DEF SubmittedHaveCalls, DistinctIds, TasksAreLive, Live, Id, OrchestratorTypeOK
  <2>4. HoldsNeeds(i)' /\ running'[Id(i)'] = i
    BY AcquireGivesNeeds DEF OrchestratorTypeOK, Id
  <2>5. ASSUME NEW j \in Invocations, j # i, Undisturbed(j)'
        PROVE  HoldsNeeds(j)' /\ running'[Id(j)'] = j
    <3>1. Undisturbed(j)
      BY <2>5 DEF Undisturbed, Live, OrchestratorTypeOK
    <3>2. /\ call[j] \in Calls /\ call[j] # NoCall
          /\ HoldsNeeds(j) /\ running[Id(j)] = j
      BY <3>1, UndisturbedFacts
    <3>3. Id(j) # Id(i) /\ Id(j) \in Holders
      BY <2>5, <3>2, NeedsAreResources DEF DistinctIds
    <3>4. HoldsNeeds(j)'
      BY <3>2, <3>3, AcquireKeepsOthers
    <3> QED BY <3>2, <3>3, <3>4 DEF OrchestratorTypeOK, Id
  <2>6. UndisturbedHold' /\ UndisturbedRunning'
    BY <2>4, <2>5 DEF UndisturbedHold, UndisturbedRunning
  <2> QED BY <2>1, <2>2, <2>3, <2>6
<1> QED BY <1>2, <1>3, <1>4 DEF Begin

\* What execute_skill does after its await keeps the invariant.
LEMMA ResumeKeepsInv ==
  ASSUME OrchestratorInv, NEW i \in Invocations, Resume(i)
  PROVE  OrchestratorInv'
<1>1. outcome[i] \in Outcomes
  BY DEF OrchestratorInv, OrchestratorTypeOK
<1>2. PICK r \in Returns(i) : Finally(i, r)
  BY DEF Resume
<1>3. r \in Results
  BY <1>1 DEF Returns, Results, Failures, Outcomes
<1> QED BY <1>2, <1>3, FinallyKeepsInv DEF Resume, Live

\* cancel_skill frees the locks of one id; the invocation that has it is not
\* undisturbed any more.
LEMMA CancelKeepsInv ==
  ASSUME OrchestratorInv, NEW id \in Cancellable, CancelSkill(id)
  PROVE  OrchestratorInv'
<1> USE CallersAssumption DEF OrchestratorInv, CancelSkill
<1>1. \A j \in Invocations :
        skillTask'[j] = IF j = running[id] THEN CancelState(skillTask[j]) ELSE skillTask[j]
  BY NullAssumption DEF OrchestratorTypeOK
<1>2. OrchestratorTypeOK'
  <2>1. TypeOK'
    BY ReleaseType DEF OrchestratorTypeOK
  <2>2. skillTask' \in [Invocations -> SkillTaskStates]
    BY DEF OrchestratorTypeOK, SkillTaskStates, CancelState
  <2> QED BY <2>1, <2>2 DEF OrchestratorTypeOK
<1>3. ReadersExcludeWriter'
  BY ReleaseExclusion DEF OrchestratorTypeOK
<1>4. SubmittedHaveCalls' /\ DistinctIds' /\ TasksAreLive'
  BY <1>1 DEF SubmittedHaveCalls, DistinctIds, TasksAreLive, Live, Id, CancelState
<1>5. ASSUME NEW j \in Invocations, Undisturbed(j)'
      PROVE  HoldsNeeds(j)' /\ running'[Id(j)'] = j
  <2>1. skillTask'[j] \in {"ready", "executing"}
    BY <1>5 DEF Undisturbed
  <2>2. skillTask[j] \in {"ready", "executing"} /\ j # running[id]
    BY <1>1, <2>1 DEF CancelState
  <2>3. /\ call[j] \in Calls
        /\ HoldsNeeds(j) /\ running[Id(j)] = j
    BY <2>2, UndisturbedFacts DEF Undisturbed
  <2>4. Id(j) # id /\ Id(j) \in Holders
    BY <2>2, <2>3, NeedsAreResources
  <2>5. HoldsNeeds(j)'
    BY <2>3, <2>4, ReleaseKeepsOthers
  <2> QED BY <2>3, <2>4, <2>5 DEF OrchestratorTypeOK, Id
<1>6. UndisturbedHold' /\ UndisturbedRunning'
  BY <1>5 DEF UndisturbedHold, UndisturbedRunning
<1> QED BY <1>2, <1>3, <1>4, <1>6

-----------------------------------------------------------------------------
(* Theorems *)

\* The invariant holds of every behaviour whose callers never reuse an id.
THEOREM OrchestratorInvariant ==
  ASSUME UniqueIds
  PROVE  OrchestratorSpec => []OrchestratorInv
<1>1. OrchestratorInit => OrchestratorInv
  <2> SUFFICES ASSUME OrchestratorInit PROVE OrchestratorInv
    OBVIOUS
  <2> USE DEF OrchestratorInit, Init
  <2>1. OrchestratorTypeOK
    BY DEF OrchestratorTypeOK, TypeOK, Phases, SkillTaskStates, Outcomes, Results
  <2>2. ReadersExcludeWriter /\ SubmittedHaveCalls /\ DistinctIds
    BY DEF ReadersExcludeWriter, SubmittedHaveCalls, DistinctIds
  <2>3. TasksAreLive /\ UndisturbedHold /\ UndisturbedRunning
    BY DEF TasksAreLive, UndisturbedHold, UndisturbedRunning, Undisturbed, Live
  <2> QED BY <2>1, <2>2, <2>3 DEF OrchestratorInv
<1>2. OrchestratorInv /\ [OrchestratorNext]_orchestratorVars => OrchestratorInv'
  <2> SUFFICES ASSUME OrchestratorInv, [OrchestratorNext]_orchestratorVars
               PROVE  OrchestratorInv'
    OBVIOUS
  <2>1. CASE UNCHANGED orchestratorVars
    BY <2>1
    DEF orchestratorVars, taskVars, lockVars, OrchestratorInv, OrchestratorTypeOK, TypeOK,
        ReadersExcludeWriter, SubmittedHaveCalls, DistinctIds, TasksAreLive,
        UndisturbedHold, UndisturbedRunning, Undisturbed, Live, HoldsNeeds,
        SharedNeed, ExclusiveNeed, Id
  <2>2. ASSUME NEW s \in Skills, RegisterSkill(s) PROVE OrchestratorInv'
    BY <2>2, RegisterKeepsInv
  <2>3. ASSUME NEW i \in Invocations, NEW c \in Calls, Submit(i, c) PROVE OrchestratorInv'
    BY <2>3, SubmitKeepsInv
  <2>4. ASSUME NEW id \in Cancellable, CancelSkill(id) PROVE OrchestratorInv'
    BY <2>4, CancelKeepsInv
  <2>5. ASSUME NEW i \in Invocations, LoopStep(i) \/ FinishSkill(i) PROVE OrchestratorInv'
    BY <2>5, BeginKeepsInv, SkillTaskKeepsInv, ResumeKeepsInv DEF LoopStep
  <2> QED BY <2>1, <2>2, <2>3, <2>4, <2>5 DEF OrchestratorNext
<1> QED BY <1>1, <1>2, PTL DEF OrchestratorSpec

\* Two invocations that hold what they need do not compete.
LEMMA HoldersDoNotCompete ==
  ASSUME OrchestratorInv,
         NEW i \in Invocations, NEW j \in Invocations, i # j,
         Undisturbed(i), Undisturbed(j)
  PROVE  ~ Compete(i, j)
<1>1. /\ HoldsNeeds(i) /\ HoldsNeeds(j)
      /\ call[i] \in Calls /\ call[j] \in Calls
      /\ call[i] # NoCall /\ call[j] # NoCall
  BY UndisturbedFacts
<1>2. Id(i) # Id(j) /\ Id(i) # NoHolder /\ Id(j) # NoHolder
  BY <1>1, NoHolderAssumption, NeedsAreResources DEF OrchestratorInv, DistinctIds
<1>3. /\ SharedNeed(i) \subseteq Resources /\ ExclusiveNeed(i) \subseteq Resources
      /\ SharedNeed(j) \subseteq Resources /\ ExclusiveNeed(j) \subseteq Resources
  BY <1>1, NeedsAreResources
<1>4. ExclusiveNeed(i) \cap ExclusiveNeed(j) = {}
  BY <1>1, <1>2 DEF HoldsNeeds
<1>5. ExclusiveNeed(i) \cap SharedNeed(j) = {}
  BY <1>1, <1>2, <1>3 DEF HoldsNeeds, OrchestratorInv, ReadersExcludeWriter
<1>6. ExclusiveNeed(j) \cap SharedNeed(i) = {}
  BY <1>1, <1>2, <1>3 DEF HoldsNeeds, OrchestratorInv, ReadersExcludeWriter
<1> QED BY <1>4, <1>5, <1>6 DEF Compete

\* While nobody calls cancel_skill, a skill holds its resources for as long as
\* its code runs, through timeouts and through the failures of other calls.
THEOREM ExecutingHoldsResources ==
  ASSUME UniqueIds, Cancellable = {}
  PROVE  OrchestratorSpec => []HeldWhileExecuting
<1>1. OrchestratorInv => HeldWhileExecuting
  BY UndisturbedFacts
  DEF OrchestratorInv, HeldWhileExecuting, Executing, TasksAreLive, Undisturbed, HoldsNeeds
<1> QED BY <1>1, OrchestratorInvariant, PTL

\* While nobody calls cancel_skill, competing skills never execute together.
THEOREM CompetingSkillsExclude ==
  ASSUME UniqueIds, Cancellable = {}
  PROVE  OrchestratorSpec => []MutualExclusion
<1>1. OrchestratorInv => MutualExclusion
  BY HoldersDoNotCompete
  DEF OrchestratorInv, MutualExclusion, Executing, TasksAreLive, Undisturbed
<1> QED BY <1>1, OrchestratorInvariant, PTL

\* Even with cancel_skill about, competing skills overlap only once one of them
\* has been cancelled.
THEOREM OverlapNeedsCancel ==
  ASSUME UniqueIds
  PROVE  OrchestratorSpec => []ExclusiveUntilCancelled
<1>1. OrchestratorInv => ExclusiveUntilCancelled
  BY HoldersDoNotCompete DEF ExclusiveUntilCancelled, Undisturbed
<1> QED BY <1>1, OrchestratorInvariant, PTL

\* cancel_skill can always reach a skill that has not been cancelled yet.
THEOREM CancelAlwaysReaches ==
  ASSUME UniqueIds
  PROVE  OrchestratorSpec => []CancelReachesSkill
<1>1. OrchestratorInv => CancelReachesSkill
  BY DEF OrchestratorInv, UndisturbedRunning, CancelReachesSkill, Undisturbed
<1> QED BY <1>1, OrchestratorInvariant, PTL

-----------------------------------------------------------------------------
(* Locks and their owners, when ids may be used again *)

\* The types LocksHaveOwners is about.
OwnersInv ==
  /\ TypeOK
  /\ call \in [Invocations -> Calls \cup {NoCall}]
  /\ phase \in [Invocations -> Phases]
  /\ SubmittedHaveCalls
  /\ LocksHaveOwners

\* The steps that change neither the locks nor a live invocation.
LEMMA UnchangedOwners ==
  ASSUME OwnersInv, UNCHANGED lockVars,
         \A i \in Invocations : Live(i) => phase'[i] = phase[i] /\ call'[i] = call[i]
  PROVE  LocksHaveOwners'
BY DEF OwnersInv, LocksHaveOwners, Live, Id, ExclusiveNeed, SharedNeed, lockVars

\* The steps that release an id, and end no invocation of another id.
LEMMA ReleaseKeepsOwners ==
  ASSUME OwnersInv, NEW h \in Holders, Release(h), call' = call,
         \A i \in Invocations : Live(i) /\ Id(i) # h => phase'[i] = phase[i]
  PROVE  LocksHaveOwners'
<1> SUFFICES ASSUME NEW r \in Resources
             PROVE  /\ exclusive'[r] # NoHolder =>
                         \E i \in Invocations :
                           Live(i)' /\ Id(i)' = exclusive'[r] /\ r \in ExclusiveNeed(i)'
                    /\ \A g \in shared'[r] :
                         \E i \in Invocations : Live(i)' /\ Id(i)' = g /\ r \in SharedNeed(i)'
  BY DEF LocksHaveOwners
<1>1. /\ exclusive'[r] # NoHolder => exclusive'[r] = exclusive[r] /\ exclusive[r] # h
      /\ shared'[r] = shared[r] \ {h}
  BY DEF Release
<1>2. ASSUME NEW i \in Invocations, Live(i), Id(i) # h
      PROVE  /\ Live(i)' /\ Id(i)' = Id(i)
             /\ ExclusiveNeed(i)' = ExclusiveNeed(i) /\ SharedNeed(i)' = SharedNeed(i)
  BY <1>2 DEF Live, Id, ExclusiveNeed, SharedNeed
<1>3. ASSUME exclusive'[r] # NoHolder
      PROVE  \E i \in Invocations :
               Live(i)' /\ Id(i)' = exclusive'[r] /\ r \in ExclusiveNeed(i)'
  <2>1. PICK i \in Invocations : Live(i) /\ Id(i) = exclusive[r] /\ r \in ExclusiveNeed(i)
    BY <1>1, <1>3 DEF OwnersInv, LocksHaveOwners
  <2> QED BY <1>1, <1>2, <1>3, <2>1
<1>4. ASSUME NEW g \in shared'[r]
      PROVE  \E i \in Invocations : Live(i)' /\ Id(i)' = g /\ r \in SharedNeed(i)'
  <2>1. g \in shared[r] /\ g # h
    BY <1>1
  <2>2. PICK i \in Invocations : Live(i) /\ Id(i) = g /\ r \in SharedNeed(i)
    BY <2>1 DEF OwnersInv, LocksHaveOwners
  <2> QED BY <1>2, <2>1, <2>2
<1> QED BY <1>3, <1>4

\* The finally block takes the locks of an id with the invocation that ends.
LEMMA FinallyKeepsOwners ==
  ASSUME OwnersInv, NEW i \in Invocations, NEW r, phase[i] # "absent", Finally(i, r),
         call' = call
  PROVE  OwnersInv'
<1>1. call[i] \in Calls /\ Id(i) \in Holders
  BY NeedsAreResources DEF OwnersInv, SubmittedHaveCalls
<1>2. TypeOK'
  BY <1>1, ReleaseType DEF OwnersInv, Finally
<1>3. phase' \in [Invocations -> Phases] /\ SubmittedHaveCalls'
  BY <1>1 DEF OwnersInv, Finally, Phases, SubmittedHaveCalls
<1>4. \A j \in Invocations : Live(j) /\ Id(j) # Id(i) => phase'[j] = phase[j]
  BY DEF OwnersInv, Finally
<1>5. LocksHaveOwners'
  BY <1>1, <1>4, ReleaseKeepsOwners DEF Finally
<1> QED BY <1>2, <1>3, <1>5 DEF OwnersInv

\* What acquire() grants belongs to the invocation that is launched with it.
LEMMA LaunchKeepsOwners ==
  ASSUME OwnersInv, NEW i \in Invocations, phase[i] = "created", Launch(i), call' = call
  PROVE  OwnersInv'
<1>1. /\ call[i] \in Calls /\ Id(i) \in Holders
      /\ SharedNeed(i) \in SUBSET Resources /\ ExclusiveNeed(i) \in SUBSET Resources
  BY NeedsAreResources DEF OwnersInv, SubmittedHaveCalls
<1>2. TypeOK'
  BY <1>1, GrantType DEF OwnersInv, Launch, Acquire
<1>3. phase' \in [Invocations -> Phases] /\ SubmittedHaveCalls'
  BY <1>1 DEF OwnersInv, Launch, Phases, SubmittedHaveCalls
<1>4. ASSUME NEW j \in Invocations, Live(j) \/ j = i
      PROVE  /\ Live(j)' /\ Id(j)' = Id(j)
             /\ ExclusiveNeed(j)' = ExclusiveNeed(j) /\ SharedNeed(j)' = SharedNeed(j)
  BY <1>4 DEF OwnersInv, Launch, Live, Id, ExclusiveNeed, SharedNeed
<1>5. ASSUME NEW r \in Resources
      PROVE  /\ exclusive'[r] = IF r \in ExclusiveNeed(i) THEN Id(i) ELSE exclusive[r]
             /\ shared'[r] = IF r \in SharedNeed(i) THEN shared[r] \cup {Id(i)} ELSE shared[r]
  BY DEF Launch, Acquire, Grant
<1>6. ASSUME NEW r \in Resources, exclusive'[r] # NoHolder
      PROVE  \E j \in Invocations :
               Live(j)' /\ Id(j)' = exclusive'[r] /\ r \in ExclusiveNeed(j)'
  <2>1. CASE r \in ExclusiveNeed(i)
    BY <1>4, <1>5, <2>1
  <2>2. CASE r \notin ExclusiveNeed(i)
    BY <1>4, <1>5, <1>6, <2>2 DEF OwnersInv, LocksHaveOwners
  <2> QED BY <2>1, <2>2
<1>7. ASSUME NEW r \in Resources, NEW g \in shared'[r]
      PROVE  \E j \in Invocations : Live(j)' /\ Id(j)' = g /\ r \in SharedNeed(j)'
  <2>1. CASE g = Id(i) /\ r \in SharedNeed(i)
    BY <1>4, <2>1
  <2>2. CASE g \in shared[r]
    BY <1>4, <2>2 DEF OwnersInv, LocksHaveOwners
  <2> QED BY <1>5, <1>7, <2>1, <2>2
<1>8. LocksHaveOwners'
  BY <1>6, <1>7 DEF LocksHaveOwners
<1> QED BY <1>2, <1>3, <1>8 DEF OwnersInv

LEMMA OwnersStep ==
  ASSUME OwnersInv, [OrchestratorNext]_orchestratorVars
  PROVE  OwnersInv'
<1>1. CASE UNCHANGED <<lockVars, call, phase>>
  BY <1>1, UnchangedOwners DEF OwnersInv, TypeOK, SubmittedHaveCalls, lockVars
<1>2. ASSUME NEW s \in Skills, RegisterSkill(s) PROVE OwnersInv'
  BY <1>1, <1>2 DEF RegisterSkill, taskVars
<1>3. ASSUME NEW i \in Invocations,
             StartSkill(i) \/ FinishSkill(i) \/ UnwindSkill(i) \/ Expire(i)
      PROVE  OwnersInv'
  BY <1>1, <1>3 DEF StartSkill, FinishSkill, UnwindSkill, EndSkill, Expire
<1>4. ASSUME NEW i \in Invocations, NEW c \in Calls, Submit(i, c) PROVE OwnersInv'
  <2>1. /\ phase[i] = "absent" /\ phase' = [phase EXCEPT ![i] = "created"]
        /\ call' = [call EXCEPT ![i] = c] /\ UNCHANGED lockVars
    BY <1>4 DEF Submit, CreateTask
  <2>2. LocksHaveOwners'
    BY <2>1, UnchangedOwners DEF OwnersInv, Live
  <2> QED BY <2>1, <2>2 DEF OwnersInv, TypeOK, Phases, SubmittedHaveCalls, lockVars
<1>5. ASSUME NEW id \in Cancellable, CancelSkill(id) PROVE OwnersInv'
  <2>1. id \in Holders /\ Release(id) /\ UNCHANGED <<call, phase>>
    BY <1>5, CallersAssumption DEF CancelSkill
  <2> QED BY <2>1, ReleaseType, ReleaseKeepsOwners DEF OwnersInv, SubmittedHaveCalls
<1>6. ASSUME NEW i \in Invocations, Begin(i) PROVE OwnersInv'
  <2>1. phase[i] = "created" /\ call' = call
    BY <1>6 DEF Begin
  <2>2. CASE RejectUnknownSkill(i)
    <3>1. phase' = [phase EXCEPT ![i] = "done"] /\ UNCHANGED lockVars
      BY <2>2 DEF RejectUnknownSkill
    <3>2. LocksHaveOwners'
      BY <2>1, <3>1, UnchangedOwners DEF OwnersInv, Live
    <3> QED BY <2>1, <3>1, <3>2 DEF OwnersInv, TypeOK, Phases, SubmittedHaveCalls, lockVars
  <2>3. CASE RejectConflict(i) \/ RejectPrecondition(i)
    BY <2>1, <2>3, FinallyKeepsOwners DEF RejectConflict, RejectPrecondition
  <2>4. CASE Launch(i)
    BY <2>1, <2>4, LaunchKeepsOwners
  <2> QED BY <1>6, <2>2, <2>3, <2>4 DEF Begin
<1>7. ASSUME NEW i \in Invocations, Resume(i) PROVE OwnersInv'
  BY <1>7, FinallyKeepsOwners DEF Resume, Live
<1>8. CASE UNCHANGED orchestratorVars
  BY <1>1, <1>8 DEF orchestratorVars, taskVars
<1> QED BY <1>2, <1>3, <1>4, <1>5, <1>6, <1>7, <1>8 DEF OrchestratorNext, LoopStep

\* No lock outlives the call it was taken for, for any number of calls, also
\* of calls with the same id, and for any use of cancel_skill (execute_skill's
\* finally block).
THEOREM NoLockIsLeft == OrchestratorSpec => []LocksHaveOwners
<1>1. OrchestratorInit => OwnersInv
  BY DEF OrchestratorInit, Init, OwnersInv, TypeOK, Phases, SubmittedHaveCalls, LocksHaveOwners
<1>2. OwnersInv /\ [OrchestratorNext]_orchestratorVars => OwnersInv'
  BY OwnersStep
<1>3. OwnersInv => LocksHaveOwners
  BY DEF OwnersInv
<1> QED BY <1>1, <1>2, <1>3, PTL DEF OrchestratorSpec

=============================================================================
