---------------------------- MODULE DataNodeProofs ----------------------------
(***************************************************************************)
(* Proofs about the data node, for any calls, numbers of episodes and      *)
(* bounds: the record of an episode is its own and complete, what is on    *)
(* disk of a stopped one is final, and the oldest episodes go first.       *)
(***************************************************************************)
EXTENDS DataNode, TLAPS, FiniteSetTheorems, WellFoundedInduction

-----------------------------------------------------------------------------
(* What the buffered events make of the logs                               *)

\* A nonempty set of naturals has a least element.
LEMMA LeastElement ==
  ASSUME NEW T \in SUBSET Nat, T # {}
  PROVE  \E x \in T : \A y \in T : x <= y
<1> DEFINE R == {p \in Nat \X Nat : p[1] < p[2]}
<1>1. IsWellFoundedOn(R, Nat)
  BY NatLessThanWellFounded, Zenon DEF OpToRel
<1>2. PICK x \in T : \A y \in T : ~ (<<y, x>> \in R)
  BY <1>1, WFMin, Zenon
<1>3. \A y \in T : ~ (y < x)
  BY <1>2
<1> QED BY <1>3

\* Induction over the naturals, for a set.
LEMMA EveryNumber ==
  ASSUME NEW T \in SUBSET Nat, 0 \in T, \A n \in T : n + 1 \in T
  PROVE  \A n \in Nat : n \in T
<1> SUFFICES ASSUME Nat \ T # {} PROVE FALSE
  OBVIOUS
<1>1. PICK x \in Nat \ T : \A y \in Nat \ T : x <= y
  BY LeastElement
<1>2. x # 0 /\ x - 1 \in Nat /\ x - 1 \in T
  BY <1>1
<1> QED BY <1>1, <1>2

\* The skill logger after some events, from a state st on.
Replay(st, events) == FoldLeft(Processed, st, events)

LogStates == [pending : SUBSET Calls, logs : Seq(Calls)]

\* The values of the fold for every choice of the first n events.
IsReplay(f, n, st, events) ==
  f = [S \in SUBSET (1 .. n) |->
         IF S = {} THEN st ELSE Processed(f[S \ {Max(S)}], events[Max(S)])]

LEMMA ReplayIs ==
  ASSUME NEW st, NEW events \in Seq(Events)
  PROVE  Replay(st, events) = (CHOOSE f : IsReplay(f, Len(events), st, events))[1 .. Len(events)]
<1>1. DOMAIN events = 1 .. Len(events)
  OBVIOUS
<1>2. Replay(st, events) = (CHOOSE f : f = [S \in SUBSET DOMAIN events |->
         IF S = {} THEN st ELSE Processed(f[S \ {Max(S)}], events[Max(S)])])[DOMAIN events]
  BY Zenon DEF Replay, FoldLeft, MapThenFoldSet
<1> QED BY <1>1, <1>2, Zenon DEF IsReplay

LEMMA LastIsMax ==
  ASSUME NEW n \in Nat, NEW S \in SUBSET (1 .. n + 1), n + 1 \in S
  PROVE  Max(S) = n + 1
<1>1. \E x \in S : \A y \in S : x >= y
  OBVIOUS
<1>2. PICK m : m = Max(S)
  OBVIOUS
<1>3. m \in S /\ \A y \in S : m >= y
  BY <1>1, <1>2, Zenon DEF Max
<1>4. m \in 1 .. n + 1 /\ m >= n + 1
  BY <1>3
<1> QED BY <1>2, <1>4

LEMMA ReplayExists ==
  ASSUME NEW st, NEW events
  PROVE  \A n \in Nat : \E f : IsReplay(f, n, st, events)
<1> DEFINE T == {n \in Nat : \E f : IsReplay(f, n, st, events)}
<1>1. 0 \in T
  <2> DEFINE f == [S \in SUBSET (1 .. 0) |-> st]
  <2>1. \A S \in SUBSET (1 .. 0) : S = {}
    OBVIOUS
  <2>2. IsReplay(f, 0, st, events)
    BY <2>1 DEF IsReplay
  <2> QED BY <2>2
<1>2. ASSUME NEW n \in T PROVE n + 1 \in T
  <2>1. PICK f : IsReplay(f, n, st, events)
    OBVIOUS
  <2>2. n \in Nat
    OBVIOUS
  <2> DEFINE g == [S \in SUBSET (1 .. n + 1) |->
                     IF n + 1 \in S THEN Processed(f[S \ {n + 1}], events[n + 1]) ELSE f[S]]
             Step(S) == IF S = {} THEN st ELSE Processed(g[S \ {Max(S)}], events[Max(S)])
  <2>3. ASSUME NEW S \in SUBSET (1 .. n + 1) PROVE g[S] = Step(S)
    <3>1. CASE n + 1 \in S
      <4>1. Max(S) = n + 1 /\ S # {} /\ n + 1 \notin S \ {n + 1}
        BY <2>2, <3>1, LastIsMax
      <4>2. g[S \ {n + 1}] = f[S \ {n + 1}]
        OBVIOUS
      <4> QED BY <3>1, <4>1, <4>2
    <3>2. CASE n + 1 \notin S
      <4>1. S \in SUBSET (1 .. n)
        BY <2>2, <3>2
      <4>2. \A R : R \in SUBSET (1 .. n) => R \in SUBSET (1 .. n + 1) /\ n + 1 \notin R
        BY <2>2
      <4>6. S \ {Max(S)} \in SUBSET (1 .. n)
        BY <4>1, Zenon
      <4>3. g[S \ {Max(S)}] = f[S \ {Max(S)}]
        BY <4>2, <4>6
      <4>4. f[S] = IF S = {} THEN st ELSE Processed(f[S \ {Max(S)}], events[Max(S)])
        BY <2>1, <4>1, Zenon DEF IsReplay
      <4> HIDE DEF g
      <4>5. g[S] = f[S]
        BY <3>2 DEF g
      <4> QED BY <4>3, <4>4, <4>5
    <3> QED BY <3>1, <3>2
  <2>4. g = [S \in SUBSET (1 .. n + 1) |-> g[S]]
    OBVIOUS
  <2> HIDE DEF g
  <2>5. g = [S \in SUBSET (1 .. n + 1) |-> Step(S)]
    BY <2>3, <2>4
  <2>6. IsReplay(g, n + 1, st, events)
    BY <2>5, Zenon DEF IsReplay
  <2> QED BY <2>2, <2>6
<1> HIDE DEF T
<1>3. T \in SUBSET Nat
  BY DEF T
<1>4. \A n \in Nat : n \in T
  BY <1>1, <1>2, <1>3, EveryNumber
<1> QED BY <1>4 DEF T

LEMMA ReplayUnfolds ==
  ASSUME NEW f, NEW n \in Nat, NEW st, NEW events, IsReplay(f, n, st, events)
  PROVE  /\ f[1 .. 0] = st
         /\ \A k \in Nat : k < n => f[1 .. k + 1] = Processed(f[1 .. k], events[k + 1])
<1>1. \A S \in SUBSET (1 .. n) :
        f[S] = IF S = {} THEN st ELSE Processed(f[S \ {Max(S)}], events[Max(S)])
  BY Zenon DEF IsReplay
<1>2. 1 .. 0 = {}
  OBVIOUS
<1>3. ASSUME NEW k \in Nat, k < n
      PROVE  f[1 .. k + 1] = Processed(f[1 .. k], events[k + 1])
  <2> DEFINE S == 1 .. k + 1
  <2>1. S \in SUBSET (1 .. k + 1) /\ S \in SUBSET (1 .. n) /\ k + 1 \in S /\ S # {}
    BY <1>3
  <2>2. Max(S) = k + 1
    BY <2>1, LastIsMax
  <2>3. S \ {k + 1} = 1 .. k
    OBVIOUS
  <2> QED BY <1>1, <2>1, <2>2, <2>3
<1> QED BY <1>1, <1>2, <1>3

\* The events up to k decide the value for them.
LEMMA SameReplay ==
  ASSUME NEW st, NEW s, NEW t, NEW n \in Nat, \A k \in 1 .. n : s[k] = t[k],
         NEW f, IsReplay(f, n, st, s), NEW g, IsReplay(g, n + 1, st, t)
  PROVE  f[1 .. n] = g[1 .. n]
<1> DEFINE T == {k \in Nat : k <= n => f[1 .. k] = g[1 .. k]}
<1>1. /\ f[1 .. 0] = st /\ g[1 .. 0] = st
      /\ \A k \in Nat : k < n => f[1 .. k + 1] = Processed(f[1 .. k], s[k + 1])
      /\ \A k \in Nat : k < n + 1 => g[1 .. k + 1] = Processed(g[1 .. k], t[k + 1])
  BY ReplayUnfolds
<1>2. 0 \in T
  BY <1>1
<1>3. ASSUME NEW k \in T PROVE k + 1 \in T
  <2> SUFFICES ASSUME k + 1 <= n PROVE f[1 .. k + 1] = g[1 .. k + 1]
    OBVIOUS
  <2>1. k \in Nat /\ k < n /\ k < n + 1 /\ f[1 .. k] = g[1 .. k] /\ s[k + 1] = t[k + 1]
    OBVIOUS
  <2> QED BY <1>1, <2>1
<1> HIDE DEF T
<1>4. T \in SUBSET Nat
  BY DEF T
<1>5. n \in T
  BY <1>2, <1>3, <1>4, EveryNumber
<1> QED BY <1>5 DEF T

LEMMA ReplayEmpty ==
  ASSUME NEW st
  PROVE  Replay(st, <<>>) = st
<1> DEFINE f == CHOOSE f : IsReplay(f, 0, st, <<>>)
<1>1. Replay(st, <<>>) = f[1 .. 0]
  <2>1. <<>> \in Seq(Events) /\ Len(<<>>) = 0
    OBVIOUS
  <2> QED BY <2>1, ReplayIs
<1>2. IsReplay(f, 0, st, <<>>)
  <2>1. \E h : IsReplay(h, 0, st, <<>>)
    BY ReplayExists
  <2> QED BY <2>1, Zenon
<1> HIDE DEF f
<1> QED BY <1>1, <1>2, ReplayUnfolds

LEMMA ReplayAppend ==
  ASSUME NEW st, NEW events \in Seq(Events), NEW event \in Events
  PROVE  Replay(st, Append(events, event)) = Processed(Replay(st, events), event)
<1> DEFINE n == Len(events)
           more == Append(events, event)
           f == CHOOSE h : IsReplay(h, n, st, events)
           g == CHOOSE h : IsReplay(h, n + 1, st, more)
<1>1. n \in Nat /\ more \in Seq(Events) /\ Len(more) = n + 1 /\ more[n + 1] = event
      /\ \A k \in 1 .. n : events[k] = more[k]
  OBVIOUS
<1>2. IsReplay(f, n, st, events) /\ IsReplay(g, n + 1, st, more)
  <2>1. \E h : IsReplay(h, n, st, events)
    BY <1>1, ReplayExists
  <2>2. \E h : IsReplay(h, n + 1, st, more)
    <3>1. n + 1 \in Nat
      BY <1>1
    <3> HIDE DEF n, more
    <3> QED BY <3>1, ReplayExists, Zenon
  <2> QED BY <2>1, <2>2, Zenon
<1> HIDE DEF more
<1>3. Replay(st, events) = f[1 .. n] /\ Replay(st, more) = g[1 .. n + 1]
  BY <1>1, ReplayIs
<1> HIDE DEF f, g, n
<1>4. f[1 .. n] = g[1 .. n]
  <2>1. n \in Nat /\ \A k \in 1 .. n : events[k] = more[k]
    BY <1>1
  <2>2. ASSUME NEW F, IsReplay(F, n, st, events), NEW G, IsReplay(G, n + 1, st, more)
        PROVE  F[1 .. n] = G[1 .. n]
    BY <2>1, <2>2, SameReplay
  <2> QED BY <1>2, <2>2
<1>5. g[1 .. n + 1] = Processed(g[1 .. n], more[n + 1])
  BY <1>1, <1>2, ReplayUnfolds
<1> QED BY <1>1, <1>3, <1>4, <1>5 DEF more

LEMMA ProcessedTyped ==
  ASSUME NEW st \in LogStates, NEW event \in Events
  PROVE  Processed(st, event) \in LogStates
<1>1. CASE event.kind = "started"
  <2>1. event.call \in Calls
    BY <1>1 DEF Events
  <2> QED BY <1>1, <2>1 DEF Processed, LogStates
<1>2. CASE event.kind = "ended" /\ event.call \in st.pending
  <2>1. event.call \in Calls /\ Append(st.logs, event.call) \in Seq(Calls)
    BY <1>2 DEF Events, LogStates
  <2> QED BY <1>2, <2>1 DEF Processed, LogStates
<1> QED BY <1>1, <1>2 DEF Processed

LEMMA ReplayTyped ==
  ASSUME NEW st \in LogStates, NEW events \in Seq(Events)
  PROVE  Replay(st, events) \in LogStates
<1> DEFINE n == Len(events)
           f == CHOOSE h : IsReplay(h, n, st, events)
           T == {k \in Nat : k <= n => f[1 .. k] \in LogStates}
<1>1. IsReplay(f, n, st, events)
  <2>1. \E h : IsReplay(h, n, st, events)
    <3>1. n \in Nat
      OBVIOUS
    <3> HIDE DEF n
    <3> QED BY <3>1, ReplayExists, Zenon
  <2> QED BY <2>1, Zenon
<1>2. Replay(st, events) = f[1 .. n] /\ n \in Nat /\ \A k \in 1 .. n : events[k] \in Events
  BY ReplayIs
<1> HIDE DEF f, n
<1>3. /\ f[1 .. 0] = st
      /\ \A k \in Nat : k < n => f[1 .. k + 1] = Processed(f[1 .. k], events[k + 1])
  BY <1>1, <1>2, ReplayUnfolds
<1>4. 0 \in T
  BY <1>3
<1>5. ASSUME NEW k \in T PROVE k + 1 \in T
  <2> SUFFICES ASSUME k + 1 <= n PROVE f[1 .. k + 1] \in LogStates
    OBVIOUS
  <2>1. k \in Nat /\ k < n /\ f[1 .. k] \in LogStates /\ events[k + 1] \in Events
    BY <1>2
  <2> QED BY <1>3, <2>1, ProcessedTyped
<1> HIDE DEF T
<1>6. T \in SUBSET Nat
  BY DEF T
<1>7. n \in T
  BY <1>2, <1>4, <1>5, <1>6, EveryNumber
<1> QED BY <1>2, <1>7 DEF T

-----------------------------------------------------------------------------
(* The invariant                                                           *)

\* The active episode is the last one started; the frame logger writes to its
\* directory, and nothing is final there as long as no stop of it has raised.
ActiveOK ==
  active # None =>
    /\ active.id = started /\ started \in DOMAIN disk
    /\ frameLogger # None /\ frameLogger.dir = started
    /\ recovered => recovering
    /\ ~ disturbed => active.status \notin Completed /\ disk[started] = Unfinished

\* The events in the buffer lead from what is logged to what would have been.
Open == active # None /\ active.status \notin Completed

LogsFollow ==
  /\ inOrder \in LogStates
  /\ Recording /\ ~ leftover => buffer = <<>>
  /\ Open /\ ~ leftover =>
       Replay([pending |-> pending, logs |-> active.logs], buffer) = inOrder

FlagsOK == {leftover, recovered, disturbed, alone} \subseteq BOOLEAN

DataInv ==
  /\ DataTypeOK
  /\ ActiveOK
  /\ LogsFollow
  /\ EpisodesFollowTasks
  /\ FlagsOK

\* What OldestGoFirst says of a step.
OldestGo ==
  LET gone == DOMAIN disk \ DOMAIN disk'
      open == {e \in DOMAIN disk' : disk'[e].status \notin Completed}
      ended == IF active = None THEN {} ELSE {active.id}
  IN  /\ \A e \in gone \ ended : disk[e].status \in Completed
      /\ \A e \in gone : \A d \in DOMAIN disk' : disk'[d].status \in Completed => e < d
      /\ gone # {} /\ Cardinality(open) < MaxEpisodes => ended \subseteq DOMAIN disk'

\* What every callback does, but for the task.
Stepped ==
  /\ DataTypeOK' /\ ActiveOK' /\ LogsFollow' /\ FlagsOK'
  /\ OutcomeStays /\ RecoveryIsLabelled /\ OldestGo

LEMMA InitHolds == Init => DataInv
<1> SUFFICES ASSUME Init PROVE DataInv
  OBVIOUS
<1>1. DOMAIN disk = {} /\ <<>> \in Seq(Events) /\ <<>> \in Seq(Calls) /\ started \in 0 .. LastEpisode
  BY DataAssumption DEF Init
<1>2. DataTypeOK
  BY <1>1 DEF Init, DataTypeOK
<1>3. LogsFollow
  BY <1>1 DEF Init, LogsFollow, LogStates, Recording, Open
<1> QED BY <1>2, <1>3 DEF Init, DataInv, ActiveOK, EpisodesFollowTasks, FlagsOK

LEMMA ActiveTyped ==
  ASSUME DataInv, active # None
  PROVE  /\ active \in Episodes /\ started \in Ids
         /\ active.id = started /\ started \in DOMAIN disk
         /\ active = [id |-> started, status |-> active.status, logs |-> active.logs,
                      recovery |-> active.recovery]
         /\ active.status \in Statuses /\ active.logs \in Seq(Calls)
         /\ active.recovery \in BOOLEAN
         /\ frameLogger \in FrameLoggers /\ frameLogger.dir = started
BY DEF DataInv, DataTypeOK, ActiveOK, Episodes

LEMMA NotFinal == None \notin Completed /\ Unfinished.status \notin Completed
BY NoneAssumption DEF Unfinished

\* A step that deletes nothing.
LEMMA NothingGone ==
  ASSUME DOMAIN disk \subseteq DOMAIN disk'
  PROVE  OldestGo
BY DEF OldestGo

\* A step that writes nothing: what is on disk of the active episode is not final.
LEMMA NothingWritten ==
  ASSUME DataInv, UNCHANGED disk
  PROVE  OutcomeStays /\ RecoveryIsLabelled /\ OldestGo
<1>1. OutcomeStays /\ OldestGo
  BY NothingGone DEF OutcomeStays
<1>2. ASSUME NEW e \in DOMAIN disk', e \notin Disturbed, ActiveIs(e)
      PROVE  disk'[e].status # "completed_success"
  <2>1. active # None /\ e = started /\ e \in Ids
    BY <1>2, ActiveTyped DEF ActiveIs
  <2>2. ~ disturbed
    BY <1>2, <2>1 DEF Disturbed
  <2>3. disk[e] = Unfinished
    BY <2>1, <2>2 DEF DataInv, ActiveOK
  <2> QED BY <2>3, NotFinal DEF Completed
<1> QED BY <1>1, <1>2 DEF RecoveryIsLabelled

\* A step that writes the active episode.
LEMMA WriteFacts ==
  ASSUME DataInv, active # None, NEW ep \in Episodes, ep.id = active.id
  PROVE  /\ DOMAIN Write(ep) = DOMAIN disk
         /\ \A e \in DOMAIN disk : e # started => Write(ep)[e] = disk[e]
         /\ Write(ep)[started] = IF ep.status \in Completed
                                 THEN [status |-> ep.status, recovery |-> ep.recovery]
                                 ELSE Unfinished
         /\ \A e \in DOMAIN disk :
              Write(ep)[e] \in [status : Completed, recovery : BOOLEAN] \cup {Unfinished}
<1>1. started \in DOMAIN disk /\ ep.id = started
  BY ActiveTyped
<1>2. ep.recovery \in BOOLEAN
  BY DEF Episodes
<1>3. \A e \in DOMAIN disk : disk[e] \in [status : Completed, recovery : BOOLEAN] \cup {Unfinished}
  BY DEF DataInv, DataTypeOK
<1> QED BY <1>1, <1>2, <1>3 DEF Write

LEMMA ActiveWritten ==
  ASSUME DataInv, active # None, NEW ep \in Episodes, ep.id = active.id, disk' = Write(ep),
         \/ active' # None
         \/ ep.status # "completed_success"
         \/ recovered => ep.recovery
  PROVE  OutcomeStays /\ RecoveryIsLabelled /\ OldestGo
<1>1. /\ DOMAIN disk' = DOMAIN disk
      /\ \A e \in DOMAIN disk : e # started => disk'[e] = disk[e]
      /\ disk'[started] = IF ep.status \in Completed
                          THEN [status |-> ep.status, recovery |-> ep.recovery]
                          ELSE Unfinished
  BY WriteFacts
<1>2. started \in Ids /\ active.id = started
  BY ActiveTyped
<1>3. ASSUME started \notin Disturbed PROVE disk[started].status \notin Completed
  <2>1. ~ disturbed
    BY <1>2, <1>3 DEF Disturbed, ActiveIs
  <2> QED BY <2>1, NotFinal DEF DataInv, ActiveOK
<1>4. OutcomeStays
  BY <1>1, <1>3 DEF OutcomeStays
<1>5. RecoveryIsLabelled
  <2> SUFFICES ASSUME recovered, active' = None, disk'[started].status = "completed_success"
               PROVE  disk'[started].recovery
    BY <1>2 DEF RecoveryIsLabelled, ActiveIs
  <2>1. ep.status \in Completed /\ ep.status = "completed_success"
    BY <1>1, NotFinal DEF Completed
  <2> QED BY <1>1, <2>1
<1> QED BY <1>1, <1>4, <1>5, NothingGone

-----------------------------------------------------------------------------
(* The steps                                                               *)

LEMMA NewDirectoryFacts ==
  ASSUME DataInv, started < LastEpisode, started' = started + 1, disk' = NewDirectory(started')
  PROVE  /\ DOMAIN disk' = DOMAIN disk \cup {started'} /\ started' \in Ids
         /\ DOMAIN disk' \subseteq 1 .. started' /\ started' \in 0 .. LastEpisode
         /\ disk'[started'] = Unfinished /\ started' \notin DOMAIN disk
         /\ \A e \in DOMAIN disk : disk'[e] = disk[e]
         /\ \A e \in DOMAIN disk' :
              disk'[e] \in [status : Completed, recovery : BOOLEAN] \cup {Unfinished}
<1>1. DOMAIN disk \subseteq 1 .. started /\ started \in Nat /\ LastEpisode \in Nat
  BY DataAssumption DEF DataInv, DataTypeOK
<1>2. started' \notin DOMAIN disk /\ started' \in Ids /\ started' \in 0 .. LastEpisode
  BY <1>1 DEF Ids
<1>3. disk' = [d \in DOMAIN disk \cup {started'} |-> IF d = started' THEN Unfinished ELSE disk[d]]
  BY DEF NewDirectory
<1>4. DOMAIN disk' \subseteq 1 .. started'
  BY <1>1, <1>3
<1> QED BY <1>2, <1>3, <1>4 DEF DataInv, DataTypeOK

LEMMA StartEpisodeSteps ==
  ASSUME DataInv, StartEpisode, task' \in {"idle", "running"}, alone' \in BOOLEAN
  PROVE  Stepped /\ active' # None
<1>1. /\ DOMAIN disk' = DOMAIN disk \cup {started'} /\ started' \in Ids
      /\ DOMAIN disk' \subseteq 1 .. started' /\ started' \in 0 .. LastEpisode
      /\ disk'[started'] = Unfinished /\ started' \notin DOMAIN disk
      /\ \A e \in DOMAIN disk : disk'[e] = disk[e]
      /\ \A e \in DOMAIN disk' :
           disk'[e] \in [status : Completed, recovery : BOOLEAN] \cup {Unfinished}
  BY NewDirectoryFacts DEF StartEpisode
<1>2. /\ active' = [id |-> started', status |-> "recording", logs |-> <<>>, recovery |-> FALSE]
      /\ frameLogger' = [dir |-> started', count |-> 0]
      /\ inOrder' = [pending |-> pending, logs |-> <<>>]
      /\ leftover' = (buffer # <<>>) /\ written' = {}
      /\ recovered' = FALSE /\ disturbed' = FALSE /\ active = None
      /\ UNCHANGED <<pending, buffer, recovering>>
  BY DEF StartEpisode, NewFrameLogger
<1>3. active' \in Episodes /\ frameLogger' \in FrameLoggers
  <2>1. <<>> \in Seq(Calls) /\ 0 \in 0 .. MaxFrames
    BY DataAssumption
  <2> QED BY <1>1, <1>2, <2>1 DEF Episodes, FrameLoggers, Statuses
<1>4. active' # None /\ frameLogger' # None
  BY <1>3, NoneAssumption
<1>5. DataTypeOK'
  BY <1>1, <1>2, <1>3 DEF DataInv, DataTypeOK
<1>6. ActiveOK'
  BY <1>1, <1>2, <1>4 DEF ActiveOK, Completed
<1>7. LogsFollow'
  <2>1. inOrder' \in LogStates
    BY <1>2 DEF LogStates, DataInv, DataTypeOK
  <2>2. ~ leftover' => buffer' = <<>>
    BY <1>2
  <2>3. ~ leftover' => Replay([pending |-> pending', logs |-> active'.logs], buffer') = inOrder'
    BY <1>2, <2>2, ReplayEmpty
  <2> QED BY <2>1, <2>2, <2>3 DEF LogsFollow
<1>8. FlagsOK'
  BY <1>2 DEF FlagsOK
<1>9. OutcomeStays /\ RecoveryIsLabelled /\ OldestGo
  BY <1>1, <1>2, NothingGone DEF OutcomeStays, RecoveryIsLabelled, ActiveIs
<1> QED BY <1>4, <1>5, <1>6, <1>7, <1>8, <1>9 DEF Stepped

LEMMA StartFailsSteps ==
  ASSUME DataInv, StartFails, task' \in {"idle", "running"}, alone' \in BOOLEAN
  PROVE  Stepped /\ active' = None
<1>1. /\ DOMAIN disk' = DOMAIN disk \cup {started'}
      /\ DOMAIN disk' \subseteq 1 .. started' /\ started' \in 0 .. LastEpisode
      /\ \A e \in DOMAIN disk : disk'[e] = disk[e]
      /\ \A e \in DOMAIN disk' :
           disk'[e] \in [status : Completed, recovery : BOOLEAN] \cup {Unfinished}
  BY NewDirectoryFacts DEF StartFails
<1>2. /\ active = None /\ active' = None
      /\ UNCHANGED <<pending, buffer, frameLogger, recovering, written, inOrder, leftover,
                     recovered, disturbed>>
  BY DEF StartFails, volatile
<1>3. DataTypeOK'
  BY <1>1, <1>2 DEF DataInv, DataTypeOK
<1>4. ActiveOK' /\ LogsFollow' /\ FlagsOK'
  BY <1>2 DEF DataInv, ActiveOK, LogsFollow, Recording, Open, FlagsOK
<1>5. OutcomeStays /\ RecoveryIsLabelled /\ OldestGo
  BY <1>1, <1>2, NothingGone DEF OutcomeStays, RecoveryIsLabelled, ActiveIs
<1> QED BY <1>2, <1>3, <1>4, <1>5 DEF Stepped

\* The episode as its stop and its labels leave it.
LEMMA StoppedFacts ==
  ASSUME DataInv, active # None, NEW outcome
  PROVE  /\ Stopped(outcome) \in Episodes /\ Stopped(outcome).id = active.id
         /\ Stopped(outcome).status \in Completed
         /\ Labelled(Stopped(outcome)) \in Episodes
         /\ Labelled(Stopped(outcome)).id = active.id
         /\ Labelled(Stopped(outcome)).status = Stopped(outcome).status
         /\ recovered => Labelled(Stopped(outcome)).recovery
         /\ Stopped("failure").status = "completed_failure"
<1> DEFINE status == IF outcome = "success" THEN "completed_success" ELSE "completed_failure"
<1>1. /\ active \in Episodes
      /\ active = [id |-> started, status |-> active.status, logs |-> active.logs,
                   recovery |-> active.recovery]
      /\ active.id = started /\ started \in Ids /\ active.logs \in Seq(Calls)
      /\ active.recovery \in BOOLEAN
  BY ActiveTyped
<1>2. Stopped(outcome) = [id |-> started, status |-> status, logs |-> active.logs,
                          recovery |-> active.recovery]
  BY <1>1 DEF Stopped
<1>3. Labelled(Stopped(outcome)) = [id |-> started, status |-> status, logs |-> active.logs,
                                    recovery |-> active.recovery \/ recovering]
  BY <1>2 DEF Labelled
<1>4. status \in Completed /\ status \in Statuses
  BY DEF Completed, Statuses
<1>5. recovering \in BOOLEAN /\ (recovered => recovering)
  BY DEF DataInv, DataTypeOK, ActiveOK
<1>6. Stopped("failure").status = "completed_failure"
  BY <1>1 DEF Stopped
<1> HIDE DEF status
<1> QED BY <1>1, <1>2, <1>3, <1>4, <1>5, <1>6 DEF Episodes

LEMMA NumbersFinite ==
  ASSUME NEW n \in Nat, NEW S, S \subseteq 1 .. n
  PROVE  IsFiniteSet(S)
<1>1. IsFiniteSet(1 .. n)
  BY FS_Interval
<1>2. S \in SUBSET (1 .. n)
  OBVIOUS
<1> QED BY <1>1, <1>2, FS_Subset

CompleteIn(dirs) == {e \in DOMAIN dirs : dirs[e].status \in Completed}

\* What goes is older than what stays; the newest goes only when the directories
\* of no completed episode are enough.
LEMMA SurplusIsOldest ==
  ASSUME NEW dirs, NEW n \in Nat, DOMAIN dirs \subseteq 1 .. n
  PROVE  /\ Surplus(dirs) \subseteq CompleteIn(dirs)
         /\ \A e \in Surplus(dirs) : \A d \in CompleteIn(dirs) \ Surplus(dirs) : e < d
         /\ n \in Surplus(dirs) => Cardinality(DOMAIN dirs \ CompleteIn(dirs)) >= MaxEpisodes
<1> DEFINE complete == CompleteIn(dirs)
           open == DOMAIN dirs \ complete
           Older(e) == {d \in complete : d < e}
<1>1. Surplus(dirs) = {e \in complete :
                         /\ MaxEpisodes # 0
                         /\ Cardinality(Older(e)) + MaxEpisodes < Cardinality(DOMAIN dirs)}
  BY DEF Surplus, CompleteIn
<1>2. IsFiniteSet(DOMAIN dirs)
  BY NumbersFinite
<1>3. /\ IsFiniteSet(complete) /\ IsFiniteSet(open)
      /\ \A e : IsFiniteSet(Older(e)) /\ Cardinality(Older(e)) \in Nat
  <2>1. complete \in SUBSET DOMAIN dirs /\ open \in SUBSET DOMAIN dirs
    BY DEF CompleteIn
  <2>2. \A e : Older(e) \in SUBSET DOMAIN dirs
    BY <2>1
  <2> HIDE DEF complete, open, Older
  <2> QED BY <1>2, <2>1, <2>2, FS_Subset, FS_CardinalityType
<1>4. complete \subseteq 1 .. n /\ MaxEpisodes \in Nat /\ Cardinality(DOMAIN dirs) \in Nat
      /\ Cardinality(open) \in Nat
  BY <1>2, <1>3, DataAssumption, FS_CardinalityType DEF CompleteIn
<1>5. ASSUME NEW e \in Surplus(dirs), NEW d \in complete \ Surplus(dirs) PROVE e < d
  <2>1. /\ e \in complete /\ MaxEpisodes # 0
        /\ Cardinality(Older(e)) + MaxEpisodes < Cardinality(DOMAIN dirs)
        /\ ~ (Cardinality(Older(d)) + MaxEpisodes < Cardinality(DOMAIN dirs))
    BY <1>1, <1>5
  <2>2. e \in Nat /\ d \in Nat /\ e # d
    BY <1>4, <1>5, <2>1
  <2>3. CASE d < e
    <3>1. Older(d) \in SUBSET Older(e)
      BY <1>4, <2>2, <2>3
    <3>2. Cardinality(Older(d)) <= Cardinality(Older(e))
      <4> HIDE DEF Older
      <4> QED BY <1>3, <3>1, FS_Subset
    <3> HIDE DEF Older
    <3> QED BY <1>3, <1>4, <2>1, <3>2
  <2> QED BY <2>2, <2>3
<1>6. ASSUME n \in Surplus(dirs) PROVE Cardinality(open) >= MaxEpisodes
  <2>1. /\ n \in complete
        /\ Cardinality(Older(n)) + MaxEpisodes < Cardinality(DOMAIN dirs)
    BY <1>1, <1>6
  <2>2. complete = Older(n) \cup {n} /\ n \notin Older(n)
    BY <1>4, <2>1
  <2>3. Cardinality(complete) = Cardinality(Older(n)) + 1
    <3> HIDE DEF Older, complete
    <3> QED BY <1>3, <2>2, FS_AddElement
  <2>4. DOMAIN dirs = complete \cup open /\ complete \cap open = {}
    BY DEF CompleteIn
  <2>5. Cardinality(DOMAIN dirs) = Cardinality(complete) + Cardinality(open)
    <3>1. Cardinality({}) = 0
      BY FS_EmptySet
    <3>2. Cardinality(complete \cup open)
            = Cardinality(complete) + Cardinality(open) - Cardinality(complete \cap open)
      <4> HIDE DEF open, complete
      <4> QED BY <1>3, FS_Union
    <3>3. Cardinality(complete) \in Nat
      <4> HIDE DEF complete
      <4> QED BY <1>3, FS_CardinalityType
    <3> HIDE DEF open, complete
    <3>4. Cardinality(complete \cap open) = 0
      BY <2>4, <3>1
    <3> QED BY <1>4, <2>4, <3>2, <3>3, <3>4
  <2> HIDE DEF Older, open, complete
  <2> QED BY <1>3, <1>4, <2>1, <2>3, <2>5
<1> QED BY <1>1, <1>5, <1>6

LEMMA StopEpisodeSteps ==
  ASSUME DataInv, NEW outcome, StopEpisode(outcome), task' \in {"idle", "running"},
         alone' \in BOOLEAN
  PROVE  Stepped /\ active' = None
<1> DEFINE ep == Labelled(Stopped(outcome))
           dirs == Write(ep)
<1>1. /\ active # None /\ active' = None /\ disk' = Enforced(dirs)
      /\ recovering' = FALSE /\ leftover' = (buffer # <<>>) /\ written' = {}
      /\ inOrder' = [inOrder EXCEPT !.logs = <<>>] /\ recovered' = FALSE /\ disturbed' = FALSE
      /\ UNCHANGED <<started, pending, buffer, frameLogger>>
  BY DEF StopEpisode, EndOfHistory, Detached
<1>2. /\ ep \in Episodes /\ ep.id = active.id /\ ep.status \in Completed
      /\ recovered => ep.recovery
  BY <1>1, StoppedFacts
<1> HIDE DEF ep
<1>3. /\ DOMAIN dirs = DOMAIN disk
      /\ \A e \in DOMAIN disk : e # started => dirs[e] = disk[e]
      /\ dirs[started] = [status |-> ep.status, recovery |-> ep.recovery]
      /\ \A e \in DOMAIN disk :
           dirs[e] \in [status : Completed, recovery : BOOLEAN] \cup {Unfinished}
  BY <1>1, <1>2, WriteFacts
<1>4. /\ started \in Ids /\ started \in Nat /\ started \in DOMAIN disk /\ active.id = started
      /\ DOMAIN disk \subseteq 1 .. started
  BY <1>1, ActiveTyped DEF DataInv, DataTypeOK, Ids
<1> HIDE DEF dirs
<1>5. DOMAIN disk' = DOMAIN disk \ Surplus(dirs) /\ \A e \in DOMAIN disk' : disk'[e] = dirs[e]
  BY <1>1, <1>3 DEF Enforced
<1>6. /\ Surplus(dirs) \subseteq CompleteIn(dirs)
      /\ \A e \in Surplus(dirs) : \A d \in CompleteIn(dirs) \ Surplus(dirs) : e < d
      /\ started \in Surplus(dirs) => Cardinality(DOMAIN dirs \ CompleteIn(dirs)) >= MaxEpisodes
  BY <1>3, <1>4, SurplusIsOldest
<1>7. DataTypeOK'
  BY <1>1, <1>3, <1>5 DEF DataInv, DataTypeOK
<1>8. ActiveOK' /\ FlagsOK'
  BY <1>1 DEF ActiveOK, FlagsOK
<1>9. LogsFollow'
  <2>1. inOrder' \in LogStates
    <3>1. inOrder \in LogStates /\ <<>> \in Seq(Calls)
      BY DEF DataInv, LogsFollow
    <3> QED BY <1>1, <3>1 DEF LogStates
  <2> QED BY <1>1, <2>1 DEF LogsFollow, Recording, Open
<1>10. OutcomeStays
  <2>1. ASSUME started \notin Disturbed PROVE disk[started].status \notin Completed
    <3>1. ~ disturbed
      BY <1>1, <1>4, <2>1 DEF Disturbed, ActiveIs
    <3> QED BY <1>1, <3>1, NotFinal DEF DataInv, ActiveOK
  <2> QED BY <1>3, <1>5, <2>1 DEF OutcomeStays
<1>11. RecoveryIsLabelled
  BY <1>2, <1>3, <1>4, <1>5 DEF RecoveryIsLabelled, ActiveIs
<1>12. OldestGo
  <2> DEFINE gone == DOMAIN disk \ DOMAIN disk'
             open == {e \in DOMAIN disk' : disk'[e].status \notin Completed}
  <2>1. gone = Surplus(dirs)
    BY <1>3, <1>5, <1>6 DEF CompleteIn
  <2>2. open = DOMAIN dirs \ CompleteIn(dirs)
    BY <1>3, <1>5, <1>6 DEF CompleteIn
  <2>3. \A e \in gone \ {started} : disk[e].status \in Completed
    BY <1>3, <1>6, <2>1 DEF CompleteIn
  <2>4. \A e \in gone : \A d \in DOMAIN disk' : disk'[d].status \in Completed => e < d
    BY <1>3, <1>5, <1>6, <2>1 DEF CompleteIn
  <2>5. Cardinality(open) < MaxEpisodes => started \in DOMAIN disk'
    <3> SUFFICES ASSUME started \in Surplus(dirs), Cardinality(open) < MaxEpisodes PROVE FALSE
      BY <1>4, <1>5
    <3>1. Cardinality(open) >= MaxEpisodes
      BY <1>6, <2>2
    <3>2. IsFiniteSet(DOMAIN disk) /\ open \in SUBSET DOMAIN disk
      BY <1>4, <1>5, NumbersFinite
    <3> HIDE DEF open
    <3>3. Cardinality(open) \in Nat /\ MaxEpisodes \in Nat
      BY <3>2, DataAssumption, FS_Subset, FS_CardinalityType
    <3> QED BY <3>1, <3>3
  <2> QED BY <1>1, <1>4, <2>3, <2>4, <2>5 DEF OldestGo
<1> QED BY <1>1, <1>7, <1>8, <1>9, <1>10, <1>11, <1>12 DEF Stepped

\* What a raising write destroys is as if the open episode had been written.
Reopened == [active EXCEPT !.status = "recording"]

LEMMA RaisedFacts ==
  ASSUME DataInv, active # None
  PROVE  /\ Reopened \in Episodes /\ Reopened.id = active.id /\ Reopened.status = "recording"
         /\ \A dirs : Raised(dirs) = {dirs, Write(Reopened)}
<1>1. Reopened \in Episodes /\ Reopened.id = active.id /\ Reopened.status = "recording"
  BY ActiveTyped DEF Reopened, Episodes, Statuses
<1>2. "recording" \notin Completed /\ active.id = started /\ started \in DOMAIN disk
  BY ActiveTyped DEF Completed
<1>3. Write(Reopened) = [e \in DOMAIN disk |-> IF e # started THEN disk[e] ELSE Unfinished]
  <2>1. DOMAIN disk \cup {started} = DOMAIN disk
    BY <1>2
  <2> QED BY <1>1, <1>2, <2>1 DEF Write
<1>4. [disk EXCEPT ![active.id] = Unfinished] = Write(Reopened)
  BY <1>2, <1>3
<1> QED BY <1>1, <1>4 DEF Raised

\* A stop that raises, of a task or by request: the episode stays active, completed.
LEMMA StopRaisesSteps ==
  ASSUME DataInv, NEW outcome, StopFails(outcome) \/ TagsFail(outcome),
         task' \in {"idle", "running"}, alone' \in BOOLEAN
  PROVE  Stepped /\ active' # None
<1>1. /\ active # None /\ disturbed' = TRUE
      /\ active' \in {Stopped(outcome), Labelled(Stopped(outcome))}
      /\ disk' \in {disk, Write(Stopped(outcome)), Write(Labelled(Stopped(outcome))),
                   Write(Reopened)}
      /\ UNCHANGED <<started, pending, buffer, frameLogger, written, recovering, inOrder,
                     leftover, recovered>>
  <2>1. active # None
    BY DEF StopFails, TagsFail
  <2> QED BY <2>1, RaisedFacts DEF StopFails, TagsFail
<1>2. /\ Stopped(outcome) \in Episodes /\ Stopped(outcome).id = active.id
      /\ Labelled(Stopped(outcome)) \in Episodes /\ Labelled(Stopped(outcome)).id = active.id
      /\ active' \in Episodes /\ active'.id = active.id /\ active'.status \in Completed
  BY <1>1, StoppedFacts
<1>3. active' # None
  BY <1>2, NoneAssumption
<1>4. /\ DOMAIN disk' = DOMAIN disk
      /\ \A e \in DOMAIN disk' :
           disk'[e] \in [status : Completed, recovery : BOOLEAN] \cup {Unfinished}
  <2>1. CASE disk' = disk
    BY <2>1 DEF DataInv, DataTypeOK
  <2>2. CASE disk' = Write(Stopped(outcome))
    BY <1>1, <1>2, <2>2, WriteFacts
  <2>3. CASE disk' = Write(Labelled(Stopped(outcome)))
    BY <1>1, <1>2, <2>3, WriteFacts
  <2>4. CASE disk' = Write(Reopened)
    BY <1>1, <2>4, RaisedFacts, WriteFacts
  <2> QED BY <1>1, <2>1, <2>2, <2>3, <2>4
<1>5. DataTypeOK'
  BY <1>1, <1>2, <1>4 DEF DataInv, DataTypeOK
<1>6. ActiveOK' /\ FlagsOK'
  BY <1>1, <1>2, <1>4 DEF DataInv, ActiveOK, FlagsOK
<1>7. LogsFollow'
  BY <1>1, <1>2 DEF DataInv, LogsFollow, Recording, Open, Completed
<1>8. OutcomeStays /\ RecoveryIsLabelled /\ OldestGo
  <2>1. CASE disk' = disk
    BY <2>1, NothingWritten
  <2>2. CASE disk' = Write(Stopped(outcome))
    BY <1>1, <1>2, <1>3, <2>2, ActiveWritten
  <2>3. CASE disk' = Write(Labelled(Stopped(outcome)))
    BY <1>1, <1>2, <1>3, <2>3, ActiveWritten
  <2>4. CASE disk' = Write(Reopened)
    BY <1>1, <1>3, <2>4, RaisedFacts, ActiveWritten
  <2> QED BY <1>1, <2>1, <2>2, <2>3, <2>4
<1> QED BY <1>3, <1>5, <1>6, <1>7, <1>8 DEF Stepped

\* A step that changes the task only, or nothing.
LEMMA IdleSteps ==
  ASSUME DataInv,
         UNCHANGED <<volatile, disk, started, written, inOrder, leftover, recovered, disturbed>>,
         task' \in {"idle", "running"}, alone' \in BOOLEAN
  PROVE  Stepped /\ active' = active
<1>1. UNCHANGED <<active, pending, buffer, frameLogger, recovering, disk, started, written,
                  inOrder, leftover, recovered, disturbed>>
  BY DEF volatile
<1>2. DataTypeOK'
  BY <1>1 DEF DataInv, DataTypeOK
<1>3. ActiveOK' /\ FlagsOK'
  BY <1>1 DEF DataInv, ActiveOK, FlagsOK
<1>4. LogsFollow'
  BY <1>1 DEF DataInv, LogsFollow, Recording, Open
<1> QED BY <1>1, <1>2, <1>3, <1>4, NothingWritten DEF Stepped

\* An event is processed at once, or appended to the buffer.
LEMMA EventSteps ==
  ASSUME DataInv, NEW event \in Events, ExecutionEvent(event)
  PROVE  Stepped /\ (active' # None <=> active # None)
<1>1. /\ recovering' = (recovering \/ event.kind = "recovery_started")
      /\ recovered' = (recovered \/ (event.kind = "recovery_started" /\ active # None))
      /\ inOrder' = [Processed(inOrder, event) EXCEPT !.logs = IF active = None THEN <<>> ELSE @]
      /\ UNCHANGED <<disk, started, frameLogger, written, task, leftover, disturbed, alone>>
      /\ Paused => buffer' = Append(buffer, event) /\ UNCHANGED <<active, pending>>
      /\ ~ Paused => Keep(Processed([pending |-> pending, logs |-> Logs], event))
                     /\ UNCHANGED buffer
  BY DEF ExecutionEvent
<1>2. /\ inOrder \in LogStates /\ Processed(inOrder, event) \in LogStates
      /\ buffer \in Seq(Events)
  BY ProcessedTyped DEF DataInv, DataTypeOK, LogsFollow
<1>3. /\ inOrder' \in LogStates
      /\ active # None => inOrder' = Processed(inOrder, event)
  <2>1. <<>> \in Seq(Calls)
    OBVIOUS
  <2> QED BY <1>1, <1>2, <2>1 DEF LogStates
<1> DEFINE st == [pending |-> pending, logs |-> Logs]
           next == Processed(st, event)
<1>4. st \in LogStates /\ next \in LogStates
  <2>1. Logs \in Seq(Calls) /\ pending \in SUBSET Calls
    BY ActiveTyped DEF Logs, DataInv, DataTypeOK
  <2>2. st \in LogStates
    BY <2>1 DEF LogStates
  <2> HIDE DEF st
  <2> QED BY <2>2, ProcessedTyped
<1> HIDE DEF next
<1>5. /\ active = None => active' = None
      /\ active # None => /\ active' \in Episodes
                          /\ active'.id = active.id /\ active'.status = active.status
                          /\ Paused => active' = active
                          /\ ~ Paused => active'.logs = next.logs
      /\ pending' \subseteq Calls /\ buffer' \in Seq(Events)
      /\ ~ Paused => pending' = next.pending
  <2>1. CASE Paused
    <3>1. buffer' \in Seq(Events)
      BY <1>1, <1>2, <2>1
    <3> QED BY <1>1, <2>1, <3>1, ActiveTyped DEF DataInv, DataTypeOK, Paused
  <2>2. CASE ~ Paused
    <3>1. /\ pending' = next.pending
          /\ active' = IF active = None THEN None ELSE [active EXCEPT !.logs = next.logs]
      BY <1>1, <2>2 DEF Keep, next
    <3>2. next.pending \subseteq Calls /\ next.logs \in Seq(Calls)
      BY <1>4 DEF LogStates
    <3>3. active # None => /\ active' \in Episodes /\ active'.logs = next.logs
                           /\ active'.id = active.id /\ active'.status = active.status
      BY <3>1, <3>2, ActiveTyped DEF Episodes
    <3> QED BY <1>1, <1>2, <2>2, <3>1, <3>2, <3>3
  <2> QED BY <2>1, <2>2
<1>6. active' # None <=> active # None
  BY <1>5, NoneAssumption
<1>7. DataTypeOK'
  BY <1>1, <1>5, <1>6 DEF DataInv, DataTypeOK
<1>8. ActiveOK' /\ FlagsOK'
  BY <1>1, <1>5, <1>6 DEF DataInv, DataTypeOK, ActiveOK, FlagsOK
<1>9. LogsFollow'
  <2>1. Recording' /\ ~ leftover' => buffer' = <<>>
    BY <1>1, <1>5, <1>6 DEF Recording, Paused, DataInv, LogsFollow
  <2>2. ASSUME Open', ~ leftover'
        PROVE  Replay([pending |-> pending', logs |-> active'.logs], buffer') = inOrder'
    <3>1. active # None /\ Open /\ ~ leftover /\ Replay(st, buffer) = inOrder
      BY <1>1, <1>5, <1>6, <2>2 DEF Open, DataInv, LogsFollow, Logs
    <3>2. CASE Paused
      <4>1. [pending |-> pending', logs |-> active'.logs] = st
            /\ buffer' = Append(buffer, event)
        BY <1>1, <3>1, <3>2 DEF Logs
      <4> HIDE DEF st
      <4>2. Replay(st, Append(buffer, event)) = Processed(Replay(st, buffer), event)
        BY <1>2, ReplayAppend
      <4> QED BY <1>3, <3>1, <4>1, <4>2
    <3>3. CASE ~ Paused
      <4>1. Recording
        BY <3>1, <3>3, ActiveTyped DEF Open, Recording, Paused, Statuses
      <4>2. buffer = <<>> /\ buffer' = <<>>
        BY <1>1, <3>1, <3>3, <4>1 DEF DataInv, LogsFollow
      <4>3. [pending |-> pending', logs |-> active'.logs] = next
        BY <1>4, <1>5, <3>1, <3>3 DEF LogStates
      <4>4. Replay(next, <<>>) = next /\ Replay(st, <<>>) = st
        BY ReplayEmpty
      <4>5. inOrder' = Processed(st, event)
        BY <1>3, <3>1, <4>2, <4>4
      <4> QED BY <4>2, <4>3, <4>4, <4>5 DEF next
    <3> QED BY <3>2, <3>3
  <2> QED BY <1>3, <2>1, <2>2 DEF LogsFollow
<1>10. OutcomeStays /\ RecoveryIsLabelled /\ OldestGo
  BY <1>1, NothingWritten
<1> QED BY <1>6, <1>7, <1>8, <1>9, <1>10 DEF Stepped

\* A step with which an episode goes on that has not been completed.
LEMMA GoesOnSteps ==
  ASSUME DataInv, Open,
         active' \in Episodes, active'.id = active.id, active'.status \notin Completed,
         frameLogger' \in FrameLoggers, frameLogger'.dir = frameLogger.dir,
         written' \subseteq 0 .. MaxFrames, pending' \subseteq Calls, buffer' \in Seq(Events),
         UNCHANGED <<disk, started, recovering, task, history>>,
         ~ leftover => /\ Recording' => buffer' = <<>>
                       /\ Replay([pending |-> pending', logs |-> active'.logs], buffer') = inOrder
  PROVE  Stepped /\ active' # None
<1>1. UNCHANGED <<disk, started, recovering, task, inOrder, leftover, recovered, disturbed, alone>>
  BY DEF history
<1>2. active' # None /\ frameLogger' # None /\ active # None
  BY NoneAssumption DEF Open
<1>3. DataTypeOK'
  BY <1>1 DEF DataInv, DataTypeOK
<1>4. ActiveOK' /\ FlagsOK'
  BY <1>1, <1>2 DEF DataInv, ActiveOK, FlagsOK
<1>5. LogsFollow'
  BY <1>1 DEF DataInv, LogsFollow
<1> QED BY <1>1, <1>2, <1>3, <1>4, <1>5, NothingWritten DEF Stepped

LEMMA OpenFacts ==
  ASSUME DataInv, Open
  PROVE  /\ active \in Episodes /\ active # None /\ active.status \notin Completed
         /\ active = [id |-> started, status |-> active.status, logs |-> active.logs,
                      recovery |-> active.recovery]
         /\ started \in Ids /\ active.logs \in Seq(Calls) /\ active.recovery \in BOOLEAN
         /\ frameLogger \in FrameLoggers /\ written \subseteq 0 .. MaxFrames
         /\ pending \subseteq Calls /\ buffer \in Seq(Events) /\ MaxFrames \in Nat
         /\ [pending |-> pending, logs |-> active.logs] \in LogStates
         /\ ~ leftover => /\ Recording => buffer = <<>>
                          /\ Replay([pending |-> pending, logs |-> active.logs], buffer) = inOrder
<1>1. active # None /\ active.status \notin Completed
  BY DEF Open
<1>2. pending \subseteq Calls /\ buffer \in Seq(Events) /\ written \subseteq 0 .. MaxFrames
  BY DEF DataInv, DataTypeOK
<1>3. ~ leftover => /\ Recording => buffer = <<>>
                    /\ Replay([pending |-> pending, logs |-> active.logs], buffer) = inOrder
  BY DEF DataInv, LogsFollow
<1>4. [pending |-> pending, logs |-> active.logs] \in LogStates
  BY <1>1, <1>2, ActiveTyped DEF LogStates
<1> QED BY <1>1, <1>2, <1>3, <1>4, ActiveTyped, DataAssumption

LEMMA RobotStateSteps ==
  ASSUME DataInv, RobotState
  PROVE  Stepped /\ active' # None
<1>1. /\ active # None /\ active.status = "recording" /\ frameLogger.count < MaxFrames
      /\ frameLogger' = [frameLogger EXCEPT !.count = @ + 1]
      /\ written' = written \cup {frameLogger.count}
      /\ UNCHANGED <<active, disk, started, pending, buffer, recovering, task, history>>
  BY DEF RobotState, Capture, Recording
<1>2. Open /\ Recording
  BY <1>1 DEF Open, Completed, Recording
<1>3. /\ frameLogger' \in FrameLoggers /\ frameLogger'.dir = frameLogger.dir
      /\ written' \subseteq 0 .. MaxFrames
  <2>1. frameLogger \in FrameLoggers /\ written \subseteq 0 .. MaxFrames /\ MaxFrames \in Nat
    BY <1>2, OpenFacts
  <2>2. /\ frameLogger = [dir |-> frameLogger.dir, count |-> frameLogger.count]
        /\ frameLogger.count \in 0 .. MaxFrames /\ frameLogger.dir \in Ids
    BY <2>1 DEF FrameLoggers
  <2>3. frameLogger.count + 1 \in 0 .. MaxFrames
    BY <1>1, <2>1, <2>2
  <2>4. frameLogger' = [dir |-> frameLogger.dir, count |-> frameLogger.count + 1]
    BY <1>1, <2>2
  <2> QED BY <1>1, <2>1, <2>2, <2>3, <2>4 DEF FrameLoggers
<1> QED BY <1>1, <1>2, <1>3, OpenFacts, GoesOnSteps

LEMMA PauseSteps ==
  ASSUME DataInv, PauseRequest
  PROVE  Stepped /\ active' # None
<1>1. /\ active # None /\ active.status = "recording"
      /\ active' = [active EXCEPT !.status = "paused"]
      /\ UNCHANGED <<disk, started, pending, buffer, frameLogger, written, recovering, task, history>>
  BY DEF PauseRequest, Recording
<1>2. Open /\ Recording
  BY <1>1 DEF Open, Completed, Recording
<1>3. active' = [id |-> started, status |-> "paused", logs |-> active.logs,
                 recovery |-> active.recovery]
  BY <1>1, <1>2, OpenFacts
<1>4. /\ active' \in Episodes /\ active'.id = active.id /\ active'.status \notin Completed
      /\ active'.logs = active.logs
  BY <1>2, <1>3, OpenFacts DEF Episodes, Statuses, Completed
<1>5. ~ Recording'
  BY <1>3 DEF Recording
<1> QED BY <1>1, <1>2, <1>4, <1>5, OpenFacts, GoesOnSteps

LEMMA ResumeSteps ==
  ASSUME DataInv, ResumeRequest
  PROVE  Stepped /\ active' # None
<1> DEFINE st == Replay([pending |-> pending, logs |-> active.logs], buffer)
<1>1. /\ active # None /\ active.status = "paused"
      /\ pending' = st.pending
      /\ active' = [active EXCEPT !.status = "recording", !.logs = st.logs]
      /\ buffer' = <<>>
      /\ frameLogger' = [frameLogger EXCEPT !.count = 0]
      /\ UNCHANGED <<disk, started, written, recovering, task, history>>
  BY DEF ResumeRequest, Paused, Replay, Flushed
<1>2. Open
  BY <1>1 DEF Open, Completed
<1>3. st \in LogStates
  BY <1>2, OpenFacts, ReplayTyped
<1>4. ~ leftover => st = inOrder
  BY <1>2, OpenFacts
<1> HIDE DEF st
<1>5. /\ active' \in Episodes /\ active'.id = active.id /\ active'.status = "recording"
      /\ active'.logs = st.logs
  <2>1. active \in Episodes /\ st.logs \in Seq(Calls) /\ "recording" \in Statuses
    BY <1>2, <1>3, OpenFacts DEF LogStates, Statuses
  <2>2. active' = [active EXCEPT !.status = "recording", !.logs = st.logs]
    BY <1>1
  <2> QED BY <2>1, <2>2 DEF Episodes
<1>6. /\ active'.status \notin Completed /\ pending' \subseteq Calls /\ buffer' \in Seq(Events)
  <2>1. <<>> \in Seq(Events)
    OBVIOUS
  <2> QED BY <1>1, <1>3, <1>5, <2>1 DEF Completed, LogStates
<1>7. frameLogger' \in FrameLoggers /\ frameLogger'.dir = frameLogger.dir
  BY <1>1, <1>2, OpenFacts DEF FrameLoggers
<1>8. Replay([pending |-> pending', logs |-> active'.logs], buffer') = st
  <2>1. [pending |-> pending', logs |-> active'.logs] = st
    BY <1>1, <1>3, <1>5 DEF LogStates
  <2> QED BY <1>1, <2>1, ReplayEmpty
<1>9. written' \subseteq 0 .. MaxFrames
  BY <1>1, <1>2, OpenFacts
<1> QED BY <1>1, <1>2, <1>4, <1>5, <1>6, <1>7, <1>8, <1>9, GoesOnSteps

\* Labels from outside reach the active episode and its directory.
LEMMA LabelSteps ==
  ASSUME DataInv, LabelRequest
  PROVE  Stepped /\ active' # None
<1>1. /\ active # None
      /\ active' \in {active, [active EXCEPT !.recovery = TRUE]}
      /\ disk' \in {Write(active'), disk, Write(Reopened)}
      /\ UNCHANGED <<started, pending, buffer, frameLogger, written, recovering, task, history>>
  <2>1. active # None
    BY DEF LabelRequest
  <2> QED BY <2>1, RaisedFacts DEF LabelRequest
<1>2. /\ active' \in Episodes /\ active'.id = active.id /\ active'.status = active.status
      /\ active'.logs = active.logs /\ active' # None
  <2>1. /\ active' \in Episodes /\ active'.id = active.id /\ active'.status = active.status
        /\ active'.logs = active.logs
    BY <1>1, ActiveTyped DEF Episodes
  <2> QED BY <2>1, NoneAssumption
<1>3. /\ DOMAIN disk' = DOMAIN disk
      /\ \A e \in DOMAIN disk' :
           disk'[e] \in [status : Completed, recovery : BOOLEAN] \cup {Unfinished}
      /\ active.status \notin Completed /\ disk[started] = Unfinished => disk'[started] = Unfinished
  <2>1. CASE disk' = disk
    BY <2>1 DEF DataInv, DataTypeOK
  <2>2. CASE disk' = Write(active')
    BY <1>1, <1>2, <2>2, WriteFacts
  <2>3. CASE disk' = Write(Reopened)
    <3>1. disk'[started] = Unfinished
      BY <1>1, <2>3, RaisedFacts, WriteFacts DEF Completed
    <3> QED BY <1>1, <2>3, <3>1, RaisedFacts, WriteFacts
  <2> QED BY <1>1, <2>1, <2>2, <2>3
<1>4. UNCHANGED <<inOrder, leftover, recovered, disturbed, alone>>
  BY <1>1 DEF history
<1>5. DataTypeOK'
  BY <1>1, <1>2, <1>3 DEF DataInv, DataTypeOK
<1>6. ActiveOK' /\ FlagsOK'
  BY <1>1, <1>2, <1>3, <1>4 DEF DataInv, ActiveOK, FlagsOK
<1>7. LogsFollow'
  BY <1>1, <1>2, <1>4 DEF DataInv, LogsFollow, Recording, Open
<1>8. OutcomeStays /\ RecoveryIsLabelled /\ OldestGo
  <2>1. CASE disk' = disk
    BY <2>1, NothingWritten
  <2>2. CASE disk' = Write(active')
    BY <1>1, <1>2, <2>2, ActiveWritten
  <2>3. CASE disk' = Write(Reopened)
    BY <1>1, <1>2, <2>3, RaisedFacts, ActiveWritten
  <2> QED BY <1>1, <2>1, <2>2, <2>3
<1> QED BY <1>2, <1>5, <1>6, <1>7, <1>8 DEF Stepped

\* A crash or a shutdown: the next process starts with what is on disk.
LEMMA RestartSteps ==
  ASSUME DataInv, Crash \/ Shutdown
  PROVE  Stepped /\ alone' = FALSE
<1>1. /\ active' = None /\ pending' = {} /\ buffer' = <<>> /\ frameLogger' = None
      /\ recovering' = FALSE /\ leftover' = FALSE /\ alone' = FALSE /\ written' = {}
      /\ inOrder' = [inOrder EXCEPT !.logs = <<>>] /\ recovered' = FALSE /\ disturbed' = FALSE
      /\ UNCHANGED <<started, task>>
      /\ \/ disk' = disk
         \/ active # None /\ disk' \in {Write(Stopped("failure")), Write(Reopened)}
  BY RaisedFacts DEF Crash, Shutdown, Restart, EndOfHistory
<1>2. /\ DOMAIN disk' = DOMAIN disk
      /\ \A e \in DOMAIN disk' :
           disk'[e] \in [status : Completed, recovery : BOOLEAN] \cup {Unfinished}
      /\ OutcomeStays /\ RecoveryIsLabelled /\ OldestGo
  <2>1. CASE disk' = disk
    BY <2>1, NothingWritten DEF DataInv, DataTypeOK
  <2>2. CASE active # None /\ disk' = Write(Stopped("failure"))
    <3>1. /\ Stopped("failure") \in Episodes /\ Stopped("failure").id = active.id
          /\ Stopped("failure").status # "completed_success"
      BY <2>2, StoppedFacts
    <3> QED BY <2>2, <3>1, WriteFacts, ActiveWritten
  <2>3. CASE active # None /\ disk' = Write(Reopened)
    BY <2>3, RaisedFacts, WriteFacts, ActiveWritten
  <2> QED BY <1>1, <2>1, <2>2, <2>3
<1>3. DataTypeOK'
  <2>1. <<>> \in Seq(Events)
    OBVIOUS
  <2> QED BY <1>1, <1>2, <2>1 DEF DataInv, DataTypeOK
<1>4. ActiveOK' /\ FlagsOK'
  BY <1>1 DEF ActiveOK, FlagsOK
<1>5. LogsFollow'
  <2>1. inOrder \in LogStates /\ <<>> \in Seq(Calls)
    BY DEF DataInv, LogsFollow
  <2>2. inOrder' \in LogStates
    BY <1>1, <2>1 DEF LogStates
  <2> QED BY <1>1, <2>2 DEF LogsFollow, Recording, Open
<1> QED BY <1>1, <1>2, <1>3, <1>4, <1>5 DEF Stepped

-----------------------------------------------------------------------------
LEMMA NextSteps ==
  ASSUME DataInv, Next
  PROVE  Stepped /\ EpisodesFollowTasks'
<1>1. /\ task \in {"idle", "running"} /\ alone \in BOOLEAN
      /\ alone => (active # None <=> task = "running")
  BY DEF DataInv, DataTypeOK, FlagsOK, EpisodesFollowTasks
<1>2. CASE TaskRuns
  <2>1. task = "idle" /\ task' = "running"
    BY <1>2 DEF TaskRuns
  <2>2. CASE active # None /\ UNCHANGED <<volatile, disk, started, written, history>>
    BY <1>1, <2>1, <2>2, IdleSteps DEF history, EpisodesFollowTasks
  <2>3. CASE StartEpisode /\ UNCHANGED alone
    BY <1>1, <2>1, <2>3, StartEpisodeSteps DEF EpisodesFollowTasks
  <2>4. CASE StartFails /\ alone' = FALSE
    BY <2>1, <2>4, StartFailsSteps DEF EpisodesFollowTasks
  <2> QED BY <1>2, <2>2, <2>3, <2>4 DEF TaskRuns
<1>3. CASE TaskEnds
  <2>1. PICK outcome \in {"success", "failure"} :
          /\ task = "running" /\ task' = "idle"
          /\ \/ active = None /\ UNCHANGED <<volatile, disk, started, written, history>>
             \/ StopEpisode(outcome) /\ UNCHANGED alone
             \/ StopFails(outcome) /\ alone' = FALSE
    BY <1>3 DEF TaskEnds
  <2>2. CASE active = None /\ UNCHANGED <<volatile, disk, started, written, history>>
    BY <1>1, <2>1, <2>2, IdleSteps DEF history, EpisodesFollowTasks
  <2>3. CASE StopEpisode(outcome) /\ UNCHANGED alone
    BY <1>1, <2>1, <2>3, StopEpisodeSteps DEF EpisodesFollowTasks
  <2>4. CASE StopFails(outcome) /\ alone' = FALSE
    BY <2>1, <2>4, StopRaisesSteps DEF EpisodesFollowTasks
  <2> QED BY <2>1, <2>2, <2>3, <2>4
<1>4. CASE TaskCancelled
  BY <1>4, IdleSteps DEF TaskCancelled, EpisodesFollowTasks
<1>5. ASSUME NEW event \in Events, ExecutionEvent(event)
      PROVE  Stepped /\ EpisodesFollowTasks'
  <2>1. UNCHANGED <<task, alone>>
    BY <1>5 DEF ExecutionEvent
  <2> QED BY <1>1, <1>5, <2>1, EventSteps DEF EpisodesFollowTasks
<1>6. CASE RobotState \/ PauseRequest \/ ResumeRequest \/ LabelRequest
  <2>1. UNCHANGED <<task, alone>> /\ active # None
    BY <1>6 DEF RobotState, PauseRequest, ResumeRequest, LabelRequest, history,
                Recording, Paused
  <2> QED BY <1>1, <1>6, <2>1, RobotStateSteps, PauseSteps, ResumeSteps, LabelSteps
          DEF EpisodesFollowTasks
<1>7. CASE StartRequest
  <2>1. (StartEpisode \/ StartFails) /\ alone' = FALSE /\ task' = task
    BY <1>7 DEF StartRequest
  <2> QED BY <1>1, <2>1, StartEpisodeSteps, StartFailsSteps DEF EpisodesFollowTasks
<1>8. CASE StopRequest
  <2>1. PICK outcome \in {"success", "failure"} :
          StopEpisode(outcome) \/ StopFails(outcome) \/ TagsFail(outcome)
    BY <1>8 DEF StopRequest
  <2>2. alone' = FALSE /\ task' = task
    BY <1>8 DEF StopRequest
  <2> QED BY <1>1, <2>1, <2>2, StopEpisodeSteps, StopRaisesSteps DEF EpisodesFollowTasks
<1>9. CASE Crash \/ Shutdown
  BY <1>9, RestartSteps DEF EpisodesFollowTasks
<1> QED BY <1>2, <1>3, <1>4, <1>5, <1>6, <1>7, <1>8, <1>9 DEF Next, EpisodeControl

LEMMA DataStep ==
  DataInv /\ [Next]_vars => DataInv' /\ OutcomeStays /\ RecoveryIsLabelled /\ OldestGo
<1> SUFFICES ASSUME DataInv, [Next]_vars
             PROVE  DataInv' /\ OutcomeStays /\ RecoveryIsLabelled /\ OldestGo
  OBVIOUS
<1>1. CASE Next
  BY <1>1, NextSteps DEF Stepped, DataInv
<1>2. CASE UNCHANGED vars
  <2>1. /\ UNCHANGED <<volatile, disk, started, written, inOrder, leftover, recovered, disturbed>>
        /\ task' = task /\ alone' = alone /\ active' = active
    BY <1>2 DEF vars, volatile
  <2>2. task' \in {"idle", "running"} /\ alone' \in BOOLEAN
    BY <2>1 DEF DataInv, DataTypeOK, FlagsOK
  <2>3. Stepped
    BY <2>1, <2>2, IdleSteps
  <2>4. EpisodesFollowTasks'
    BY <2>1 DEF DataInv, EpisodesFollowTasks
  <2> QED BY <2>3, <2>4 DEF Stepped, DataInv
<1> QED BY <1>1, <1>2

LEMMA InvGivesState == DataInv => DataStateOK
<1> SUFFICES ASSUME DataInv PROVE FramesGoToEpisode /\ LogsKeepOrder
  BY DEF DataInv, DataStateOK
<1>1. FramesGoToEpisode
  BY DEF FramesGoToEpisode, Recording, DataInv, ActiveOK
<1>2. LogsKeepOrder
  <2> SUFFICES ASSUME Recording, ~ leftover PROVE active.logs = inOrder.logs
    BY DEF LogsKeepOrder
  <2>1. Open /\ buffer = <<>>
    BY DEF Recording, Open, Completed, DataInv, LogsFollow
  <2>2. [pending |-> pending, logs |-> active.logs] = inOrder
    BY <2>1, ReplayEmpty DEF DataInv, LogsFollow
  <2> QED BY <2>2
<1> QED BY <1>1, <1>2

\* The record of an episode is its own and complete, for any calls, events and
\* bounds, through pauses, stops that raise, crashes and restarts: its frames
\* go to its directory, its logs are those of the events in their order unless an
\* episode ended with events in the buffer, and without interference it lives as
\* long as its task (EpisodeRecorder, SkillLogger, the data node's callbacks).
THEOREM EpisodesAreComplete == Spec => []DataStateOK
<1>1. Init => DataInv
  BY InitHolds
<1>2. DataInv /\ [Next]_vars => DataInv'
  BY DataStep
<1>3. DataInv => DataStateOK
  BY InvGivesState
<1> QED BY <1>1, <1>2, <1>3, PTL DEF Spec

\* As long as no stop of it has raised, no step changes the outcome on disk of a
\* stopped episode, and one that ends as a success carries a recovery that started
\* during it in its labels.  An episode whose stop raised and is active still is
\* left out of both, and one that ends as a failure of the second (stop,
\* merge_labels).
THEOREM StoppedIsFinal == Spec => StoppedEpisodesAreFinal
<1>1. Init => DataInv
  BY InitHolds
<1>2. DataInv /\ [Next]_vars => DataInv'
  BY DataStep
<1>3. DataInv /\ [Next]_vars => [OutcomeStays /\ RecoveryIsLabelled]_vars
  BY DataStep
<1> QED BY <1>1, <1>2, <1>3, PTL DEF Spec, StoppedEpisodesAreFinal

\* Only completed episodes are deleted, and those the oldest, for any number of
\* episodes and any max_episodes (_enforce_max_episodes).
THEOREM OldestIsDeleted == Spec => OldestGoFirst
<1>1. Init => DataInv
  BY InitHolds
<1>2. DataInv /\ [Next]_vars => DataInv'
  BY DataStep
<1>3. DataInv /\ [Next]_vars => [OldestGo]_vars
  BY DataStep
<1> QED BY <1>1, <1>2, <1>3, PTL DEF Spec, OldestGoFirst, OldestGo

=============================================================================
