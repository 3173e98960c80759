-------------------------- MODULE WorldModelProofs --------------------------
(***************************************************************************)
(* Proofs about the world model, for any ids, time-to-lives, refreshes and *)
(* any number of readers: subscribers and readers are never behind the     *)
(* state, the timer gives up only what was silent too long, and a removal  *)
(* is final.                                                               *)
(***************************************************************************)
EXTENDS WorldModel, TLAPS, SequenceTheorems, WellFoundedInduction

\* A nonempty set of naturals has a least element.
LEMMA LeastElement ==
  ASSUME NEW T \in SUBSET Nat, T # {}
  PROVE  \E x \in T : \A y \in T : x <= y
<1> DEFINE R == {p \in Nat \X Nat : p[1] < p[2]}
<1>1. IsWellFoundedOn(R, Nat)
  BY NatLessThanWellFounded, Zenon DEF OpToRel
<1>2. PICK x \in T : \A y \in T : ~ (<<y, x>> \in R)
  BY <1>1, WFMin, Zenon
<1>3. \A y \in T : ~ (y < x)
  BY <1>2
<1> QED BY <1>3

\* query_object() finds an entry with the id, and the first one.
LEMMA FirstEntry ==
  ASSUME NEW s \in Seq(Object), NEW id, \E k \in DOMAIN s : s[k].id = id,
         NEW f, f = CHOOSE k \in DOMAIN s :
                      /\ s[k].id = id
                      /\ \A j \in DOMAIN s : s[j].id = id => k <= j
  PROVE  f \in 1..Len(s) /\ s[f].id = id /\ s[f] \in Object
<1> DEFINE T == {k \in 1..Len(s) : s[k].id = id}
<1>1. T \in SUBSET Nat /\ T # {} /\ DOMAIN s = 1..Len(s)
  OBVIOUS
<1>2. PICK x \in T : \A y \in T : x <= y
  BY <1>1, LeastElement
<1>3. \E k \in DOMAIN s :
        s[k].id = id /\ \A j \in DOMAIN s : s[j].id = id => k <= j
  BY <1>1, <1>2
<1>4. f \in DOMAIN s /\ s[f].id = id
  BY <1>3, Zenon
<1> QED BY <1>1, <1>4

LEMMA FirstEntryLeast ==
  ASSUME NEW s \in Seq(Object), NEW id, NEW g \in 1..Len(s), s[g].id = id
  PROVE  (CHOOSE k \in DOMAIN s :
            /\ s[k].id = id
            /\ \A j \in DOMAIN s : s[j].id = id => k <= j) <= g
<1> DEFINE T == {k \in 1..Len(s) : s[k].id = id}
           P(k) == s[k].id = id /\ \A j \in DOMAIN s : s[j].id = id => k <= j
<1>1. T \in SUBSET Nat /\ T # {} /\ DOMAIN s = 1..Len(s)
  OBVIOUS
<1>2. PICK x \in T : \A y \in T : x <= y
  BY <1>1, LeastElement
<1>3. \E k \in DOMAIN s : P(k)
  BY <1>1, <1>2
<1>4. P(CHOOSE k \in DOMAIN s : P(k))
  BY <1>3, Zenon
<1> QED BY <1>1, <1>4, Zenon

LEMMA FoundFacts ==
  ASSUME objects \in Seq(Object), NEW id, Known(id)
  PROVE  /\ FirstIndex(id) \in 1..Len(objects)
         /\ Found(id) \in Object /\ Found(id).id = id
<1>1. \E k \in DOMAIN objects : objects[k].id = id
  BY DEF Known
<1>2. FirstIndex(id) = CHOOSE k \in DOMAIN objects :
                         /\ objects[k].id = id
                         /\ \A j \in DOMAIN objects : objects[j].id = id => k <= j
  BY Zenon DEF FirstIndex
<1> HIDE DEF FirstIndex
<1>3. FirstIndex(id) \in 1..Len(objects) /\ objects[FirstIndex(id)].id = id
      /\ objects[FirstIndex(id)] \in Object
  BY <1>1, <1>2, FirstEntry, Zenon
<1> QED BY <1>3 DEF Found

LEMMA FoundFactsNext ==
  ASSUME objects' \in Seq(Object), NEW id, Known(id)'
  PROVE  /\ FirstIndex(id)' \in 1..Len(objects')
         /\ Found(id)' \in Object /\ Found(id)'.id = id
<1>1. \E k \in DOMAIN objects' : objects'[k].id = id
  BY DEF Known
<1>2. FirstIndex(id)' = CHOOSE k \in DOMAIN objects' :
                          /\ objects'[k].id = id
                          /\ \A j \in DOMAIN objects' : objects'[j].id = id => k <= j
  BY Zenon DEF FirstIndex
<1>3. FirstIndex(id)' \in 1..Len(objects') /\ objects'[FirstIndex(id)'].id = id
      /\ objects'[FirstIndex(id)'] \in Object
  BY <1>1, <1>2, FirstEntry, Zenon
<1> QED BY <1>3 DEF Found

\* The lengths of the silences are the ages of the entries, as long as an id
\* has one entry.
AgeIsSilence ==
  \A id \in Ids : Unique(id) =>
    \A k \in 1..Len(objects) : objects[k].id = id => objects[k].age = silence[id]

\* Only a refresh takes the state away from a reader.
OldIsReplaced ==
  \A r \in Readers : view[r].holds = "old" => replaced[r]

WorldInv ==
  /\ OldIsReplaced
  /\ WorldTypeOK
  /\ SubscribersAreCurrent
  /\ StaleOnlyAfterRefresh
  /\ AgeIsSilence

LEMMA ContentTyped ==
  ASSUME NEW s \in Seq(Object), NEW rob \in Robots
  PROVE  Content(s, rob) \in Contents
<1>1. Looks(s) \in Seq(Ids \X Lifecycles)
  <2>1. DOMAIN s = 1..Len(s) /\ Len(s) \in Nat
    OBVIOUS
  <2>2. \A k \in 1..Len(s) : <<s[k].id, s[k].life>> \in Ids \X Lifecycles
    <3> SUFFICES ASSUME NEW k \in 1..Len(s)
                 PROVE  <<s[k].id, s[k].life>> \in Ids \X Lifecycles
      OBVIOUS
    <3>1. s[k] \in Object
      OBVIOUS
    <3>2. s[k].id \in Ids /\ s[k].life \in Lifecycles
      BY <3>1 DEF Object
    <3> QED BY <3>2
  <2>3. Looks(s) = [k \in 1..Len(s) |-> <<s[k].id, s[k].life>>]
    BY <2>1 DEF Looks
  <2> QED BY <2>1, <2>2, <2>3
<1> QED BY <1>1 DEF Content, Contents

LEMMA MergedTyped ==
  ASSUME NEW o \in Object, NEW p \in Payloads
  PROVE  /\ Merged(o, p) \in Object
         /\ Merged(o, p).id = IF p.id = NotGiven THEN o.id ELSE p.id
         /\ Merged(o, p).age = 0
BY WorldAssumption DEF Merged, Object, Lifecycles

-----------------------------------------------------------------------------
(* The invariant *)

LEMMA InitHolds == Init => WorldInv
<1> SUFFICES ASSUME Init PROVE WorldInv
  OBVIOUS
<1>1. <<>> \in Seq(Object) /\ DOMAIN objects = {}
  BY DEF Init
<1>2. WorldTypeOK
  <2>1. objects \in Seq(Object) /\ robot \in Robots
    BY <1>1, WorldAssumption DEF Init
  <2>2. notified \in Contents
    BY <1>1, ContentTyped, WorldAssumption DEF Init
  <2>3. [holds |-> "nothing"] \in Views
    BY DEF Views
  <2>4. 0 \in 0 .. MaxAge
    BY WorldAssumption
  <2> QED BY <2>1, <2>2, <2>3, <2>4 DEF Init, WorldTypeOK
<1>3. SubscribersAreCurrent /\ StaleOnlyAfterRefresh /\ AgeIsSilence /\ OldIsReplaced
  BY <1>1 DEF Init, SubscribersAreCurrent, StaleOnlyAfterRefresh, AgeIsSilence, OldIsReplaced
<1> QED BY <1>2, <1>3 DEF WorldInv

\* A step that announces the state it leaves and touches no reader keeps
\* subscribers and readers current.
LEMMA AnnouncedChange ==
  ASSUME WorldInv, objects' \in Seq(Object), robot' \in Robots,
         NotifyStateChanged, UNCHANGED <<view, replaced>>
  PROVE  /\ notified' \in Contents
         /\ SubscribersAreCurrent'
         /\ StaleOnlyAfterRefresh'
         /\ OldIsReplaced'
<1>1. notified' \in Contents /\ SubscribersAreCurrent'
  BY ContentTyped DEF NotifyStateChanged, SubscribersAreCurrent
<1>2. OldIsReplaced' /\ StaleOnlyAfterRefresh'
  BY DEF WorldInv, OldIsReplaced, StaleOnlyAfterRefresh, Sees
<1> QED BY <1>1, <1>2

LEMMA AddedKeeps ==
  ASSUME WorldInv, NEW id \in Ids, NEW ttl \in Ttls, ObjectAdded(id, ttl)
  PROVE  WorldInv'
<1> DEFINE new == [id |-> id, life |-> "active", age |-> 0, ttl |-> ttl]
<1>1. /\ new \in Object
      /\ objects \in Seq(Object) /\ objects' = Append(objects, new)
      /\ silence' = [silence EXCEPT ![id] = 0]
  BY WorldAssumption DEF ObjectAdded, Object, Lifecycles, WorldInv, WorldTypeOK
<1> HIDE DEF new
<1>2. /\ objects' \in Seq(Object) /\ Len(objects') = Len(objects) + 1
      /\ \A k \in 1..Len(objects) : objects'[k] = objects[k]
      /\ objects'[Len(objects) + 1] = new
      /\ DOMAIN objects = 1..Len(objects) /\ DOMAIN objects' = 1..Len(objects')
  BY <1>1
<1>3. WorldTypeOK' /\ SubscribersAreCurrent' /\ StaleOnlyAfterRefresh' /\ OldIsReplaced'
  BY <1>2, AnnouncedChange, WorldAssumption DEF ObjectAdded, WorldInv, WorldTypeOK
<1>4. AgeIsSilence'
  <2> SUFFICES ASSUME NEW i \in Ids, Unique(i)', NEW k \in 1..Len(objects'),
                      objects'[k].id = i
               PROVE  objects'[k].age = silence'[i]
    BY DEF AgeIsSilence
  <2>1. Len(objects) \in Nat /\ new.id = id /\ new.age = 0
    BY <1>1 DEF new
  <2>2. CASE k = Len(objects) + 1
    BY <2>1, <2>2, <1>1, <1>2 DEF WorldInv, WorldTypeOK
  <2>3. CASE k \in 1..Len(objects)
    <3>1. i # id
      BY <2>1, <2>3, <1>2 DEF Unique
    <3>2. Unique(i)
      BY <1>2, <2>1 DEF Unique
    <3>3. silence'[i] = silence[i]
      BY <3>1, <1>1 DEF WorldInv, WorldTypeOK
    <3> QED BY <3>2, <3>3, <2>3, <1>2 DEF WorldInv, AgeIsSilence
  <2> QED BY <2>1, <2>2, <2>3, <1>2
<1> QED BY <1>3, <1>4 DEF WorldInv

\* A step that changes entries in place leaves the ids where they are.
LEMMA SameIdsSameUnique ==
  ASSUME objects \in Seq(Object), objects' \in Seq(Object), Len(objects') = Len(objects),
         \A k \in 1..Len(objects) : objects'[k].id = objects[k].id, NEW id
  PROVE  Unique(id)' <=> Unique(id)
BY DEF Unique

LEMMA UpdatedKeeps ==
  ASSUME WorldInv, NEW id \in Ids, NEW p \in Payloads, ObjectUpdated(id, p)
  PROVE  WorldInv'
<1> DEFINE f == FirstIndex(id)
           new == Merged(objects[f], p)
           name == IF p.id = NotGiven THEN id ELSE p.id
<1>1. /\ objects \in Seq(Object) /\ f \in 1..Len(objects) /\ objects[f].id = id
      /\ objects[f] \in Object
  BY FoundFacts DEF ObjectUpdated, WorldInv, WorldTypeOK, Found
<1>2. new \in Object /\ new.id = name /\ new.age = 0
  BY <1>1, MergedTyped
<1>3. /\ objects' = [objects EXCEPT ![f] = new]
      /\ silence' = [i \in Ids |-> IF i = name THEN 0
                                    ELSE IF i = id /\ Known(id)' THEN Found(id)'.age
                                    ELSE silence[i]]
  BY DEF ObjectUpdated
<1> HIDE DEF f, new, name
<1>4. /\ objects' \in Seq(Object) /\ Len(objects') = Len(objects)
      /\ \A k \in 1..Len(objects) : objects'[k] = IF k = f THEN new ELSE objects[k]
  BY <1>1, <1>2, <1>3, ExceptSeq
<1>5. WorldTypeOK' /\ SubscribersAreCurrent' /\ StaleOnlyAfterRefresh' /\ OldIsReplaced'
  <2>1. Known(id)' => Found(id)'.age \in 0 .. MaxAge
    BY <1>4, FoundFactsNext DEF Object
  <2>2. silence' \in [Ids -> 0 .. MaxAge]
    BY <1>3, <2>1, WorldAssumption DEF WorldInv, WorldTypeOK
  <2>3. UNCHANGED <<robot, view, replaced>> /\ NotifyStateChanged
    BY DEF ObjectUpdated
  <2>4. robot' \in Robots
    BY <2>3 DEF WorldInv, WorldTypeOK
  <2> QED
    BY <1>4, <2>2, <2>3, <2>4, AnnouncedChange DEF WorldInv, WorldTypeOK
<1>6. AgeIsSilence'
  <2> SUFFICES ASSUME NEW i \in Ids, Unique(i)', NEW k \in 1..Len(objects'),
                      objects'[k].id = i
               PROVE  objects'[k].age = silence'[i]
    BY DEF AgeIsSilence
  <2>1. CASE i = name
    <3>1. k = f
      BY <2>1, <1>1, <1>2, <1>4 DEF Unique
    <3> QED BY <3>1, <2>1, <1>1, <1>2, <1>3, <1>4
  <2>2. CASE i # name /\ i = id
    <3>1. Known(i)'
      BY <1>4 DEF Known
    <3>2. FirstIndex(i)' \in 1..Len(objects') /\ objects'[FirstIndex(i)'].id = i
      BY <1>4, <3>1, FoundFactsNext DEF Found
    <3>3. k = FirstIndex(i)'
      BY <1>4, <3>2 DEF Unique
    <3> QED BY <1>3, <2>2, <3>1, <3>3 DEF Found
  <2>3. CASE i # name /\ i # id
    <3>1. k \in 1..Len(objects) /\ k # f /\ objects'[k] = objects[k]
      BY <2>3, <1>2, <1>4
    <3>2. Unique(i)
      BY <2>3, <1>1, <1>4 DEF Unique
    <3>3. silence'[i] = silence[i]
      BY <2>3, <1>3
    <3> QED BY <3>1, <3>2, <3>3 DEF WorldInv, AgeIsSilence
  <2> QED BY <2>1, <2>2, <2>3
<1> QED BY <1>5, <1>6 DEF WorldInv

LEMMA RemovedKeeps ==
  ASSUME WorldInv, NEW id \in Ids, ObjectRemoved(id)
  PROVE  WorldInv'
<1> DEFINE f == FirstIndex(id)
           new == [objects[f] EXCEPT !.life = "removed"]
<1>1. objects \in Seq(Object) /\ f \in 1..Len(objects) /\ objects[f] \in Object
  BY FoundFacts DEF ObjectRemoved, WorldInv, WorldTypeOK, Found
<1>2. new \in Object /\ new.id = objects[f].id /\ new.age = objects[f].age
  BY <1>1 DEF Object, Lifecycles
<1>3. objects' = [objects EXCEPT ![f] = new] /\ silence' = silence
  BY <1>1 DEF ObjectRemoved
<1> HIDE DEF f, new
<1>4. /\ objects' \in Seq(Object) /\ Len(objects') = Len(objects)
      /\ \A k \in 1..Len(objects) : objects'[k] = IF k = f THEN new ELSE objects[k]
  BY <1>1, <1>2, <1>3, ExceptSeq
<1>5. WorldTypeOK' /\ SubscribersAreCurrent' /\ StaleOnlyAfterRefresh' /\ OldIsReplaced'
  BY <1>3, <1>4, AnnouncedChange DEF ObjectRemoved, WorldInv, WorldTypeOK
<1>6. AgeIsSilence'
  BY <1>1, <1>2, <1>3, <1>4, SameIdsSameUnique DEF WorldInv, AgeIsSilence
<1> QED BY <1>5, <1>6 DEF WorldInv

LEMMA RefreshedKeeps ==
  ASSUME WorldInv, NEW objs \in Refreshes, NEW rob \in Robots, FullRefresh(objs, rob)
  PROVE  WorldInv'
<1>1. /\ objects' \in Seq(Object) /\ robot' \in Robots
      /\ objects' = objs /\ robot' = rob
      /\ view' = [r \in Readers |-> Orphan(view[r])]
      /\ replaced' = [r \in Readers |-> TRUE]
      /\ notified' = Content(objects', robot')
  BY WorldAssumption DEF FullRefresh, NotifyStateChanged
<1>2. \A id \in Ids : silence'[id] \in 0 .. MaxAge
      /\ (Known(id)' => silence'[id] = Found(id)'.age)
  <2> SUFFICES ASSUME NEW id \in Ids
               PROVE  silence'[id] \in 0 .. MaxAge /\ (Known(id)' => silence'[id] = Found(id)'.age)
    OBVIOUS
  <2>1. silence'[id] = IF Known(id)' THEN Found(id)'.age ELSE MaxAge
    BY <1>1 DEF FullRefresh, Known
  <2>2. Known(id)' => Found(id)'.age \in 0 .. MaxAge
    BY <1>1, FoundFactsNext DEF Object
  <2> QED BY <2>1, <2>2, WorldAssumption
<1>3. WorldTypeOK'
  <2>1. \A r \in Readers : Orphan(view[r]) \in Views
    BY ContentTyped DEF Orphan, Views, WorldInv, WorldTypeOK
  <2>2. silence' \in [Ids -> 0 .. MaxAge]
    BY <1>2 DEF FullRefresh
  <2> QED BY <1>1, <2>1, <2>2, ContentTyped DEF WorldTypeOK
<1>4. SubscribersAreCurrent' /\ StaleOnlyAfterRefresh' /\ OldIsReplaced'
  BY <1>1 DEF SubscribersAreCurrent, StaleOnlyAfterRefresh, OldIsReplaced
<1>5. AgeIsSilence'
  <2> SUFFICES ASSUME NEW i \in Ids, Unique(i)', NEW k \in 1..Len(objects'),
                      objects'[k].id = i
               PROVE  objects'[k].age = silence'[i]
    BY DEF AgeIsSilence
  <2>1. Known(i)'
    BY <1>1 DEF Known
  <2>2. FirstIndex(i)' \in 1..Len(objects') /\ objects'[FirstIndex(i)'].id = i
    BY <1>1, <2>1, FoundFactsNext DEF Found
  <2>3. k = FirstIndex(i)'
    BY <1>1, <2>2 DEF Unique
  <2> QED BY <2>1, <2>3, <1>2 DEF Found
<1> QED BY <1>3, <1>4, <1>5 DEF WorldInv

LEMMA RobotKeeps ==
  ASSUME WorldInv, NEW rob \in Robots, UpdateRobotState(rob)
  PROVE  WorldInv'
<1>1. objects' = objects /\ robot' = rob /\ UNCHANGED <<view, replaced, silence>>
  BY DEF UpdateRobotState
<1>2. WorldTypeOK' /\ SubscribersAreCurrent' /\ StaleOnlyAfterRefresh' /\ OldIsReplaced'
  BY <1>1, AnnouncedChange DEF UpdateRobotState, WorldInv, WorldTypeOK
<1>3. AgeIsSilence'
  BY <1>1 DEF WorldInv, AgeIsSilence, Unique
<1> QED BY <1>2, <1>3 DEF WorldInv

\* What the timer leaves of each entry.
LEMMA ExpiredFacts ==
  ASSUME NEW s \in Seq(Object)
  PROVE  /\ Expired(s) \in Seq(Object) /\ Len(Expired(s)) = Len(s)
         /\ \A k \in 1..Len(s) :
              /\ Expired(s)[k].id = s[k].id
              /\ Expired(s)[k].age = s[k].age
              /\ Expired(s)[k].ttl = s[k].ttl
              /\ Expired(s)[k].life = IF Expires(s[k]) THEN "lost" ELSE s[k].life
<1> DEFINE E(k) == IF Expires(s[k]) THEN [s[k] EXCEPT !.life = "lost"] ELSE s[k]
<1>1. \A k \in 1..Len(s) :
        /\ E(k) \in Object
        /\ E(k).id = s[k].id
        /\ E(k).age = s[k].age
        /\ E(k).ttl = s[k].ttl
        /\ E(k).life = IF Expires(s[k]) THEN "lost" ELSE s[k].life
  <2> SUFFICES ASSUME NEW k \in 1..Len(s)
               PROVE  /\ E(k) \in Object
                      /\ E(k).id = s[k].id
                      /\ E(k).age = s[k].age
                      /\ E(k).ttl = s[k].ttl
                      /\ E(k).life = IF Expires(s[k]) THEN "lost" ELSE s[k].life
    OBVIOUS
  <2>1. s[k] \in Object
    OBVIOUS
  <2> QED BY <2>1 DEF Object, Lifecycles
<1>2. Expired(s) = [k \in 1..Len(s) |-> E(k)]
  BY DEF Expired
<1> HIDE DEF E
<1>3. Expired(s) \in Seq(Object) /\ Len(Expired(s)) = Len(s)
  BY <1>1, <1>2
<1> QED BY <1>1, <1>2, <1>3

LEMMA ExpiryKeeps ==
  ASSUME WorldInv, TickTtl
  PROVE  WorldInv'
<1>1. objects' = Expired(objects) /\ UNCHANGED <<robot, view, replaced, silence>>
  BY DEF TickTtl
<1>2. /\ objects' \in Seq(Object) /\ Len(objects') = Len(objects)
      /\ \A k \in 1..Len(objects) : /\ objects'[k].id = objects[k].id
                                   /\ objects'[k].age = objects[k].age
  BY <1>1, ExpiredFacts DEF WorldInv, WorldTypeOK
<1>3. NotifyStateChanged
  BY DEF TickTtl, NotifyStateChanged, WorldInv, SubscribersAreCurrent
<1>4. WorldTypeOK' /\ SubscribersAreCurrent' /\ StaleOnlyAfterRefresh' /\ OldIsReplaced'
  BY <1>1, <1>2, <1>3, AnnouncedChange DEF WorldInv, WorldTypeOK
<1>5. AgeIsSilence'
  BY <1>1, <1>2, SameIdsSameUnique DEF WorldInv, WorldTypeOK, AgeIsSilence
<1> QED BY <1>4, <1>5 DEF WorldInv

LEMMA TimeKeeps ==
  ASSUME WorldInv, TimePasses
  PROVE  WorldInv'
<1> DEFINE A(k) == [objects[k] EXCEPT !.age = Older(@)]
<1>1. objects \in Seq(Object) /\ silence \in [Ids -> 0 .. MaxAge]
  BY DEF WorldInv, WorldTypeOK
<1>2. \A k \in 1..Len(objects) : /\ A(k) \in Object
                               /\ A(k).id = objects[k].id
                               /\ A(k).life = objects[k].life
                               /\ A(k).age = Older(objects[k].age)
  <2> SUFFICES ASSUME NEW k \in 1..Len(objects)
               PROVE  /\ A(k) \in Object
                      /\ A(k).id = objects[k].id
                      /\ A(k).life = objects[k].life
                      /\ A(k).age = Older(objects[k].age)
    OBVIOUS
  <2>1. objects[k] \in Object
    BY <1>1
  <2>2. Older(objects[k].age) \in 0 .. MaxAge
    BY <2>1, WorldAssumption DEF Older, Object
  <2> QED BY <2>1, <2>2 DEF Object
<1>3. objects' = [k \in 1..Len(objects) |-> A(k)]
  BY <1>1 DEF TimePasses
<1> HIDE DEF A
<1>4. /\ objects' \in Seq(Object) /\ Len(objects') = Len(objects)
      /\ \A k \in 1..Len(objects) : objects'[k] = A(k)
  BY <1>1, <1>2, <1>3
<1>5. silence' = [id \in Ids |-> Older(silence[id])] /\ UNCHANGED <<robot, notified, view, replaced>>
  BY DEF TimePasses
<1>6. Content(objects', robot') = Content(objects, robot)
  <2>1. Looks(objects') = Looks(objects)
    BY <1>1, <1>2, <1>4 DEF Looks
  <2> QED BY <2>1, <1>5 DEF Content
<1>7. WorldTypeOK'
  <2>1. \A id \in Ids : Older(silence[id]) \in 0 .. MaxAge
    BY <1>1, WorldAssumption DEF Older
  <2> QED BY <2>1, <1>4, <1>5 DEF WorldInv, WorldTypeOK
<1>8. SubscribersAreCurrent' /\ StaleOnlyAfterRefresh' /\ OldIsReplaced'
  BY <1>5, <1>6 DEF WorldInv, SubscribersAreCurrent, StaleOnlyAfterRefresh, OldIsReplaced, Sees
<1>9. AgeIsSilence'
  <2> SUFFICES ASSUME NEW i \in Ids, Unique(i)', NEW k \in 1..Len(objects'),
                      objects'[k].id = i
               PROVE  objects'[k].age = silence'[i]
    BY DEF AgeIsSilence
  <2>1. Unique(i) /\ objects[k].id = i /\ k \in 1..Len(objects)
    BY <1>1, <1>2, <1>4, SameIdsSameUnique
  <2>2. objects[k].age = silence[i]
    BY <2>1 DEF WorldInv, AgeIsSilence
  <2> QED BY <2>1, <2>2, <1>2, <1>4, <1>5
<1> QED BY <1>7, <1>8, <1>9 DEF WorldInv

LEMMA ReaderKeeps ==
  ASSUME WorldInv, NEW r \in Readers, GetWorldState(r) \/ Forget(r)
  PROVE  WorldInv'
<1>1. UNCHANGED <<objects, robot, notified, silence>>
  BY DEF GetWorldState, Forget
<1>2. [holds |-> "current"] \in Views /\ [holds |-> "nothing"] \in Views
  BY DEF Views
<1>3. WorldTypeOK'
  BY <1>1, <1>2 DEF GetWorldState, Forget, Query, WorldInv, WorldTypeOK
<1>4. StaleOnlyAfterRefresh' /\ OldIsReplaced'
  BY <1>1 DEF GetWorldState, Forget, Query, WorldInv, WorldTypeOK, StaleOnlyAfterRefresh,
              OldIsReplaced, Sees
<1>5. SubscribersAreCurrent' /\ AgeIsSilence'
  BY <1>1 DEF WorldInv, SubscribersAreCurrent, AgeIsSilence, Unique
<1> QED BY <1>3, <1>4, <1>5 DEF WorldInv

LEMMA StepKeeps == WorldInv /\ [Next]_vars => WorldInv'
<1> SUFFICES ASSUME WorldInv, [Next]_vars PROVE WorldInv'
  OBVIOUS
<1>1. CASE HandleUpdate
  BY <1>1, AddedKeeps, UpdatedKeeps, RemovedKeeps, RefreshedKeeps, Zenon DEF HandleUpdate
<1>2. CASE \E rob \in Robots : UpdateRobotState(rob)
  BY <1>2, RobotKeeps
<1>3. CASE TickTtl
  BY <1>3, ExpiryKeeps
<1>4. CASE TimePasses
  BY <1>4, TimeKeeps
<1>5. CASE \E r \in Readers : GetWorldState(r) \/ Forget(r)
  BY <1>5, ReaderKeeps
<1>6. CASE UNCHANGED vars
  BY <1>6 DEF vars, WorldInv, WorldTypeOK, SubscribersAreCurrent, StaleOnlyAfterRefresh,
              AgeIsSilence, Unique, OldIsReplaced, Sees
<1> QED BY <1>1, <1>2, <1>3, <1>4, <1>5, <1>6, Zenon DEF Next

-----------------------------------------------------------------------------
\* The world model keeps its types, tells its subscribers every change, and a
\* skill is behind the state only after a refresh replaced what it holds.
THEOREM WorldInvariant == Spec => []WorldStateOK
<1>1. WorldInv => WorldStateOK
  BY DEF WorldInv, WorldStateOK
<1> QED BY InitHolds, StepKeeps, <1>1, PTL DEF Spec

\* The timer gives up an id only after a silence longer than its ttl
\* (tick_ttl), for any interleaving with requests, while the id has one entry.
THEOREM ExpiryEarned == Spec => ExpiryIsEarned
<1> DEFINE Earned ==
      \A id \in Ids :
        /\ Known(id) /\ Unique(id) /\ Found(id).life # "lost"
        /\ Known(id)' /\ Found(id)'.life = "lost"
        => silence[id] > Found(id).ttl \/ ~ TickTtl
<1>1. WorldInv /\ [Next]_vars => [Earned]_vars
  <2> SUFFICES ASSUME WorldInv, TickTtl, NEW id \in Ids, Known(id), Unique(id),
                      Found(id).life # "lost", Known(id)', Found(id)'.life = "lost"
               PROVE  silence[id] > Found(id).ttl
    BY Zenon
  <2> DEFINE f == FirstIndex(id)
  <2>1. objects \in Seq(Object) /\ objects' = Expired(objects)
    BY DEF WorldInv, WorldTypeOK, TickTtl
  <2>2. f \in 1..Len(objects) /\ objects[f].id = id /\ objects[f] \in Object
    BY <2>1, FoundFacts DEF Found
  <2>3. /\ objects' \in Seq(Object) /\ Len(objects') = Len(objects)
        /\ \A k \in 1..Len(objects) :
             /\ objects'[k].id = objects[k].id
             /\ objects'[k].life = IF Expires(objects[k]) THEN "lost" ELSE objects[k].life
    BY <2>1, ExpiredFacts
  <2>4. FirstIndex(id)' \in 1..Len(objects) /\ objects'[FirstIndex(id)'].id = id
    BY <2>3, FoundFactsNext DEF Found
  <2>5. FirstIndex(id)' = f
    BY <2>1, <2>2, <2>3, <2>4 DEF Unique
  <2>6. Expires(objects[f])
    BY <2>2, <2>3, <2>5 DEF Found
  <2>7. objects[f].age = silence[id]
    BY <2>2 DEF WorldInv, AgeIsSilence
  <2> QED BY <2>6, <2>7 DEF Expires, Found
<1> QED BY InitHolds, StepKeeps, <1>1, PTL DEF Spec, ExpiryIsEarned

\* A step that keeps the entries up to the one a query finds keeps it found.
LEMMA StaysFirst ==
  ASSUME objects \in Seq(Object), objects' \in Seq(Object), NEW id \in Ids, Known(id),
         Len(objects') >= Len(objects),
         \A k \in 1..Len(objects) : objects'[k].id = objects[k].id
  PROVE  Known(id)' /\ FirstIndex(id)' = FirstIndex(id)
<1> DEFINE f == FirstIndex(id)
           g == FirstIndex(id)'
<1>1. f \in 1..Len(objects) /\ objects[f].id = id
  BY FoundFacts DEF Found
<1>2. Known(id)' /\ f \in 1..Len(objects') /\ objects'[f].id = id
  BY <1>1 DEF Known
<1>3. g \in 1..Len(objects') /\ objects'[g].id = id
  BY <1>2, FoundFactsNext DEF Found
<1>4. g <= f
  BY <1>2, FirstEntryLeast, Zenon DEF FirstIndex, Known
<1>5. f <= g
  <2>1. g \in 1..Len(objects) /\ objects[g].id = id
    BY <1>1, <1>3, <1>4
  <2> QED BY <2>1, FirstEntryLeast, Zenon DEF FirstIndex, Known
<1> QED BY <1>1, <1>2, <1>3, <1>4, <1>5

\* A removed id stays removed for every query: neither reports that name no
\* life cycle nor another entry under the id revive it.
THEOREM RemovalFinal == Spec => RemovalIsFinal
<1> DEFINE Final == \A id \in Ids :
             Known(id) /\ Found(id).life = "removed"
             => (Known(id)' /\ Found(id)'.life = "removed") \/ ~ MereReport
<1>1. WorldInv /\ [Next]_vars => [Final]_vars
  <2> SUFFICES ASSUME WorldInv, [Next]_vars, NEW id \in Ids, Known(id),
                      Found(id).life = "removed", MereReport
               PROVE  Known(id)' /\ Found(id)'.life = "removed"
    BY Zenon
  <2> DEFINE f == FirstIndex(id)
  <2>1. objects \in Seq(Object) /\ objects' \in Seq(Object)
    BY StepKeeps DEF WorldInv, WorldTypeOK
  <2>2. f \in 1..Len(objects) /\ objects[f].life = "removed"
    BY <2>1, FoundFacts DEF Found
  <2> SUFFICES Len(objects') >= Len(objects)
               /\ (\A k \in 1..Len(objects) : objects'[k].id = objects[k].id)
               /\ objects'[f].life = "removed"
    BY <2>1, <2>2, StaysFirst DEF Found
  <2>3. CASE \E n \in Ids, ttl \in Ttls : ObjectAdded(n, ttl)
    BY <2>1, <2>2, <2>3 DEF ObjectAdded
  <2>4. ASSUME NEW n \in Ids, NEW p \in Payloads, p.life = NotGiven, p.id \in {n, NotGiven},
               ObjectUpdated(n, p)
        PROVE  Len(objects') >= Len(objects)
               /\ (\A k \in 1..Len(objects) : objects'[k].id = objects[k].id)
               /\ objects'[f].life = "removed"
    <3> DEFINE g == FirstIndex(n)
               new == Merged(objects[g], p)
    <3>1. g \in 1..Len(objects) /\ objects[g] \in Object /\ objects[g].id = n
      BY <2>1, <2>4, FoundFacts DEF ObjectUpdated, Found
    <3>2. new.id = objects[g].id /\ (objects[g].life = "removed" => new.life = "removed")
      BY <2>4, <3>1 DEF Merged
    <3>3. objects' = [objects EXCEPT ![g] = new]
      BY <2>4 DEF ObjectUpdated
    <3> HIDE DEF g, new
    <3> QED BY <2>1, <2>2, <3>1, <3>2, <3>3
  <2>5. ASSUME NEW n \in Ids, ObjectRemoved(n)
        PROVE  Len(objects') >= Len(objects)
               /\ (\A k \in 1..Len(objects) : objects'[k].id = objects[k].id)
               /\ objects'[f].life = "removed"
    <3> DEFINE g == FirstIndex(n)
               new == [objects[g] EXCEPT !.life = "removed"]
    <3>1. g \in 1..Len(objects) /\ objects[g] \in Object
      BY <2>1, <2>5, FoundFacts DEF ObjectRemoved, Found
    <3>2. new.id = objects[g].id /\ new.life = "removed"
      BY <3>1 DEF Object
    <3>3. objects' = [objects EXCEPT ![g] = new]
      BY <2>5 DEF ObjectRemoved
    <3> HIDE DEF g, new
    <3> QED BY <2>1, <2>2, <3>1, <3>2, <3>3
  <2>6. CASE TickTtl
    BY <2>1, <2>2, <2>6, ExpiredFacts DEF TickTtl, Expires
  <2> QED BY <2>3, <2>4, <2>5, <2>6, Zenon DEF MereReport
<1> QED BY InitHolds, StepKeeps, <1>1, PTL DEF Spec, RemovalIsFinal

=============================================================================
