----------------------------- MODULE WorldModel -----------------------------
(***************************************************************************)
(* WorldModel (world_model.py): the one WorldState of the runtime, changed *)
(* in place by UpdateWorldState requests, by the robot state and by the    *)
(* timer that gives up objects nobody reports any more.  Queries hand out  *)
(* the state itself and not a copy, so a skill that awaits keeps seeing    *)
(* the changes, until a full refresh replaces the object it holds.         *)
(*                                                                         *)
(* Of an object only what the life cycle reads is kept: its id, its        *)
(* lifecycle_state, its ttl_sec and the time since last_seen, in periods   *)
(* of the expiry timer.  A request that cannot be parsed, names an unknown *)
(* type or an unknown object changes nothing and has no action.            *)
(***************************************************************************)
EXTENDS Naturals, Sequences

CONSTANTS
  Ids,          \* object ids
  Ttls,         \* values of ttl_sec
  Robots,       \* robot states
  UnknownRobot, \* RobotState(robot_id="")
  Payloads,     \* the fields an update may name
  Refreshes,    \* the object lists a full_refresh may carry
  Readers,      \* skill executions that hold a WorldState
  MaxObjects,   \* bound: length of the object list
  MaxAge,       \* bound: ages are counted up to here
  NotGiven      \* a field the payload does not name

VARIABLES
  objects,  \* _state.objects
  robot,    \* _state.robot
  notified, \* what on_state_changed was last given
  view,     \* the WorldState each reader holds
  replaced, \* history: a full refresh came after the reader took its state
  silence   \* history: time since a request last reported the id

vars == <<objects, robot, notified, view, replaced, silence>>

Lifecycles == {"active", "occluded", "lost", "removed", "held"}
Object == [id : Ids, life : Lifecycles, age : 0 .. MaxAge, ttl : Ttls]

ASSUME WorldAssumption ==
  /\ Ttls \subseteq Nat
  /\ MaxAge \in Nat
  /\ \A t \in Ttls : t < MaxAge
  /\ MaxObjects \in Nat
  /\ UnknownRobot \in Robots
  /\ Refreshes \subseteq Seq(Object)
  /\ NotGiven \notin Ids
  /\ Payloads \subseteq [id : Ids \cup {NotGiven}, life : Lifecycles \cup {NotGiven},
                          ttl : Ttls \cup {NotGiven}]

\* What a reader or a subscriber can tell apart in a WorldState.
Looks(objs) == [k \in DOMAIN objs |-> <<objs[k].id, objs[k].life>>]
Content(objs, rob) == [objects |-> Looks(objs), robot |-> rob]
Contents == [objects : Seq(Ids \X Lifecycles), robot : Robots]

\* A reader holds nothing, the current state itself, or a state that a
\* refresh has replaced and nobody changes any more.
Views == [holds : {"nothing", "current"}]
         \cup [holds : {"old"}, content : Contents]

Sees(r) == IF view[r].holds = "old" THEN view[r].content
                                    ELSE Content(objects, robot)

-----------------------------------------------------------------------------
(* Queries.                                                                *)

Known(id) == \E k \in DOMAIN objects : objects[k].id = id

\* query_object(): the first entry with this id.
FirstIndex(id) ==
  CHOOSE k \in DOMAIN objects :
    /\ objects[k].id = id
    /\ \A j \in DOMAIN objects : objects[j].id = id => k <= j

Found(id) == objects[FirstIndex(id)]

-----------------------------------------------------------------------------
Init ==
  /\ objects = <<>>
  /\ robot = UnknownRobot
  /\ notified = Content(<<>>, UnknownRobot)
  /\ view = [r \in Readers |-> [holds |-> "nothing"]]
  /\ replaced = [r \in Readers |-> FALSE]
  /\ silence = [id \in Ids |-> 0]

\* _notify_state_changed(), the end of every handler.
\* Slip: the callback runs before the handler's last assignment.
NotifyEarly == notified' = Content(objects, robot')

NotifyStateChanged == notified' = Content(objects', robot')

\* object_added: appended whether or not the id is there already; active and
\* just seen, whatever the payload says.
ObjectAdded(id, ttl) ==
  /\ Len(objects) < MaxObjects
  /\ objects' = Append(objects, [id |-> id, life |-> "active", age |-> 0, ttl |-> ttl])
  /\ silence' = [silence EXCEPT ![id] = 0]
  /\ UNCHANGED <<robot, view, replaced>>
  /\ NotifyStateChanged

\* object_updated: the fields of the payload, the id among them, then an
\* occluded or lost object becomes active, then last_seen.
\* Slips: a field the payload does not name is stored all the same; last_seen
\* is left alone; a removed object is reactivated like a lost one.
MergedBlindly(obj, p) ==
  [obj EXCEPT !.life = IF p.life \in {"occluded", "lost"} THEN "active" ELSE p.life,
              !.ttl = p.ttl, !.age = 0]

MergedUnseen(obj, p) ==
  LET given == IF p.life = NotGiven THEN obj.life ELSE p.life
  IN  [obj EXCEPT !.life = IF given \in {"occluded", "lost"} THEN "active" ELSE given]

MergedRevived(obj, p) ==
  LET given == IF p.life = NotGiven THEN obj.life ELSE p.life
  IN  [obj EXCEPT !.life = IF given \in {"occluded", "lost", "removed"} THEN "active" ELSE given,
                  !.age = 0]

Merged(obj, p) ==
  LET given == IF p.life = NotGiven THEN obj.life ELSE p.life
  IN  [id |-> IF p.id = NotGiven THEN obj.id ELSE p.id,
       life |-> IF given \in {"occluded", "lost"} THEN "active" ELSE given,
       age |-> 0,
       ttl |-> IF p.ttl = NotGiven THEN obj.ttl ELSE p.ttl]

\* The update reports the id the entry has afterwards.  What a new name leaves
\* under the old id was last reported when that entry says, as after a refresh.
ObjectUpdated(id, p) ==
  /\ Known(id)
  /\ objects' = [objects EXCEPT ![FirstIndex(id)] = Merged(@, p)]
  /\ silence' = [i \in Ids |->
                   IF i = (IF p.id = NotGiven THEN id ELSE p.id) THEN 0
                   ELSE IF i = id /\ Known(id)' THEN Found(id)'.age
                   ELSE silence[i]]
  /\ UNCHANGED <<robot, view, replaced>>
  /\ NotifyStateChanged

\* object_removed: a life cycle like any other, the entry stays in the list.
ObjectRemoved(id) ==
  /\ Known(id)
  /\ objects' = [objects EXCEPT ![FirstIndex(id)].life = "removed"]
  /\ UNCHANGED <<robot, view, replaced, silence>>
  /\ NotifyStateChanged

\* full_refresh: a new WorldState takes the place of the old one, which stays
\* with whoever holds it.
Orphan(v) == IF v.holds = "current" THEN [holds |-> "old", content |-> Content(objects, robot)]
                                    ELSE v

FullRefresh(objs, rob) ==
  /\ objects' = objs
  /\ robot' = rob
  /\ view' = [r \in Readers |-> Orphan(view[r])]
  /\ replaced' = [r \in Readers |-> TRUE]
  /\ silence' = [id \in Ids |-> IF \E k \in DOMAIN objs : objs[k].id = id
                                  THEN Found(id)'.age ELSE MaxAge]
  /\ NotifyStateChanged

UpdateRobotState(rob) ==
  /\ robot' = rob
  /\ UNCHANGED <<objects, view, replaced, silence>>
  /\ NotifyStateChanged

-----------------------------------------------------------------------------
(* Expiry.                                                                 *)

Expires(obj) == obj.life = "active" /\ obj.age > obj.ttl

\* Slip: the loop ends at the first held object instead of skipping it.
ExpiredUpToHeld(objs) ==
  [k \in DOMAIN objs |->
     IF Expires(objs[k]) /\ \A j \in DOMAIN objs : j < k => objs[j].life # "held"
       THEN [objs[k] EXCEPT !.life = "lost"] ELSE objs[k]]

\* tick_ttl(): held objects are skipped, every other active one is judged.
Expired(objs) ==
  [k \in DOMAIN objs |-> IF Expires(objs[k]) THEN [objs[k] EXCEPT !.life = "lost"]
                                             ELSE objs[k]]

TickTtl ==
  /\ objects' = Expired(objects)
  /\ UNCHANGED <<robot, view, replaced, silence>>
  /\ IF objects' # objects THEN NotifyStateChanged ELSE UNCHANGED notified

\* The clock, external to the module.
Older(a) == IF a < MaxAge THEN a + 1 ELSE a

TimePasses ==
  /\ objects' = [k \in DOMAIN objects |-> [objects[k] EXCEPT !.age = Older(@)]]
  /\ silence' = [id \in Ids |-> Older(silence[id])]
  /\ UNCHANGED <<robot, notified, view, replaced>>

-----------------------------------------------------------------------------
(* Readers: execute_skill() takes the state before its first await.        *)

\* Slip: a copy of the state, as of the query.
QueryCopy == [holds |-> "old", content |-> Content(objects, robot)]

Query == [holds |-> "current"]

GetWorldState(r) ==
  /\ view[r].holds = "nothing"
  /\ view' = [view EXCEPT ![r] = Query]
  /\ replaced' = [replaced EXCEPT ![r] = FALSE]
  /\ UNCHANGED <<objects, robot, notified, silence>>

Forget(r) ==
  /\ view[r].holds # "nothing"
  /\ view' = [view EXCEPT ![r] = [holds |-> "nothing"]]
  /\ UNCHANGED <<objects, robot, notified, replaced, silence>>

HandleUpdate ==
  \/ \E id \in Ids, ttl \in Ttls : ObjectAdded(id, ttl)
  \/ \E id \in Ids, p \in Payloads : ObjectUpdated(id, p)
  \/ \E id \in Ids : ObjectRemoved(id)
  \/ \E objs \in Refreshes, rob \in Robots : FullRefresh(objs, rob)

Next ==
  \/ HandleUpdate
  \/ \E rob \in Robots : UpdateRobotState(rob)
  \/ TickTtl
  \/ TimePasses
  \/ \E r \in Readers : GetWorldState(r) \/ Forget(r)

Spec == Init /\ [][Next]_vars

\* The expiry timer of the node fires while it spins, and time passes.
FairSpec == Spec /\ WF_vars(TickTtl) /\ WF_vars(TimePasses)

-----------------------------------------------------------------------------
WorldTypeOK ==
  /\ objects \in Seq(Object)
  /\ robot \in Robots
  /\ notified \in Contents
  /\ view \in [Readers -> Views]
  /\ replaced \in [Readers -> BOOLEAN]
  /\ silence \in [Ids -> 0 .. MaxAge]

\* Every change a handler or the timer makes is announced: what subscribers
\* were last told is what the model holds (the callers of
\* _notify_state_changed).
SubscribersAreCurrent == notified = Content(objects, robot)

\* A skill sees every change made while it awaits, as long as no refresh
\* replaced the state it was given (get_world_state returns the state, not a
\* copy: skill_orchestrator.py:118).
StaleOnlyAfterRefresh ==
  \A r \in Readers :
    view[r].holds # "nothing" /\ ~ replaced[r] => Sees(r) = Content(objects, robot)

\* Everybody who looks at the world sees the same one: subscribers through their
\* last notification, skills through the state they hold across their awaits,
\* unless a refresh came between (_notify_state_changed, get_world_state).
WorldStateOK == WorldTypeOK /\ SubscribersAreCurrent /\ StaleOnlyAfterRefresh

Unique(id) == \A j, k \in DOMAIN objects :
                objects[j].id = id /\ objects[k].id = id => j = k

\* An object whose id is in the list once is given up by the timer only after
\* a silence longer than its ttl, however updates, refreshes and the timer
\* interleave.
ExpiryIsEarned ==
  [][ \A id \in Ids :
        /\ Known(id) /\ Unique(id) /\ Found(id).life # "lost"
        /\ Known(id)' /\ Found(id)'.life = "lost"
        => silence[id] > Found(id).ttl \/ ~ TickTtl ]_vars

\* A request that names no life cycle and gives no entry another id, or the timer.
MereReport ==
  \/ \E id \in Ids, ttl \in Ttls : ObjectAdded(id, ttl)
  \/ \E id \in Ids, p \in Payloads :
       p.life = NotGiven /\ p.id \in {id, NotGiven} /\ ObjectUpdated(id, p)
  \/ \E id \in Ids : ObjectRemoved(id)
  \/ TickTtl

\* Once removed, an id stays removed for every query: reports that name no life
\* cycle and give no entry another id do not revive it, and neither does adding
\* it again, because the removed entry comes first.
RemovalIsFinal ==
  [][ \A id \in Ids :
        Known(id) /\ Found(id).life = "removed"
        => (Known(id)' /\ Found(id)'.life = "removed") \/ ~ MereReport ]_vars

\* An active object that nobody reports any more is given up.
SilentObjectsAreGivenUp ==
  \A id \in Ids :
    Known(id) ~> (Known(id) => Found(id).life # "active" \/ silence[id] = 0)

=============================================================================
