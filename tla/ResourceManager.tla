-------------------------- MODULE ResourceManager --------------------------
(***************************************************************************)
(* roboweave_runtime/resource_manager.py: the lock table of the runtime.   *)
(* A holder is a skill_call_id.  The two dictionaries of the class are the *)
(* two variables; a resource missing from a dictionary reads like one      *)
(* nobody holds, so both are total functions here.                         *)
(***************************************************************************)
CONSTANTS
  Holders,      \* skill_call_ids
  Resources,    \* resource names used by skill descriptors
  NoHolder      \* Python's None

ASSUME NoHolderAssumption == NoHolder \notin Holders

VARIABLES
  shared,       \* _shared: the holders sharing each resource
  exclusive     \* _exclusive: the exclusive holder of each resource

lockVars == <<shared, exclusive>>

-----------------------------------------------------------------------------
(* Checks *)

CanAcquireShared(r, h) == exclusive[r] \in {h, NoHolder}

\* Mutant: a reader does not keep a writer out.
CanAcquireExclusiveIgnoringReaders(r, h) == exclusive[r] \in {h, NoHolder}

CanAcquireExclusive(r, h) ==
  /\ exclusive[r] \in {h, NoHolder}
  /\ shared[r] \subseteq {h}

\* Every resource is checked before any of them is taken.
Grantable(h, S, X) ==
  /\ \A r \in X : CanAcquireExclusive(r, h)
  /\ \A r \in S : CanAcquireShared(r, h)

-----------------------------------------------------------------------------
(* Updates *)

\* Mutant: the last shared holder replaces the others.
GrantOverwriting(h, S, X) ==
  /\ exclusive' = [r \in Resources |-> IF r \in X THEN h ELSE exclusive[r]]
  /\ shared' = [r \in Resources |-> IF r \in S THEN {h} ELSE shared[r]]

Grant(h, S, X) ==
  /\ exclusive' = [r \in Resources |-> IF r \in X THEN h ELSE exclusive[r]]
  /\ shared' = [r \in Resources |-> IF r \in S THEN shared[r] \cup {h} ELSE shared[r]]

\* acquire(): the refused call returns False and leaves the table alone.
Acquire(h, S, X) == Grantable(h, S, X) /\ Grant(h, S, X)

\* Mutant: the sharing sets are emptied, whoever is in them.
ReleaseEveryReader(h) ==
  /\ exclusive' = [r \in Resources |-> IF exclusive[r] = h THEN NoHolder ELSE exclusive[r]]
  /\ shared' = [r \in Resources |-> {}]

\* release(): everything the holder has, in both modes.
Release(h) ==
  /\ exclusive' = [r \in Resources |-> IF exclusive[r] = h THEN NoHolder ELSE exclusive[r]]
  /\ shared' = [r \in Resources |-> shared[r] \ {h}]

-----------------------------------------------------------------------------

Init ==
  /\ shared = [r \in Resources |-> {}]
  /\ exclusive = [r \in Resources |-> NoHolder]

Next ==
  \E h \in Holders :
    \/ Release(h)
    \/ \E S, X \in SUBSET Resources : Acquire(h, S, X)

Spec == Init /\ [][Next]_lockVars

-----------------------------------------------------------------------------
(* Properties *)

\* Each dictionary maps a resource to what the annotations of
\* ResourceManager.__init__ declare.
TypeOK ==
  /\ shared \in [Resources -> SUBSET Holders]
  /\ exclusive \in [Resources -> Holders \cup {NoHolder}]

\* A resource held exclusively is shared by nobody else, whatever requests
\* and releases came before, re-entrant ones and upgrades included: acquire()
\* looks at both dictionaries before it writes to either.
ReadersExcludeWriter ==
  \A r \in Resources : exclusive[r] # NoHolder => shared[r] \subseteq {exclusive[r]}

\* The class is the abstract lock table: a request is granted whole or not at
\* all, never against another holder's grant, and no call ever changes what
\* another holder owns (acquire(), release()).
Owned(h) ==
  [shared    |-> {r \in Resources : h \in shared[r]},
   exclusive |-> {r \in Resources : exclusive[r] = h}]

Locks == INSTANCE LockTable WITH grant <- [h \in Holders |-> Owned(h)]

ImplementsLockTable == Locks!Spec

=============================================================================
