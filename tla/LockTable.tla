----------------------------- MODULE LockTable -----------------------------
(***************************************************************************)
(* What a shared/exclusive lock manager promises, with no word on how the  *)
(* locks are stored: every holder owns a set of shared and a set of        *)
(* exclusive resources, a request is granted whole or not at all, it is    *)
(* granted only when it conflicts with no other holder, and only a holder  *)
(* itself gives up what it owns.                                           *)
(***************************************************************************)
CONSTANTS Holders, Resources

VARIABLE grant      \* what each holder owns

NoGrant == [shared |-> {}, exclusive |-> {}]

Grants == [shared : SUBSET Resources, exclusive : SUBSET Resources]

\* Two grants conflict when one owns exclusively what the other owns at all.
Conflict(a, b) ==
  \/ a.exclusive \cap (b.exclusive \cup b.shared) # {}
  \/ b.exclusive \cap a.shared # {}

-----------------------------------------------------------------------------

Init == grant = [h \in Holders |-> NoGrant]

Acquire(h, request) ==
  /\ \A g \in Holders \ {h} : ~ Conflict(request, grant[g])
  /\ grant' = [grant EXCEPT ![h] =
                 [shared    |-> @.shared \cup request.shared,
                  exclusive |-> @.exclusive \cup request.exclusive]]

Release(h) == grant' = [grant EXCEPT ![h] = NoGrant]

Next == \E h \in Holders : Release(h) \/ \E request \in Grants : Acquire(h, request)

Spec == Init /\ [][Next]_grant

=============================================================================
