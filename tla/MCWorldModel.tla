---------------------------- MODULE MCWorldModel ----------------------------
(***************************************************************************)
(* Two ids and lists of at most two entries: enough for one id listed      *)
(* twice next to a lone one.  The refreshes carry what other requests      *)
(* cannot produce: an object occluded or held from the start, one already  *)
(* past its ttl (last_seen defaults to 0), an id listed twice.             *)
(***************************************************************************)
EXTENDS WorldModel

CONSTANTS a, b

Entry(id, life, age) == [id |-> id, life |-> life, age |-> age, ttl |-> 1]

\* Every life cycle, the ttl, another id and the same one, one field at a time,
\* and a payload that names all three.
Nothing == [id |-> NotGiven, life |-> NotGiven, ttl |-> NotGiven]

MCPayloads ==
  { [Nothing EXCEPT !.life = life] : life \in Lifecycles \cup {NotGiven} }
  \cup { [Nothing EXCEPT !.id = id] : id \in Ids }
  \cup { [Nothing EXCEPT !.ttl = 1], [id |-> b, life |-> "active", ttl |-> 1] }

MCRefreshes ==
  { <<>>,
    <<Entry(a, "held", MaxAge), Entry(b, "active", MaxAge)>>,
    <<Entry(b, "occluded", 0), Entry(b, "active", 0)>> }

=============================================================================
