------------------------------ MODULE MCRecovery ------------------------------
(***************************************************************************)
(* Two recovery nodes, the outer with one retry and the inner with two,    *)
(* over each kind of skill; any code of the table, and two codes the nodes *)
(* use that are not in it.  Templates of up to four nodes over two known   *)
(* skills, which may name a skill twice, and one with a skill nobody       *)
(* registered.  Plans of four nodes with each set of up to two             *)
(* dependencies; of three with each list of up to two, repeated ones too;  *)
(* and of two that may share an id, lack a skill, and depend on a third.   *)
(***************************************************************************)
EXTENDS Recovery

CONSTANTS reach, grasp, fold

MCMaxRetries == <<1, 2>>
MCFaults == DOMAIN Specs \cup {"CTL_ARM_BUSY", "VLA_TIMEOUT"}

Lists(S) == {<<>>} \cup {<<x>> : x \in S} \cup (S \X S)

MCNodes ==
  [skill : {reach, grasp}, deps : {<<>>, <<reach>>, <<grasp>>, <<grasp, reach>>, <<reach, reach>>}]
MCTemplates ==
  UNION {[1 .. n -> MCNodes] : n \in 0 .. 4} \cup {<<[skill |-> fold, deps |-> <<reach>>]>>}

Plans(n, skills, lists) ==
  {[i \in 1 .. n |-> [id |-> i, skill |-> s[i], deps |-> d[i]]] :
     s \in [1 .. n -> skills], d \in [1 .. n -> lists]}
MCGraphs ==
  Plans(4, {reach}, {Ascending(T) : T \in {U \in SUBSET (1 .. 4) : Cardinality(U) <= 2}})
    \cup Plans(3, {reach}, Lists(1 .. 3))
    \cup [1 .. 2 -> [id : 1 .. 2, skill : {reach, fold, ""}, deps : Lists(1 .. 3)]]

=============================================================================
