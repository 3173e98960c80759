------------------------- MODULE MCSafetySupervisor -------------------------
(***************************************************************************)
(* SafetySupervisor on small instances: a default workspace, a narrower    *)
(* one and a name that is not configured; steps that fit and steps that    *)
(* have to be clamped, in both directions.                                 *)
(***************************************************************************)
EXTENDS SafetySupervisor, FiniteSets

MCDefault == [min |-> -3, max |-> 3]

MCWorkspaces == [tabletop |-> [min |-> -1, max |-> 2], default |-> MCDefault]

RelativeActions == [confident : BOOLEAN, delta : (-3..3) \cup {NoPose}, target : {NoPose}]

MCPoses == {NoPose, 0, 2}

\* Pairs of events are what the order of the guard's loop can tell apart.
SmallBatches == {batch \in SUBSET Events : Cardinality(batch) <= 2}
=============================================================================
