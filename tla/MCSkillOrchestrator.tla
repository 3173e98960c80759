------------------------ MODULE MCSkillOrchestrator ------------------------
(***************************************************************************)
(* Instances of the orchestrator.  Two resources are enough for the three  *)
(* relations between skills: reach and place compete for the arm, look     *)
(* shares the camera with another look and keeps a place out of it.        *)
(***************************************************************************)
EXTENDS SkillOrchestrator, TLC

RequiredByName ==
  [s \in {"reach", "look", "place"} |-> IF s = "look" THEN {"camera"} ELSE {}]

ExclusiveByName ==
  [s \in {"reach", "look", "place"} |->
     CASE s = "reach" -> {"arm"}
       [] s = "place" -> {"arm", "camera"}
       [] OTHER -> {}]

MCRequired == [s \in Skills |-> RequiredByName[s]]
MCExclusive == [s \in Skills |-> ExclusiveByName[s]]

\* Used by the runs that treat every call id alike.
Symmetry == Permutations(Invocations) \cup Permutations(Holders)

=============================================================================
