------------------------------ MODULE MCVLASkill ------------------------------
(***************************************************************************)
(* VLASkill on a small instance: two calls of one skill that may overlap,  *)
(* one with a timeout only, one with a limit of steps too.                 *)
(***************************************************************************)
EXTENDS VLASkill, TLC

CONSTANTS folding, wiping

MCMaxSteps == folding :> 0 @@ wiping :> 2

MCTimeout == folding :> 1 @@ wiping :> 1
=============================================================================
