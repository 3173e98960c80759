--------------------------- MODULE MCTaskExecutor ---------------------------
(***************************************************************************)
(* Instances of the executor: plans of at most two nodes over two skills,  *)
(* place with the arm to itself and reach sharing it with another reach,   *)
(* and up to two dispatches, so that a plan can be replaced, or sent       *)
(* again, while its skills still run.                                      *)
(***************************************************************************)
EXTENDS TaskExecutor

MCInvocations == (1..MaxDispatches) \X (1..MaxNodes)
MCHolders == TaskIds \X (1..MaxNodes)

MCRequired == [s \in Skills |-> IF s = "reach" THEN {"arm"} ELSE {}]
MCExclusive == [s \in Skills |-> IF s = "place" THEN {"arm"} ELSE {}]

TwoStepPlan == [task |-> "t1", nodes |-> <<"place", "reach">>]
GuardedPlan == [task |-> "t2", nodes |-> <<Condition, "reach">>]
EmptyPlan == [task |-> "t3", nodes |-> <<>>]

ThreePlans == {TwoStepPlan, GuardedPlan, EmptyPlan}

=============================================================================
