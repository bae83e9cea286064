---------------------------- MODULE MCPlanStore -----------------------------
(* Instances of PlanStore for TLC.                                         *)
EXTENDS PlanStore, TLC

CONSTANTS p1, p2, g1, g2

\* p2 begins when p1 ends: with a post-roll the executor is still busy.
MCAos == [p \in Passes |-> IF p = p1 THEN 0 ELSE 1]
MCLos == [p \in Passes |-> IF p = p1 THEN 1 ELSE 2]
=============================================================================
