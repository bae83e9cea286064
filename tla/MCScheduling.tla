---------------------------- MODULE MCScheduling ----------------------------
(* Instances of Scheduling for TLC.                                        *)
EXTENDS Scheduling, TLC

CONSTANTS p1, p2, alice, root, h1, h2

\* With buffers of 1 the two passes are in the way of each other, although
\* their windows only touch.
MCAos == [p \in Passes |-> IF p = p1 THEN 2 ELSE 4]
MCLos == [p \in Passes |-> IF p = p1 THEN 4 ELSE 5]
MCRole == alice :> "user" @@ root :> "root"

HandlerSymmetry == Permutations({h1, h2})
=============================================================================
