-------------------------- MODULE MCGroundStation ---------------------------
(* Instances of GroundStation for TLC.                                     *)
EXTENDS GroundStation, TLC

CONSTANTS p1, alice, root, h1, h2

MCAos == p1 :> 1
MCLos == p1 :> 2
MCRole == [u \in Users |-> IF u = root THEN "root" ELSE "user"]

HandlerSymmetry == Permutations({h1, h2})
=============================================================================
