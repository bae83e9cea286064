----------------------------- MODULE MCUploads ------------------------------
(* An instance of Uploads for TLC.                                         *)
EXTENDS Uploads

CONSTANTS r1, r2, r3, alice, root

MCRole == [u \in Users |-> IF u = root THEN "root" ELSE "user"]
MCOwner == [r \in Recordings |-> IF r = r1 THEN alice ELSE root]
=============================================================================
