------------------------------ MODULE MCStation ------------------------------
(* An instance of Station for TLC.                                         *)
EXTENDS Station, TLC

\* Requests, names, bands and fields are like any other.
StationSymmetry ==
    Permutations(Requests) \union Permutations(Names) \union Permutations(Bands)
        \union Permutations(Fields)
=============================================================================
