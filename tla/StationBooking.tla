--------------------------- MODULE StationBooking ---------------------------
(***************************************************************************)
(* What the scheduler promises about one station: its time is given to     *)
(* passes, never to two passes at once, and a pass that has given its time *)
(* up never takes any again.  Nothing is said here of approvals, plans,    *)
(* workers or reports: Scheduling is shown to implement this module.       *)
(***************************************************************************)
EXTENDS Integers

CONSTANTS
    Passes,       \* the passes that may ever be requested
    Reservation   \* [Passes -> [from, to]], half open: [from, to)

VARIABLES
    holding,      \* the passes the station's time is reserved for
    released      \* the passes that held a reservation and gave it up

vars == <<holding, released>>

\* Reservation.Overlaps of rules.go: two that only touch do not overlap.
Overlaps(p, q) ==
    /\ Reservation[p].from < Reservation[q].to
    /\ Reservation[q].from < Reservation[p].to

InTheWayOf(p) == {q \in holding : Overlaps(p, q)}

Init ==
    /\ holding = {}
    /\ released = {}

Fresh(p) == p \notin holding \cup released

\* The station is free for the whole reservation.
Reserve(p) ==
    /\ Fresh(p)
    /\ InTheWayOf(p) = {}
    /\ holding' = holding \cup {p}
    /\ UNCHANGED released

\* Whatever is in the way is evicted, in the same step and nothing more.
Evict(p) ==
    /\ Fresh(p)
    /\ holding' = (holding \ InTheWayOf(p)) \cup {p}
    /\ released' = released \cup InTheWayOf(p)

Release(p) ==
    /\ p \in holding
    /\ holding' = holding \ {p}
    /\ released' = released \cup {p}

Next == \E p \in Passes : Reserve(p) \/ Evict(p) \/ Release(p)

Spec == Init /\ [][Next]_vars

-----------------------------------------------------------------------------
TypeOK ==
    /\ holding \subseteq Passes
    /\ released \subseteq Passes
    /\ holding \cap released = {}

\* The station is promised to one pass at a time: no two passes that hold a
\* reservation overlap.
NoDoubleBooking ==
    \A p, q \in holding : p # q => ~Overlaps(p, q)
=============================================================================
