----------------------------- MODULE Scheduling -----------------------------
(***************************************************************************)
(* The server's scheduling service (server/go/internal/scheduling) over    *)
(* the passes and pass_plans tables (server/go/internal/store).            *)
(*                                                                         *)
(* Every HTTP request runs in a handler of its own.  A handler is a few    *)
(* statements long and any other handler may run between two of them: it   *)
(* reads and validates, then generates a plan, then stores it, then        *)
(* updates the row under a condition.  Each of these is an action here.    *)
(* The worker is reduced to what it does to these tables: it fetches the   *)
(* desired state and reports outcomes of passes it was given.              *)
(***************************************************************************)
EXTENDS Integers

CONSTANTS
    Passes,            \* row ids; a row is created by at most one request
    Users, Role,       \* Role \in [Users -> {"user", "admin", "root"}]
    Handlers,          \* requests the server serves at the same time
    Aos, Los,          \* [Passes -> Int], the predicted window of each pass
    PrePassBuffer, PostPassBuffer, MinimumLeadTime,  \* scheduling config
    NoUser, NoPass,
    MaxTime,           \* bound of the clock
    MaxEdits           \* bound of station edits that change plan content

ASSUME WindowAssumption ==
    /\ Aos \in [Passes -> Int]
    /\ Los \in [Passes -> Int]
    /\ \A p \in Passes : Aos[p] < Los[p]        \* passes_los_after_aos
    /\ PrePassBuffer \in Nat
    /\ PostPassBuffer \in Nat
    /\ MinimumLeadTime \in Nat

ASSUME UserAssumption ==
    /\ Role \in [Users -> {"user", "admin", "root"}]
    /\ NoUser \notin Users
    /\ NoPass \notin Passes

ASSUME BoundAssumption == MaxTime \in Nat /\ MaxEdits \in Nat

VARIABLES
    status,        \* passes.status, "none" before the row exists
    owner,         \* passes.requested_by
    reason,        \* passes.cancellation_reason, "none" for NULL
    plan,          \* pass_plans.generation, NoPlan without a row
    content,       \* version of the station data a plan is built from
    workerOnline,  \* workers.connection_state = 'online'
    given,         \* passes the worker has ever been sent a plan for
    now,
    handler        \* the request each handler is serving, and where it is

tables == <<status, owner, reason, plan>>
vars == <<status, owner, reason, plan, content, workerOnline, given, now,
          handler>>

-----------------------------------------------------------------------------
(* The state machine of statemachine.go.                                   *)

Statuses == {"pending_approval", "approved", "rejected", "cancelled",
             "executing", "completed", "failed", "missed"}

allowedTransitions ==
    {<<"pending_approval", "approved">>, <<"pending_approval", "rejected">>,
     <<"pending_approval", "cancelled">>, <<"approved", "cancelled">>,
     <<"approved", "executing">>, <<"approved", "missed">>,
     <<"executing", "completed">>, <<"executing", "failed">>}

liveStatuses == {"pending_approval", "approved", "executing"}

IsTerminal(s) == s \in Statuses /\ \A t \in Statuses : <<s, t>> \notin allowedTransitions

ValidateTransition(from, to) == <<from, to>> \in allowedTransitions

CancellationReasons ==
    {"cancelled_by_owner", "cancelled_by_admin", "cancelled_by_root_override"}

-----------------------------------------------------------------------------
(* The rules of rules.go and rbac.go.                                      *)

ReservationFor(p) ==
    [from |-> Aos[p] - PrePassBuffer, to |-> Los[p] + PostPassBuffer]

Reservation == [p \in Passes |-> ReservationFor(p)]

Overlaps(p, q) ==
    /\ Reservation[p].from < Reservation[q].to
    /\ Reservation[q].from < Reservation[p].to

CheckLeadTime(p) == Aos[p] >= now + MinimumLeadTime

CanApprovePasses(u) == Role[u] \in {"admin", "root"}

CanCancelPass(u, p) == owner[p] = u \/ Role[u] \in {"admin", "root"}

CancellationReasonFor(u, p) ==
    IF owner[p] = u THEN "cancelled_by_owner" ELSE "cancelled_by_admin"

-----------------------------------------------------------------------------
(* The conditions the statements of store/passes.go carry.                 *)

HoldsStation(p) == status[p] \in liveStatuses

\* Conflicting of an exclusion constraint that forgets pending requests.
ApprovedInTheWay(p) ==
    {q \in Passes : status[q] \in {"approved", "executing"} /\ Overlaps(p, q)}

\* FindConflictingPasses, and what the exclusion constraint looks at.
Conflicting(p) == {q \in Passes : HoldsStation(q) /\ Overlaps(p, q)}

\* StillPending of an UPDATE that looks for the row and not for its status.
RowExists(p) == status[p] # "none"

\* WHERE status = 'pending_approval' of ApprovePass and RejectPass.
StillPending(p) == status[p] = "pending_approval"

\* WHERE status IN ('pending_approval', 'approved') of CancelPass.
StillCancellable(p) == status[p] \in {"pending_approval", "approved"}

\* WHERE status IN ('approved', 'executing') of SetPassOutcome.
StillUnreported(p) == status[p] \in {"approved", "executing"}

NoPlan == -1

\* ListPassPlansForStation: what SyncPassPlans and Heartbeat answer with.
Desired ==
    {p \in Passes : plan[p] # NoPlan /\ status[p] = "approved" /\ Los[p] >= now}

-----------------------------------------------------------------------------
(* Handlers.                                                               *)

Idle == [op |-> "idle", at |-> "idle", pass |-> NoPass, actor |-> NoUser,
         gen |-> NoPlan]

Serving(h, op, at) == handler[h].op = op /\ handler[h].at = at

\* A Begin that loses the actor on the way.
BeginAnonymous(h, op, at, u, p) ==
    /\ handler[h] = Idle
    /\ handler' = [handler EXCEPT ![h] =
                     [op |-> op, at |-> at, pass |-> p, actor |-> NoUser,
                      gen |-> NoPlan]]

Begin(h, op, at, u, p) ==
    /\ handler[h] = Idle
    /\ handler' = [handler EXCEPT ![h] =
                     [op |-> op, at |-> at, pass |-> p, actor |-> u,
                      gen |-> NoPlan]]

Goto(h, at) == handler' = [handler EXCEPT ![h].at = at]

Done(h) == handler' = [handler EXCEPT ![h] = Idle]

\* The id of a new row is fresh: no row has it and no insert in flight uses it.
FreshRow(p) == status[p] = "none" /\ \A h \in Handlers : handler[h].pass # p

Init ==
    /\ status = [p \in Passes |-> "none"]
    /\ owner = [p \in Passes |-> NoUser]
    /\ reason = [p \in Passes |-> "none"]
    /\ plan = [p \in Passes |-> NoPlan]
    /\ content = 0
    /\ workerOnline = FALSE
    /\ given = {}
    /\ now = 0
    /\ handler = [h \in Handlers |-> Idle]

\* Everything RequestPass reads and checks before its INSERT.
BeginRequest(h, u, p) ==
    /\ FreshRow(p)
    /\ workerOnline
    /\ CheckLeadTime(p)
    /\ Begin(h, "request", "commit", u, p)
    /\ UNCHANGED <<tables, content, workerOnline, given, now>>

\* CreatePass: the exclusion constraint decides, and the loser is told of the
\* conflict.
CommitRequest(h) ==
    LET p == handler[h].pass
    IN  /\ Serving(h, "request", "commit")
        /\ Done(h)
        /\ \/ /\ Conflicting(p) = {}
              /\ status' = [status EXCEPT ![p] = "pending_approval"]
              /\ owner' = [owner EXCEPT ![p] = handler[h].actor]
              /\ UNCHANGED <<reason, plan>>
           \/ /\ Conflicting(p) # {}
              /\ UNCHANGED tables
        /\ UNCHANGED <<content, workerOnline, given, now>>

BeginOverride(h, u, p) ==
    /\ Role[u] = "root"
    /\ FreshRow(p)
    /\ workerOnline
    /\ CheckLeadTime(p)
    /\ Begin(h, "override", "commit", u, p)
    /\ UNCHANGED <<tables, content, workerOnline, given, now>>

\* A transaction that cancels what the override found and stops there.
EvictOnly(h) ==
    LET p == handler[h].pass
        victims == Conflicting(p)
    IN  /\ Serving(h, "override", "commit")
        /\ victims # {}
        /\ status' = [q \in Passes |->
                        IF q \in victims THEN "cancelled" ELSE status[q]]
        /\ reason' = [q \in Passes |->
                        IF q \in victims THEN "cancelled_by_root_override"
                        ELSE reason[q]]
        /\ Done(h)
        /\ UNCHANGED <<owner, plan, content, workerOnline, given, now>>

\* The transaction of RequestPassWithRootOverride: cancel every pass in the way,
\* create the new one, approve it.  A victim that can no longer be cancelled
\* rolls the whole of it back.  The plan is generated after the commit.
CommitOverride(h) ==
    LET p == handler[h].pass
        victims == Conflicting(p)
    IN  /\ Serving(h, "override", "commit")
        /\ \A q \in victims : StillCancellable(q)
        /\ status' = [q \in Passes |->
                        IF q = p THEN "approved"
                        ELSE IF q \in victims THEN "cancelled" ELSE status[q]]
        /\ reason' = [q \in Passes |->
                        IF q \in victims THEN "cancelled_by_root_override"
                        ELSE reason[q]]
        /\ owner' = [owner EXCEPT ![p] = handler[h].actor]
        /\ Goto(h, "generate")
        /\ UNCHANGED <<plan, content, workerOnline, given, now>>

\* A BeginApprove that approves first and leaves the plan for later.
ApproveUnplanned(h, u, p) ==
    /\ CanApprovePasses(u)
    /\ ValidateTransition(status[p], "approved")
    /\ Begin(h, "approve", "commit", u, p)
    /\ UNCHANGED <<tables, content, workerOnline, given, now>>

\* decide, up to and including ValidateTransition.
BeginApprove(h, u, p) ==
    /\ CanApprovePasses(u)
    /\ ValidateTransition(status[p], "approved")
    /\ Begin(h, "approve", "generate", u, p)
    /\ UNCHANGED <<tables, content, workerOnline, given, now>>

BeginReject(h, u, p) ==
    /\ CanApprovePasses(u)
    /\ ValidateTransition(status[p], "rejected")
    /\ Begin(h, "reject", "commit", u, p)
    /\ UNCHANGED <<tables, content, workerOnline, given, now>>

BeginCancel(h, u, p) ==
    /\ CanCancelPass(u, p)
    /\ ValidateTransition(status[p], "cancelled")
    /\ Begin(h, "cancel", "commit", u, p)
    /\ UNCHANGED <<tables, content, workerOnline, given, now>>

\* Generate: the plan is computed from what the tables hold now.
GeneratePlan(h) ==
    /\ handler[h].at = "generate"
    /\ handler' = [handler EXCEPT ![h].at = "store", ![h].gen = content]
    /\ UNCHANGED <<tables, content, workerOnline, given, now>>

\* UpsertPassPlan: the last writer wins, whatever the row held before.
StorePlan(h) ==
    /\ handler[h].at = "store"
    /\ plan' = [plan EXCEPT ![handler[h].pass] = handler[h].gen]
    /\ IF handler[h].op = "approve" THEN Goto(h, "commit") ELSE Done(h)
    /\ UNCHANGED <<status, owner, reason, content, workerOnline, given, now>>

\* ApprovePass and RejectPass: no row matches once the pass was decided
\* elsewhere, and the handler answers ErrNotFound.
CommitDecision(h, op, target) ==
    LET p == handler[h].pass
    IN  /\ Serving(h, op, "commit")
        /\ Done(h)
        /\ status' = [status EXCEPT ![p] = IF StillPending(p) THEN target ELSE @]
        /\ UNCHANGED <<owner, reason, plan, content, workerOnline, given, now>>

CommitCancel(h) ==
    LET p == handler[h].pass
    IN  /\ Serving(h, "cancel", "commit")
        /\ Done(h)
        /\ IF StillCancellable(p)
           THEN /\ status' = [status EXCEPT ![p] = "cancelled"]
                /\ reason' = [reason EXCEPT ![p] =
                                CancellationReasonFor(handler[h].actor, p)]
           ELSE UNCHANGED <<status, reason>>
        /\ UNCHANGED <<owner, plan, content, workerOnline, given, now>>

\* A statement fails, the client goes away, a transaction rolls back: the
\* handler returns an error and nothing it already wrote is undone.
Fail(h) ==
    /\ handler[h] # Idle
    /\ Done(h)
    /\ UNCHANGED <<tables, content, workerOnline, given, now>>

-----------------------------------------------------------------------------
(* The rest of the world.                                                  *)

\* SyncPassPlans sends the desired state to the worker.
SyncPassPlans ==
    /\ given' = given \cup Desired
    /\ UNCHANGED <<tables, content, workerOnline, now, handler>>

\* ReportExecutions, one record: passStatusFor knows three outcomes.
Outcomes == {"completed", "failed", "missed"}

SetPassOutcome(p, outcome) ==
    /\ status' = [status EXCEPT ![p] = IF StillUnreported(p) THEN outcome ELSE @]
    /\ UNCHANGED <<owner, reason, plan, content, workerOnline, now, handler>>

ReportExecutions(p) ==
    /\ p \in given
    /\ \E outcome \in Outcomes : SetPassOutcome(p, outcome)
    /\ UNCHANGED given

\* A root edits the station, its bands or its hardware.
EditStation ==
    /\ content < MaxEdits
    /\ content' = content + 1
    /\ UNCHANGED <<tables, workerOnline, given, now, handler>>

\* Heartbeats arrive, or stop arriving (RecordHeartbeat, MarkStaleWorkersOffline).
SetWorkerOnline(b) ==
    /\ workerOnline # b
    /\ workerOnline' = b
    /\ UNCHANGED <<tables, content, given, now, handler>>

Tick ==
    /\ now < MaxTime
    /\ now' = now + 1
    /\ UNCHANGED <<tables, content, workerOnline, given, handler>>

Start(h, u, p) ==
    \/ BeginRequest(h, u, p)
    \/ BeginOverride(h, u, p)
    \/ BeginApprove(h, u, p)
    \/ BeginReject(h, u, p)
    \/ BeginCancel(h, u, p)

Continue(h) ==
    \/ CommitRequest(h)
    \/ CommitOverride(h)
    \/ GeneratePlan(h)
    \/ StorePlan(h)
    \/ CommitDecision(h, "approve", "approved")
    \/ CommitDecision(h, "reject", "rejected")
    \/ CommitCancel(h)
    \/ Fail(h)

Next ==
    \/ \E h \in Handlers, u \in Users, p \in Passes : Start(h, u, p)
    \/ \E h \in Handlers : Continue(h)
    \/ SyncPassPlans
    \/ \E p \in Passes : ReportExecutions(p)
    \/ EditStation
    \/ \E b \in BOOLEAN : SetWorkerOnline(b)
    \/ Tick

Spec == Init /\ [][Next]_vars

-----------------------------------------------------------------------------
(* Properties.                                                             *)

Ops == {"idle", "request", "override", "approve", "reject", "cancel"}
Points == {"idle", "commit", "generate", "store"}

HandlerType ==
    [op : Ops, at : Points, pass : Passes \cup {NoPass},
     actor : Users \cup {NoUser}, gen : Nat \cup {NoPlan}]

\* A handler that is not idle serves some user's request about some pass.
TypeOK ==
    /\ status \in [Passes -> Statuses \cup {"none"}]
    /\ owner \in [Passes -> Users \cup {NoUser}]
    /\ reason \in [Passes -> CancellationReasons \cup {"none"}]
    /\ plan \in [Passes -> Nat \cup {NoPlan}]
    /\ content \in Nat
    /\ workerOnline \in BOOLEAN
    /\ given \subseteq Passes
    /\ now \in Nat
    /\ handler \in [Handlers -> HandlerType]
    /\ \A h \in Handlers :
          handler[h].at # "idle" => /\ handler[h].pass \in Passes
                                    /\ handler[h].actor \in Users

\* The station is never reserved twice: concurrent requests and overrides leave
\* no two live passes whose reservations overlap (RequestPass and
\* RequestPassWithRootOverride against passes_no_station_overlap).
NoDoubleBooking ==
    \A p, q \in Passes :
        p # q /\ HoldsStation(p) /\ HoldsStation(q) => ~Overlaps(p, q)

\* A terminal status is final, and so is the reason that goes with it: a late
\* approval, cancellation, override or report from the worker does not rewrite
\* what a pass ended as (the conditional updates of store/passes.go).
TerminalIsFinal ==
    [][\A p \in Passes :
          IsTerminal(status[p]) => /\ status'[p] = status[p]
                                   /\ reason'[p] = reason[p]]_vars

\* Nobody loses a reservation to an override for nothing: a pass cancelled by a
\* root override overlaps a pass of a root that was approved, whatever became
\* of that one since (the transaction of RequestPassWithRootOverride).
OverrideExplained ==
    \A q \in Passes :
        reason[q] = "cancelled_by_root_override" =>
            \E p \in Passes \ {q} :
                /\ status[p] \notin {"none", "pending_approval", "rejected"}
                /\ Overlaps(p, q)
                /\ Role[owner[p]] = "root"

\* decide stores the plan first and approves second, so a pending pass never
\* becomes approved without a plan the worker can be sent.
PlanBeforeApproval ==
    [][\A p \in Passes :
          status[p] = "pending_approval" /\ status'[p] = "approved" =>
              plan[p] # NoPlan]_vars

\* The scheduler gives the station's time away the way StationBooking allows:
\* live passes hold reservations, terminal ones have released them.
Booking == INSTANCE StationBooking WITH
    holding <- {p \in Passes : HoldsStation(p)},
    released <- {p \in Passes : IsTerminal(status[p])}

BookingRefined == Booking!Spec
=============================================================================
