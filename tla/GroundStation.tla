--------------------------- MODULE GroundStation ----------------------------
(***************************************************************************)
(* The server's scheduler and the station's worker together.  They share   *)
(* the clock and meet in three calls only: the heartbeat, the fetch of the *)
(* desired state, and the report of outcomes, which the server takes one   *)
(* record at a time.  Either side steps on its own otherwise.              *)
(***************************************************************************)
EXTENDS Integers, Sequences

CONSTANTS
    Passes, Users, Role, Handlers, Aos, Los,
    PrePassBuffer, PostPassBuffer, MinimumLeadTime,
    Lead, PostRoll,
    NoUser, NoPass, NoSet,
    MaxTime, MaxEdits, MaxCrashes

ASSUME StationWindowAssumption ==
    /\ Aos \in [Passes -> Int]
    /\ Los \in [Passes -> Int]
    /\ \A p \in Passes : Aos[p] < Los[p]
    /\ {PrePassBuffer, PostPassBuffer, MinimumLeadTime, Lead, PostRoll} \subseteq Nat

ASSUME StationUserAssumption ==
    /\ Role \in [Users -> {"user", "admin", "root"}]
    /\ NoUser \notin Users
    /\ NoPass \notin Passes

ASSUME StationBoundAssumption ==
    /\ {MaxTime, MaxEdits, MaxCrashes} \subseteq Nat
    /\ NoSet \notin [Passes -> 0 .. MaxEdits \cup {-1}]

VARIABLES
    status, owner, reason, plan, content, workerOnline, given, handler,
    state, generation, stored, history, synced, executor, syncer, delivered,
    crashes,
    now

server == <<status, owner, reason, plan, content, workerOnline, given, handler>>
worker == <<state, generation, stored, history, synced, executor, syncer,
            delivered, crashes>>
vars == <<server, worker, now>>

Server == INSTANCE Scheduling

\* A desired state that asks for a plan and not for an approval.
WantedWhenPlanned ==
    [p \in Passes |-> IF Server!IsTerminal(status[p]) THEN -2 ELSE plan[p]]

\* What the tables say of a pass, as the worker's desired state knows it.
Wanted ==
    [p \in Passes |->
        IF Server!IsTerminal(status[p]) THEN -2
        ELSE IF status[p] = "approved" THEN plan[p] ELSE Server!NoPlan]

Worker == INSTANCE PlanStore WITH
    Generations <- 0 .. MaxEdits, NoPlan <- Server!NoPlan, Withdrawn <- -2,
    wanted <- Wanted, changes <- 0, MaxChanges <- 0

Init == Server!Init /\ Worker!Init

-----------------------------------------------------------------------------
\* An HTTP request, an edit of the station, or the monitor that finds the
\* worker's last heartbeat too old.
ServerSteps ==
    /\ \/ \E h \in Handlers, u \in Users, p \in Passes : Server!Start(h, u, p)
       \/ \E h \in Handlers : Server!Continue(h)
       \/ Server!EditStation
       \/ Server!SetWorkerOnline(FALSE)
    /\ UNCHANGED worker

\* The executor reads and writes the local store and nothing else.
WorkerSteps ==
    /\ UNCHANGED server
    /\ \/ Worker!Execute
       \/ Worker!Report
       \/ Worker!ReportAnswered
       \/ Worker!NothingToReport
       \/ Worker!MarkHistorySynced
       \/ Worker!ReplaceDesiredState
       \/ Worker!CycleFails
       \/ Worker!Crash

\* RecordHeartbeat: whoever calls is online.
Heartbeat ==
    /\ workerOnline' = TRUE
    /\ UNCHANGED <<status, owner, reason, plan, content, given, handler>>
    /\ Worker!Heartbeat

Fetch ==
    /\ Server!SyncPassPlans
    /\ Worker!Fetch

NextRecord == history[delivered + 1]

\* A server that has no condition on the row it updates.
OverwriteOutcome ==
    /\ status' = IF NextRecord.state = "executing" THEN status
                 ELSE [status EXCEPT ![NextRecord.pass] = NextRecord.state]
    /\ UNCHANGED <<owner, reason, plan, content, workerOnline, given, handler, now>>

\* passStatusFor: outcomes are recorded, other states are skipped.
RecordOutcome ==
    IF NextRecord.state \in Server!Outcomes
    THEN Server!SetPassOutcome(NextRecord.pass, NextRecord.state) /\ UNCHANGED given
    ELSE UNCHANGED <<server, now>>

ReportExecutions ==
    /\ syncer.at = "sending"
    /\ delivered < syncer.batch
    /\ RecordOutcome
    /\ Worker!ProcessRecord

Tick ==
    /\ Server!Tick
    /\ Worker!Tick

Next ==
    \/ ServerSteps
    \/ WorkerSteps
    \/ Heartbeat
    \/ Fetch
    \/ ReportExecutions
    \/ Tick

Spec == Init /\ [][Next]_vars

-----------------------------------------------------------------------------
(* Properties.                                                             *)

\* What the server says a pass ended as is what happened to it on the worker
\* (ReportExecutions over a store that crashes, reports twice and is resynced).
OutcomesAgree ==
    \A p \in Passes : status[p] \in Server!Outcomes => state[p] = status[p]

\* The worker starts a pass only if it was approved: one that was rejected, or
\* never decided, is not even known to it (decide stores the plan of a pass
\* before the pass is approved).
OnlyApprovedPassesAreKnown ==
    \A p \in Passes :
        status[p] \in {"none", "pending_approval", "rejected"} => state[p] = "absent"

\* The scheduler of this system is the one of Scheduling: the worker is no
\* wilder than what that module assumes of it.
SchedulerRefined == Server!Spec

-----------------------------------------------------------------------------
(* What the source says of the worker, asked of the whole system.          *)

\* recover: "do not resume a pass that was interrupted, do not replay completed
\* work".  No pass is started twice, whatever the server stores for it meanwhile.
NeverReplayed == Worker!NeverReplayed

AtRest == executor.at \in {"tick", "pick"}

\* recover_interrupted: "It records the interruption and moves on".  Once the
\* executor is past recovery, a pass it has started and nobody has cancelled has
\* an outcome.
InterruptionIsRecorded ==
    AtRest => \A p \in Passes :
        Worker!StartsOf(p) # {} /\ status[p] # "cancelled" =>
            state[p] \in Server!Outcomes

\* recover: "mark genuinely missed passes as missed".  The worker holds a pass it
\* never started for cancelled only if somebody has cancelled it.
MissedIsMarkedMissed ==
    \A p \in Passes :
        state[p] = "cancelled" /\ Worker!StartsOf(p) = {} => status[p] = "cancelled"
=============================================================================
