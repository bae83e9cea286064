------------------------- MODULE GroundStationProofs ------------------------
(***************************************************************************)
(* Theorems about GroundStation, for any number of passes, users and       *)
(* handlers, any windows, and any bounds.                                  *)
(*                                                                         *)
(* What SchedulingProofs and PlanStoreProofs prove of a step of either     *)
(* side is cited here through the instances SP and WP, so that what is     *)
(* left is what the two sides have to do with each other.                  *)
(***************************************************************************)
EXTENDS GroundStation, SequenceTheorems, TLAPS

SP == INSTANCE SchedulingProofs

WP == INSTANCE PlanStoreProofs WITH
    Generations <- 0 .. MaxEdits, NoPlan <- Server!NoPlan, Withdrawn <- -2,
    wanted <- Wanted, changes <- 0, MaxChanges <- 0

-----------------------------------------------------------------------------
(* The assumptions of the two sides, of the constants of this module.      *)

\* Those of Scheduling.
LEMMA ServerWindows ==
    /\ Aos \in [Passes -> Int]
    /\ Los \in [Passes -> Int]
    /\ \A p \in Passes : Aos[p] < Los[p]
    /\ PrePassBuffer \in Nat
    /\ PostPassBuffer \in Nat
    /\ MinimumLeadTime \in Nat
  BY StationWindowAssumption

\* ... its users ...
LEMMA ServerUsers ==
    /\ Role \in [Users -> {"user", "admin", "root"}]
    /\ NoUser \notin Users
    /\ NoPass \notin Passes
  BY StationUserAssumption

\* ... and bounds.
LEMMA ServerBounds == MaxTime \in Nat /\ MaxEdits \in Nat
  BY StationBoundAssumption

\* Those of PlanStore: its generations are the versions of the station's data.
LEMMA WorkerWindows ==
    /\ Aos \in [Passes -> Int]
    /\ Los \in [Passes -> Int]
    /\ \A p \in Passes : Aos[p] < Los[p]
    /\ Lead \in Nat
    /\ PostRoll \in Nat
  BY StationWindowAssumption

\* ... its null values ...
LEMMA WorkerValues ==
    /\ NoPass \notin Passes
    /\ Server!NoPlan \notin 0 .. MaxEdits
    /\ -2 \notin 0 .. MaxEdits \cup {Server!NoPlan}
    /\ NoSet \notin [Passes -> 0 .. MaxEdits \cup {Server!NoPlan}]
  BY StationUserAssumption, StationBoundAssumption DEF Server!NoPlan

\* ... and bounds.
LEMMA WorkerBounds == MaxTime \in Nat /\ MaxCrashes \in Nat /\ 0 \in Nat
  BY StationBoundAssumption

-----------------------------------------------------------------------------
(* The instances Server and SP, and Worker and WP, are the same modules    *)
(* under the same substitutions.                                           *)

\* The server's actions are those the lemmas of SchedulingProofs are about.
LEMMA SameServer ==
  /\ Server!Init <=> SP!Init
  /\ Server!Next <=> SP!Next
  /\ [Server!Next]_Server!vars <=> [SP!Next]_SP!vars
  /\ \A h, u, p : Server!Start(h, u, p) <=> SP!Start(h, u, p)
  /\ \A h : Server!Continue(h) <=> SP!Continue(h)
  BY DEF Server!Init, SP!Init, Server!Next, SP!Next, Server!vars, SP!vars, Server!Start,
         SP!Start, Server!Continue, SP!Continue, Server!SyncPassPlans, SP!SyncPassPlans,
         Server!SetPassOutcome, SP!SetPassOutcome, Server!EditStation, SP!EditStation,
         Server!SetWorkerOnline, SP!SetWorkerOnline, Server!Tick, SP!Tick, Server!NoPlan,
         SP!NoPlan, Server!Idle, SP!Idle, Server!ReportExecutions, SP!ReportExecutions,
         Server!BeginRequest, SP!BeginRequest, Server!BeginOverride, SP!BeginOverride,
         Server!BeginApprove, SP!BeginApprove, Server!BeginReject, SP!BeginReject,
         Server!BeginCancel, SP!BeginCancel, Server!CommitRequest, SP!CommitRequest,
         Server!CommitOverride, SP!CommitOverride, Server!GeneratePlan, SP!GeneratePlan,
         Server!StorePlan, SP!StorePlan, Server!CommitDecision, SP!CommitDecision,
         Server!CommitCancel, SP!CommitCancel, Server!Fail, SP!Fail, Server!Desired,
         SP!Desired, Server!tables, SP!tables, Server!StillUnreported, SP!StillUnreported,
         Server!Outcomes, SP!Outcomes, Server!FreshRow, SP!FreshRow, Server!CheckLeadTime,
         SP!CheckLeadTime, Server!Begin, SP!Begin, Server!CanApprovePasses,
         SP!CanApprovePasses, Server!ValidateTransition, SP!ValidateTransition,
         Server!CanCancelPass, SP!CanCancelPass, Server!Serving, SP!Serving, Server!Done,
         SP!Done, Server!Conflicting, SP!Conflicting, Server!StillCancellable,
         SP!StillCancellable, Server!Goto, SP!Goto, Server!StillPending, SP!StillPending,
         Server!CancellationReasonFor, SP!CancellationReasonFor, Server!allowedTransitions,
         SP!allowedTransitions, Server!HoldsStation, SP!HoldsStation, Server!Overlaps,
         SP!Overlaps, Server!liveStatuses, SP!liveStatuses, Server!Reservation,
         SP!Reservation, Server!ReservationFor, SP!ReservationFor

\* The worker's actions are those the lemmas of PlanStoreProofs are about.
LEMMA SameWorker ==
  /\ Worker!Init <=> WP!Init
  /\ Worker!Execute <=> WP!Execute
  /\ Worker!Report <=> WP!Report
  /\ Worker!ProcessRecord <=> WP!ProcessRecord
  /\ Worker!ReportAnswered <=> WP!ReportAnswered
  /\ Worker!NothingToReport <=> WP!NothingToReport
  /\ Worker!MarkHistorySynced <=> WP!MarkHistorySynced
  /\ Worker!Heartbeat <=> WP!Heartbeat
  /\ Worker!Fetch <=> WP!Fetch
  /\ Worker!ReplaceDesiredState <=> WP!ReplaceDesiredState
  /\ Worker!CycleFails <=> WP!CycleFails
  /\ Worker!Crash <=> WP!Crash
  /\ Worker!Tick <=> WP!Tick
  BY DEF Worker!Init, WP!Init, Worker!Execute, WP!Execute, Worker!Report, WP!Report,
         Worker!ProcessRecord, WP!ProcessRecord, Worker!ReportAnswered, WP!ReportAnswered,
         Worker!NothingToReport, WP!NothingToReport, Worker!MarkHistorySynced,
         WP!MarkHistorySynced, Worker!Heartbeat, WP!Heartbeat, Worker!Fetch, WP!Fetch,
         Worker!ReplaceDesiredState, WP!ReplaceDesiredState, Worker!CycleFails,
         WP!CycleFails, Worker!Crash, WP!Crash, Worker!Tick, WP!Tick, Worker!NotWorking,
         WP!NotWorking, Worker!Listening, WP!Listening, Worker!RecoverInterrupted,
         WP!RecoverInterrupted, Worker!ScanMissed, WP!ScanMissed, Worker!FinishUpdate,
         WP!FinishUpdate, Worker!FinishHistory, WP!FinishHistory, Worker!Pick, WP!Pick,
         Worker!Claim, WP!Claim, Worker!ClaimHistory, WP!ClaimHistory, Worker!Run, WP!Run,
         Worker!file, WP!file, Worker!world, WP!world, Worker!Served, WP!Served,
         Worker!TERMINAL_STATES, WP!TERMINAL_STATES, Worker!Close, WP!Close, Worker!Pending,
         WP!Pending, Worker!NextDue, WP!NextDue, Worker!PENDING_STATES, WP!PENDING_STATES

-----------------------------------------------------------------------------
(* The inductive invariant.                                                *)

\* Whatever the worker mentions it was given, and only approved passes are given.
OnlyGivenPassesAreMentioned == \A p \in Passes : WP!Mentions(p) => p \in given
GivenPassesWereApproved == \A p \in given : SP!WasApproved(p)

GInv ==
    /\ SP!TypeOK
    /\ SP!InsertsAreFresh
    /\ SP!PlansAreVersions
    /\ WP!Inv
    /\ OnlyGivenPassesAreMentioned
    /\ GivenPassesWereApproved
    /\ OutcomesAgree

\* Nothing was requested, given or stored yet.
LEMMA InitGInv == Init => GInv
  <1> SUFFICES ASSUME Init
               PROVE  GInv
    OBVIOUS
  <1>1. SP!Init /\ WP!Init
    BY SameServer, SameWorker DEF Init
  <1>2. SP!TypeOK /\ SP!InsertsAreFresh /\ SP!PlansAreVersions
    BY <1>1, SP!InitType, SP!InitFresh, SP!InitVersions,
       ServerWindows, ServerUsers, ServerBounds
  <1>3. WP!Inv
    BY <1>1, WP!InitInv, WorkerWindows, WorkerValues, WorkerBounds
  <1>4. OnlyGivenPassesAreMentioned
    BY <1>1, WP!InitMentions, WorkerWindows, WorkerValues, WorkerBounds
       DEF OnlyGivenPassesAreMentioned
  <1>5. given = {} /\ \A p \in Passes : status[p] = "none"
    BY <1>1 DEF SP!Init
  <1>6. GivenPassesWereApproved /\ OutcomesAgree
    BY <1>5 DEF GivenPassesWereApproved, OutcomesAgree, Server!Outcomes
  <1> QED BY <1>2, <1>3, <1>4, <1>6 DEF GInv

-----------------------------------------------------------------------------
(* The server's side of a step.                                            *)

\* A record that is processed is about a pass the worker was given.
LEMMA RecordsAreOfGivenPasses ==
  ASSUME GInv, ReportExecutions
  PROVE  /\ delivered + 1 \in 1 .. Len(history)
         /\ NextRecord \in WP!Entry
         /\ NextRecord.pass \in Passes
         /\ NextRecord.pass \in given
  <1>1. /\ delivered \in 0 .. Len(history) /\ syncer.batch \in 0 .. Len(history)
        /\ history \in Seq(WP!Entry) /\ Len(history) \in Nat
    BY WP!Numbers, WorkerWindows, WorkerValues, WorkerBounds DEF GInv
  <1>2. delivered < syncer.batch
    BY DEF ReportExecutions
  <1>3. delivered + 1 \in 1 .. Len(history)
    BY <1>1, <1>2
  <1>4. NextRecord \in WP!Entry
    BY <1>1, <1>3, ElementOfSeq DEF NextRecord
  <1>5. NextRecord.pass \in Passes
    BY <1>4 DEF WP!Entry
  <1>6. WP!Mentions(NextRecord.pass)
    BY <1>3 DEF WP!Mentions, NextRecord
  <1> QED BY <1>3, <1>4, <1>5, <1>6 DEF GInv, OnlyGivenPassesAreMentioned

\* Every step of the system is one of Scheduling, or none of the server's.
LEMMA ServerStep ==
  ASSUME GInv, [Next]_vars
  PROVE  [Server!Next]_Server!vars
  <1>0. workerOnline \in BOOLEAN
    BY DEF GInv, SP!TypeOK
  <1>1. CASE ServerSteps
    BY <1>1 DEF ServerSteps, Server!Next
  <1>2. CASE WorkerSteps
    <2>1. UNCHANGED <<server, now>>
      BY <1>2 DEF WorkerSteps, Worker!Execute, Worker!RecoverInterrupted, Worker!ScanMissed,
         Worker!FinishUpdate, Worker!FinishHistory, Worker!Pick, Worker!Claim,
         Worker!ClaimHistory, Worker!Run, Worker!Report, Worker!ReportAnswered,
         Worker!NothingToReport, Worker!MarkHistorySynced, Worker!ReplaceDesiredState,
         Worker!CycleFails, Worker!Crash, Worker!world
    <2> QED BY <2>1 DEF server, Server!vars
  <1>3. CASE Heartbeat
    <2>1. UNCHANGED now
      BY <1>3 DEF Heartbeat, Worker!Heartbeat, Worker!world
    <2>2. CASE workerOnline = TRUE
      BY <1>3, <2>1, <2>2 DEF Heartbeat, Server!vars
    <2>3. CASE workerOnline = FALSE
      <3>1. Server!SetWorkerOnline(TRUE)
        BY <1>3, <2>1, <2>3 DEF Heartbeat, Server!SetWorkerOnline, Server!tables
      <3> QED BY <3>1 DEF Server!Next
    <2> QED BY <1>0, <2>2, <2>3
  <1>4. CASE Fetch
    BY <1>4 DEF Fetch, Server!Next
  <1>5. CASE ReportExecutions
    <2>1. CASE NextRecord.state \in Server!Outcomes
      <3>1. Server!ReportExecutions(NextRecord.pass)
        BY <1>5, <2>1, RecordsAreOfGivenPasses
           DEF ReportExecutions, RecordOutcome, Server!ReportExecutions
      <3> QED BY <1>5, <3>1, RecordsAreOfGivenPasses DEF Server!Next
    <2>2. CASE NextRecord.state \notin Server!Outcomes
      BY <1>5, <2>2 DEF ReportExecutions, RecordOutcome, server, Server!vars
    <2> QED BY <2>1, <2>2
  <1>6. CASE Tick
    BY <1>6 DEF Tick, Server!Next
  <1>7. CASE UNCHANGED vars
    BY <1>7 DEF vars, server, Server!vars
  <1> QED BY <1>1, <1>2, <1>3, <1>4, <1>5, <1>6, <1>7 DEF Next

\* So the invariants of the scheduler are invariants of the system.
LEMMA ServerKeeps ==
  ASSUME GInv, [Next]_vars
  PROVE  SP!TypeOK' /\ SP!InsertsAreFresh' /\ SP!PlansAreVersions'
  <1>1. [SP!Next]_SP!vars
    BY ServerStep, SameServer
  <1>2. SP!TypeOK /\ SP!InsertsAreFresh /\ SP!PlansAreVersions
    BY DEF GInv
  <1> QED BY <1>1, <1>2, SP!NextType, SP!NextFresh, SP!NextVersions,
             ServerWindows, ServerUsers, ServerBounds

-----------------------------------------------------------------------------
(* The worker's side of a step.                                            *)

\* What the server wants is in the worker's terms, also after a step.
LEMMA WantedIsTyped ==
  ASSUME GInv, [Next]_vars
  PROVE  /\ Wanted \in [Passes -> 0 .. MaxEdits \cup {Server!NoPlan, -2}]
         /\ Wanted' \in [Passes -> 0 .. MaxEdits \cup {Server!NoPlan, -2}]
  <1>1. SP!PlansAreVersions /\ SP!PlansAreVersions'
    BY ServerKeeps DEF GInv
  <1> QED BY <1>1 DEF SP!PlansAreVersions, SP!PlansAreFrom, SP!NoPlan, Server!NoPlan, Wanted

\* Every step of the system is one the worker's invariant is kept by.
LEMMA WorkerKeeps ==
  ASSUME GInv, [Next]_vars
  PROVE  WP!Inv'
  <1>0. /\ WP!Inv
        /\ Wanted' \in [Passes -> 0 .. MaxEdits \cup {Server!NoPlan, -2}]
        /\ now' \in Nat /\ crashes \in Nat
    BY WantedIsTyped, ServerKeeps DEF GInv, SP!TypeOK, WP!Inv, WP!TypeOK
  <1>1. ASSUME UNCHANGED worker
        PROVE  WP!Inv'
    <2>1. UNCHANGED <<WP!file, executor, syncer, delivered>> /\ crashes' \in Nat /\ 0 \in Nat
      BY <1>0, <1>1 DEF worker, WP!file
    <2> QED BY <1>0, <2>1, WP!WorldStep, WorkerWindows, WorkerValues, WorkerBounds
  <1>2. CASE WorkerSteps
    <2>1. \/ WP!Execute \/ WP!Report \/ WP!ReportAnswered \/ WP!NothingToReport
          \/ WP!MarkHistorySynced \/ WP!ReplaceDesiredState \/ WP!CycleFails \/ WP!Crash
      BY <1>2, SameWorker DEF WorkerSteps
    <2>2. CASE WP!NothingToReport \/ WP!CycleFails
      BY <1>0, <2>2, WP!ListenStep, WorkerWindows, WorkerValues, WorkerBounds
         DEF WP!NothingToReport, WP!CycleFails
    <2> QED BY <1>0, <2>1, <2>2, WP!ExecuteStep, WP!ReportStep, WP!ReportAnsweredStep,
               WP!MarkHistorySyncedStep, WP!ReplaceStep, WP!CrashStep,
               WorkerWindows, WorkerValues, WorkerBounds
  <1>3. CASE Heartbeat
    BY <1>0, <1>3, SameWorker, WP!HeartbeatStep, WorkerWindows, WorkerValues, WorkerBounds
       DEF Heartbeat
  <1>4. CASE Fetch
    BY <1>0, <1>4, SameWorker, WP!FetchStep, WorkerWindows, WorkerValues, WorkerBounds
       DEF Fetch
  <1>5. CASE ReportExecutions
    <2>1. WP!ProcessRecord /\ UNCHANGED 0
      BY <1>5, SameWorker DEF ReportExecutions
    <2> QED BY <1>0, <2>1, WP!ProcessRecordStep, WorkerWindows, WorkerValues, WorkerBounds
  <1>6. CASE Tick
    <2>1. UNCHANGED <<WP!file, executor, syncer, delivered>> /\ crashes' \in Nat /\ 0 \in Nat
      BY <1>0, <1>6, SameWorker DEF Tick, WP!Tick
    <2> QED BY <1>0, <2>1, WP!WorldStep, WorkerWindows, WorkerValues, WorkerBounds
  <1> QED BY <1>1, <1>2, <1>3, <1>4, <1>5, <1>6 DEF Next, ServerSteps, vars

-----------------------------------------------------------------------------
(* What the two sides know of each other.                                  *)

\* What the worker is sent was approved, and has a plan.
LEMMA ServedIsDesired ==
  ASSUME GInv, NEW p \in Passes, WP!Served[p] # Server!NoPlan
  PROVE  p \in Server!Desired /\ SP!WasApproved(p)
  <1>1. Wanted[p] \in 0 .. MaxEdits /\ Los[p] >= now
    BY DEF WP!Served
  <1>2. Wanted[p] # Server!NoPlan /\ Wanted[p] # -2
    BY <1>1, ServerBounds DEF Server!NoPlan
  <1>3. status[p] = "approved" /\ plan[p] # Server!NoPlan
    BY <1>2 DEF Wanted
  <1> QED BY <1>1, <1>3 DEF Server!Desired, SP!WasApproved

\* The worker comes to mention a pass only by being given it.
LEMMA MentionsKeeps ==
  ASSUME GInv, [Next]_vars
  PROVE  OnlyGivenPassesAreMentioned'
  <1> SUFFICES ASSUME NEW p \in Passes, WP!Mentions(p)'
               PROVE  p \in given'
    BY DEF OnlyGivenPassesAreMentioned
  <1>0. WP!Inv /\ (WP!Mentions(p) => p \in given)
    BY DEF GInv, OnlyGivenPassesAreMentioned
  <1>1. given \subseteq given'
    <2>1. [Server!Next]_Server!vars
      BY ServerStep
    <2> QED BY <2>1 DEF Server!Next, Server!Start, Server!Continue, Server!BeginRequest,
       Server!BeginOverride, Server!BeginApprove, Server!BeginReject, Server!BeginCancel,
       Server!CommitRequest, Server!CommitOverride, Server!GeneratePlan, Server!StorePlan,
       Server!CommitDecision, Server!CommitCancel, Server!Fail, Server!SyncPassPlans,
       Server!ReportExecutions, Server!EditStation, Server!SetWorkerOnline, Server!Tick,
       Server!vars
  <1>2. CASE Fetch
    <2>1. WP!Mentions(p) \/ WP!Served[p] # Server!NoPlan
      BY <1>0, <1>2, SameWorker, WP!FetchMentions, WorkerWindows, WorkerValues, WorkerBounds
         DEF Fetch
    <2> QED BY <1>0, <1>2, <2>1, ServedIsDesired DEF Fetch, Server!SyncPassPlans
  <1>3. CASE WP!Execute
    BY <1>0, <1>1, <1>3, WP!ExecuteMentions, WorkerWindows, WorkerValues, WorkerBounds
  <1>4. CASE \/ WP!Report \/ WP!ProcessRecord \/ WP!ReportAnswered \/ WP!NothingToReport
             \/ WP!MarkHistorySynced \/ WP!Heartbeat \/ WP!ReplaceDesiredState
             \/ WP!CycleFails \/ WP!Crash \/ WP!Tick
    BY <1>0, <1>1, <1>4, WP!SyncMentions, WorkerWindows, WorkerValues, WorkerBounds
  <1>5. CASE UNCHANGED worker
    BY <1>0, <1>1, <1>5 DEF worker, WP!Mentions
  <1> QED BY <1>2, <1>3, <1>4, <1>5, SameWorker
          DEF Next, ServerSteps, WorkerSteps, Heartbeat, ReportExecutions, Tick, vars

\* A pass that is given is approved, and was approved ever after.
LEMMA GivenKeeps ==
  ASSUME GInv, [Next]_vars
  PROVE  GivenPassesWereApproved'
  <1>0. SP!TypeOK /\ SP!InsertsAreFresh /\ [SP!Next]_SP!vars
    BY ServerStep, SameServer DEF GInv
  <1>1. \A p \in Passes : SP!WasApproved(p) => SP!WasApproved(p)'
    BY <1>0, SP!ApprovedStaysApproved, ServerWindows, ServerUsers, ServerBounds
  <1>2. given' = given \/ given' = given \cup SP!Desired
    BY <1>0 DEF SP!Next, SP!Start, SP!Continue, SP!BeginRequest,
       SP!BeginOverride, SP!BeginApprove, SP!BeginReject, SP!BeginCancel,
       SP!CommitRequest, SP!CommitOverride, SP!GeneratePlan, SP!StorePlan,
       SP!CommitDecision, SP!CommitCancel, SP!Fail, SP!SyncPassPlans,
       SP!ReportExecutions, SP!EditStation, SP!SetWorkerOnline, SP!Tick,
       SP!vars
  <1>3. \A p \in given' : p \in Passes /\ SP!WasApproved(p)
    BY <1>2 DEF GInv, SP!TypeOK, GivenPassesWereApproved, SP!Desired, SP!WasApproved
  <1> QED BY <1>1, <1>3 DEF GivenPassesWereApproved

\* What the worker has closed it leaves closed, and the server keeps its word: an
\* outcome is written only by a report, and the report says what the store holds.
LEMMA OutcomesKeep ==
  ASSUME GInv, [Next]_vars
  PROVE  OutcomesAgree'
  <1>0. WP!Inv /\ SP!TypeOK /\ WP!HistoryAgrees /\ WP!Closing /\ OutcomesAgree
        /\ Server!Outcomes = {"completed", "failed", "missed"}
        /\ SP!Outcomes = {"completed", "failed", "missed"}
        /\ WP!Outcomes = {"completed", "failed", "missed"}
    BY DEF GInv, WP!Inv, Server!Outcomes, SP!Outcomes, WP!Outcomes
  <1> SUFFICES ASSUME NEW p \in Passes, status'[p] \in Server!Outcomes
               PROVE  state'[p] = status'[p]
    BY <1>0 DEF OutcomesAgree, Server!Outcomes
  <1>1. ASSUME status'[p] = status[p], state'[p] = state[p]
        PROVE  state'[p] = status'[p]
    BY <1>1 DEF GInv, OutcomesAgree
  <1>2. CASE ServerSteps
    <2>1. UNCHANGED state
      BY <1>2 DEF ServerSteps, worker
    <2>2. ASSUME NEW h \in Handlers, NEW u \in Users, NEW q \in Passes, SP!Start(h, u, q)
          PROVE  status'[p] = status[p]
      BY <2>2, SP!StartLeavesPasses, ServerWindows, ServerUsers, ServerBounds DEF SP!tables
    <2>3. ASSUME NEW h \in Handlers, SP!Continue(h)
          PROVE  status'[p] = status[p]
      BY <1>0, <2>3, SP!ContinueGivesNoOutcome, ServerWindows, ServerUsers, ServerBounds
    <2>4. CASE Server!EditStation \/ Server!SetWorkerOnline(FALSE)
      BY <1>1, <2>1, <2>4 DEF Server!EditStation, Server!SetWorkerOnline, Server!tables
    <2> QED BY <1>1, <1>2, <2>1, <2>2, <2>3, <2>4, SameServer DEF ServerSteps
  <1>3. CASE WorkerSteps
    <2>1. status' = status /\ state[p] = status[p] /\ state[p] \in WP!Outcomes
      BY <1>0, <1>3 DEF WorkerSteps, server, OutcomesAgree
    <2>2. CASE WP!Execute
      <3>1. state'[p] = state[p] \/ WP!Closed(p) \/ WP!Started(p)
        BY <1>0, <2>2, WP!ExecuteChanges, WorkerWindows, WorkerValues, WorkerBounds
      <3> QED BY <1>0, <2>1, <3>1
              DEF WP!Closed, WP!Started, WP!Closing, WP!Pending, WP!PENDING_STATES
    <2>3. CASE WP!ReplaceDesiredState
      <3>1. state'[p] = state[p] \/ WP!Accepted(p) \/ WP!Renewed(p) \/ WP!Dropped(p)
        BY <1>0, <2>3, WP!ReplaceChanges, WorkerWindows, WorkerValues, WorkerBounds
      <3> QED BY <1>0, <2>1, <3>1
              DEF WP!Accepted, WP!Renewed, WP!Dropped, WP!PENDING_STATES
    <2>4. CASE \/ WP!Report \/ WP!ReportAnswered \/ WP!NothingToReport
               \/ WP!MarkHistorySynced \/ WP!CycleFails \/ WP!Crash
      <3>1. UNCHANGED state
        BY <2>4 DEF WP!Report, WP!ReportAnswered, WP!NothingToReport, WP!MarkHistorySynced,
           WP!CycleFails, WP!Crash, WP!file
      <3> QED BY <2>1, <3>1
    <2> QED BY <1>3, <2>2, <2>3, <2>4, SameWorker DEF WorkerSteps
  <1>4. CASE Heartbeat \/ Fetch \/ Tick
    <2>1. UNCHANGED <<status, state>>
      BY <1>4 DEF Heartbeat, Fetch, Tick, Worker!Heartbeat, Worker!Fetch, Worker!Tick,
         Worker!file, Server!SyncPassPlans, Server!Tick, Server!tables
    <2> QED BY <1>1, <2>1
  <1>5. CASE ReportExecutions
    <2>1. UNCHANGED state
      BY <1>5 DEF ReportExecutions, Worker!ProcessRecord, Worker!file
    <2>2. CASE status'[p] = status[p]
      BY <1>1, <2>1, <2>2
    <2>3. CASE status'[p] # status[p]
      <3>1. /\ NextRecord.state \in Server!Outcomes
            /\ Server!SetPassOutcome(NextRecord.pass, NextRecord.state)
        BY <1>5, <2>3 DEF ReportExecutions, RecordOutcome, server
      <3>2. p = NextRecord.pass /\ status'[p] = NextRecord.state
        BY <1>0, <2>3, <3>1, RecordsAreOfGivenPasses DEF Server!SetPassOutcome, SP!TypeOK
      <3>3. delivered + 1 \in WP!OutcomesOf(p)
        BY <1>0, <1>5, <3>1, <3>2, RecordsAreOfGivenPasses DEF WP!OutcomesOf, NextRecord
      <3>4. NextRecord.state = state[p]
        BY <1>0, <3>3 DEF WP!HistoryAgrees, NextRecord
      <3> QED BY <2>1, <3>2, <3>4
    <2> QED BY <2>2, <2>3
  <1>6. CASE UNCHANGED vars
    BY <1>1, <1>6 DEF vars, server, worker
  <1> QED BY <1>2, <1>3, <1>4, <1>5, <1>6 DEF Next

\* The invariant is inductive.
LEMMA GInvStep == GInv /\ [Next]_vars => GInv'
  BY ServerKeeps, WorkerKeeps, MentionsKeeps, GivenKeeps, OutcomesKeep DEF GInv

\* The invariant holds throughout.
LEMMA GInvAlways == Spec => []GInv
  BY InitGInv, GInvStep, PTL DEF Spec

-----------------------------------------------------------------------------
(* Theorems.                                                               *)

\* What the server says a pass ended as is what happened to it, over crashes of the
\* worker, reports sent twice and plans replaced while it runs (ReportExecutions,
\* passStatusFor, mark_finished).
THEOREM ServerTellsWhatHappened == Spec => []OutcomesAgree
  <1>1. GInv => OutcomesAgree
    BY DEF GInv
  <1> QED BY <1>1, GInvAlways, PTL

\* A pass that was never approved is not even known to the worker, although its
\* plan is stored before it is approved (decide, ListPassPlansForStation).
THEOREM UnapprovedPassesStayUnknown == Spec => []OnlyApprovedPassesAreKnown
  <1>1. GInv => OnlyApprovedPassesAreKnown
    BY DEF GInv, OnlyGivenPassesAreMentioned, GivenPassesWereApproved, WP!Mentions,
           SP!WasApproved, OnlyApprovedPassesAreKnown
  <1> QED BY <1>1, GInvAlways, PTL

\* Every step of the system is a step of Scheduling or leaves the server alone: the
\* worker's reports are of passes it was given, however its history came about.
THEOREM SchedulerIsImplemented == Spec => SchedulerRefined
  <1>1. Init => Server!Init
    BY DEF Init
  <1>2. GInv /\ [Next]_vars => [Server!Next]_Server!vars
    BY ServerStep
  <1> QED BY <1>1, <1>2, GInvAlways, PTL DEF Spec, SchedulerRefined, Server!Spec

-----------------------------------------------------------------------------
(* What either side promises by itself it keeps in the whole.              *)

\* The station is never booked twice, and nothing the worker has to report is lost
\* or told in two ways, with the other side doing what it really does.
THEOREM PromisesAreKept ==
  Spec => [](Server!NoDoubleBooking /\ Worker!HistoryAgrees /\ Worker!SyncedWasDelivered)
  <1>1. Server!NoDoubleBooking <=> SP!NoDoubleBooking
    BY DEF Server!NoDoubleBooking, SP!NoDoubleBooking, Server!HoldsStation, SP!HoldsStation,
           Server!liveStatuses, SP!liveStatuses, Server!Overlaps, SP!Overlaps,
           Server!Reservation, SP!Reservation, Server!ReservationFor, SP!ReservationFor
  <1>2. Init => SP!NoDoubleBooking
    BY SameServer DEF Init, SP!Init, SP!NoDoubleBooking, SP!HoldsStation, SP!liveStatuses
  <1>3. GInv /\ SP!NoDoubleBooking /\ [Next]_vars => SP!NoDoubleBooking'
    BY ServerStep, SameServer, SP!NextBooking, ServerWindows, ServerUsers, ServerBounds
       DEF GInv
  <1>4. GInv => Worker!HistoryAgrees /\ Worker!SyncedWasDelivered
    BY DEF GInv, WP!Inv, WP!HistoryAgrees, Worker!HistoryAgrees, WP!OutcomesOf,
           Worker!OutcomesOf, WP!Outcomes, Worker!Outcomes,
           WP!SyncedWasDelivered, Worker!SyncedWasDelivered
  <1>5. Spec => [](GInv /\ SP!NoDoubleBooking)
    BY <1>2, <1>3, GInvAlways, PTL DEF Spec
  <1> QED BY <1>1, <1>4, <1>5, PTL

-----------------------------------------------------------------------------
(* No pass is started twice, unless the station's data are edited.         *)

\* Every step of the system is one the lemmas about replays are about.
LEMMA WorkerStep == [Next]_vars => WP!AnyStep
  <1>1. ASSUME UNCHANGED worker
        PROVE  WP!AnyStep
    BY <1>1 DEF worker, WP!AnyStep
  <1>2. CASE WorkerSteps
    BY <1>2, SameWorker DEF WorkerSteps, WP!AnyStep, WP!Report, WP!ReportAnswered,
       WP!NothingToReport, WP!MarkHistorySynced, WP!CycleFails, WP!file
  <1>3. CASE Heartbeat \/ Fetch \/ ReportExecutions \/ Tick
    BY <1>3, SameWorker DEF Heartbeat, Fetch, ReportExecutions, Tick, WP!AnyStep,
       WP!Heartbeat, WP!Fetch, WP!ProcessRecord, WP!Tick, WP!file
  <1> QED BY <1>1, <1>2, <1>3 DEF Next, ServerSteps, vars

\* There is one version of every plan, wherever a plan is kept.
OneVersion ==
    /\ SP!PlansAreFrom({0})
    /\ \A p \in Passes : generation[p] \in {0, Server!NoPlan}
    /\ syncer.at = "apply" => \A p \in Passes : syncer.set[p] \in {0, Server!NoPlan}

\* The first version is the only one.
LEMMA InitOneVersion == Init => OneVersion /\ WP!Planned /\ WP!StartedOnce
  <1> SUFFICES ASSUME Init
               PROVE  OneVersion /\ WP!Planned /\ WP!StartedOnce
    OBVIOUS
  <1>1. SP!Init /\ WP!Init
    BY SameServer, SameWorker DEF Init
  <1>2. SP!PlansAreFrom({0})
    BY <1>1, SP!InitPlans, ServerWindows, ServerUsers, ServerBounds
  <1>3. WP!StartedOnce
    BY <1>1, WP!InitStartedOnce, WorkerWindows, WorkerValues, WorkerBounds
  <1>4. generation = [p \in Passes |-> Server!NoPlan] /\ syncer.at # "apply" /\ WP!Planned
    BY <1>1 DEF WP!Init, WP!Listening, WP!Planned
  <1> QED BY <1>2, <1>3, <1>4 DEF OneVersion

\* A set that is served has plans of that version, and nothing else brings plans.
LEMMA OneVersionStep ==
  ASSUME GInv, [Next]_vars, OneVersion, UNCHANGED content
  PROVE  OneVersion'
  <1>0. WP!Inv /\ SP!TypeOK /\ [SP!Next]_SP!vars /\ WP!AnyStep
    BY ServerStep, SameServer, WorkerStep DEF GInv
  <1>1. SP!PlansAreFrom({0})'
    <2>1. SP!PlansAreFrom({0}) /\ content' \in {0}
      BY DEF OneVersion, SP!PlansAreFrom
    <2> QED BY <1>0, <2>1, SP!NextPlans, ServerWindows, ServerUsers, ServerBounds
  <1>2. \A p \in Passes : generation'[p] \in {0, Server!NoPlan}
    BY <1>0, WP!PlansComeFromTheSet, WorkerWindows, WorkerValues, WorkerBounds
       DEF OneVersion
  <1>3. ASSUME syncer'.at = "apply", NEW p \in Passes
        PROVE  syncer'.set[p] \in {0, Server!NoPlan}
    <2>1. ASSUME UNCHANGED syncer
          PROVE  syncer'.set[p] \in {0, Server!NoPlan}
      BY <1>3, <2>1 DEF OneVersion
    <2>2. CASE Fetch
      <3>1. WP!Fetch
        BY <2>2, SameWorker DEF Fetch
      <3>2. syncer' # WP!Listening("report")
        BY <1>3 DEF WP!Listening
      <3>3. syncer' = [WP!Listening("apply") EXCEPT !.set = WP!Served]
        BY <3>1, <3>2 DEF WP!Fetch
      <3>4. syncer'.set = WP!Served
        BY <3>3 DEF WP!Listening
      <3>5. WP!Served[p] \in 0 .. MaxEdits => WP!Served[p] = plan[p]
        BY DEF WP!Served, Wanted, Server!NoPlan
      <3>6. WP!Served[p] \in 0 .. MaxEdits \cup {Server!NoPlan}
        BY DEF WP!Served
      <3>7. plan[p] \in {0, Server!NoPlan}
        BY DEF OneVersion, SP!PlansAreFrom, SP!NoPlan, Server!NoPlan
      <3> QED BY <3>4, <3>5, <3>6, <3>7
    <2>3. CASE UNCHANGED worker
      BY <2>1, <2>3 DEF worker
    <2>4. CASE ~Fetch /\ ~UNCHANGED worker
      <3>1. \/ WP!Execute \/ WP!Report \/ WP!ProcessRecord \/ WP!ReportAnswered
            \/ WP!NothingToReport \/ WP!MarkHistorySynced \/ WP!Heartbeat
            \/ WP!ReplaceDesiredState \/ WP!CycleFails \/ WP!Crash \/ WP!Tick
        BY <2>4, SameWorker DEF Next, ServerSteps, WorkerSteps, Heartbeat, ReportExecutions,
           Tick, vars
      <3> QED BY <1>0, <1>3, <2>1, <3>1, WP!SetsAreFetched,
                 WorkerWindows, WorkerValues, WorkerBounds
    <2> QED BY <2>2, <2>3, <2>4
  <1> QED BY <1>1, <1>2, <1>3 DEF OneVersion

\* With one version no plan is replaced, and so no pass is pending again.
LEMMA StartedOnceKeeps ==
  ASSUME GInv, GInv', [Next]_vars, UNCHANGED content,
         OneVersion, OneVersion', WP!Planned, WP!StartedOnce
  PROVE  WP!Planned' /\ WP!StartedOnce'
  <1>0. WP!Inv /\ WP!Inv' /\ WP!AnyStep
    BY WorkerStep DEF GInv
  <1>1. WP!Planned'
    BY <1>0, WP!PlannedStep, WorkerWindows, WorkerValues, WorkerBounds
  <1>2. WP!PlanIsKept
    <2> SUFFICES ASSUME NEW p \in Passes, state[p] = "executing"
                 PROVE  generation'[p] = generation[p]
      BY DEF WP!PlanIsKept
    <2>1. state'[p] # "absent"
      BY <1>0, WP!PassStep, WorkerWindows, WorkerValues, WorkerBounds
         DEF WP!Closed, WP!Started, WP!Accepted, WP!Renewed, WP!Dropped, WP!Inv, WP!TypeOK,
             WP!Outcomes
    <2>2. generation[p] \in 0 .. MaxEdits /\ generation'[p] \in 0 .. MaxEdits
      BY <1>1, <2>1 DEF WP!Planned
    <2> QED BY <2>2 DEF OneVersion, Server!NoPlan
  <1>3. WP!StartedOnce'
    BY <1>0, <1>2, WP!StartedOnceStep, WorkerWindows, WorkerValues, WorkerBounds
  <1> QED BY <1>1, <1>3

\* A pass is started twice only if somebody edits the station: without an edit every
\* plan that is generated again is the one the worker holds (hash of the plan,
\* replace_desired_state).
THEOREM NothingIsReplayedWithoutAnEdit ==
  Spec /\ [][UNCHANGED content]_vars => []NeverReplayed
  <1>1. GInv /\ [Next]_vars /\ OneVersion /\ [UNCHANGED content]_vars => OneVersion'
    <2>1. UNCHANGED vars => UNCHANGED content
      BY DEF vars, server
    <2> QED BY <2>1, OneVersionStep
  <1>2. /\ GInv /\ GInv' /\ [Next]_vars /\ [UNCHANGED content]_vars
        /\ OneVersion /\ OneVersion' /\ WP!Planned /\ WP!StartedOnce
        => WP!Planned' /\ WP!StartedOnce'
    <2>1. UNCHANGED vars => UNCHANGED content
      BY DEF vars, server
    <2> QED BY <2>1, StartedOnceKeeps
  <1>3. WP!StartedOnce => NeverReplayed
    BY DEF WP!StartedOnce, WP!NeverReplayed, WP!StartsOf, NeverReplayed,
           Worker!NeverReplayed, Worker!StartsOf
  <1> QED BY <1>1, <1>2, <1>3, InitOneVersion, GInvAlways, PTL DEF Spec

=============================================================================
