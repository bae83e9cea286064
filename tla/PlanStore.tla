----------------------------- MODULE PlanStore ------------------------------
(***************************************************************************)
(* The worker: its durable plan store (planstore.py), the executor thread  *)
(* that runs due passes from it (executor.py) and the sync thread that     *)
(* reports outcomes and replaces the desired state (main.py, sync.py,      *)
(* uploads.py).                                                            *)
(*                                                                         *)
(* The two threads share nothing but the SQLite file.  The store's lock is *)
(* released between two calls, and within mark_finished and its callers    *)
(* between two statements, so every statement is an action of its own here *)
(* (the one transaction is ReplaceDesiredState).  A crash may come between *)
(* any two; what survives it is the file.                                  *)
(***************************************************************************)
EXTENDS Integers, Sequences

CONSTANTS
    Passes,
    Generations,     \* hashes of plan contents
    Aos, Los,        \* [Passes -> Int]
    Lead,            \* how long before AOS a pass may start
    PostRoll,        \* how long after LOS a recording goes on
    NoPass,
    NoPlan,          \* the server wants nothing of this pass yet
    Withdrawn,       \* the server wanted it once and never will again
    NoSet,           \* the generation of a store that was never synchronized
    MaxTime,         \* bound of the clock
    MaxCrashes,      \* bound of restarts
    MaxChanges       \* bound of changes of the server's mind

ASSUME WorkerWindowAssumption ==
    /\ Aos \in [Passes -> Int]
    /\ Los \in [Passes -> Int]
    /\ \A p \in Passes : Aos[p] < Los[p]
    /\ Lead \in Nat
    /\ PostRoll \in Nat

ASSUME WorkerValueAssumption ==
    /\ NoPass \notin Passes
    /\ NoPlan \notin Generations
    /\ Withdrawn \notin Generations \cup {NoPlan}
    /\ NoSet \notin [Passes -> Generations \cup {NoPlan}]

ASSUME WorkerBoundAssumption ==
    MaxTime \in Nat /\ MaxCrashes \in Nat /\ MaxChanges \in Nat

VARIABLES
    \* the SQLite file
    state,       \* plans.state, "absent" without a row
    generation,  \* plans.generation
    stored,      \* meta.generation: the set that was last applied
    history,     \* execution_history, in order of id
    synced,      \* how many entries of it have synced = 1
    \* the two threads
    executor,
    syncer,
    \* the world
    wanted,      \* what the server's tables say the worker should run
    delivered,   \* how many entries of the history the server has processed
    now,
    crashes, changes

file == <<state, generation, stored, history, synced>>
world == <<wanted, delivered, now, crashes, changes>>
vars == <<file, executor, syncer, world>>

PENDING_STATES == {"received", "ready"}
TERMINAL_STATES == {"completed", "failed", "missed", "cancelled"}
ExecutionState == PENDING_STATES \cup TERMINAL_STATES \cup {"executing"}
Outcomes == {"completed", "failed", "missed"}

Pending(p) == state[p] \in PENDING_STATES

\* ListPassPlansForStation: approved passes whose LOS has not gone by.
Served ==
    [p \in Passes |-> IF wanted[p] \in Generations /\ Los[p] >= now
                      THEN wanted[p] ELSE NoPlan]

-----------------------------------------------------------------------------
(* The threads' local state.                                               *)

NotWorking(at) ==
    [at |-> at, pass |-> NoPass, todo |-> {}, verdict |-> "", next |-> "",
     clock |-> 0]

Listening(at) == [at |-> at, batch |-> 0, set |-> NoSet]

\* A loop over the passes that does not see when the list is empty.
CloseAlways(passes, verdict, next, clock) ==
    executor' = [at |-> "close", pass |-> NoPass, todo |-> passes,
                 verdict |-> verdict, next |-> next, clock |-> clock]

\* A list of passes is to be marked finished, one mark_finished each, then the
\* executor goes on at next.
Close(passes, verdict, next, clock) ==
    executor' = [at |-> IF passes = {} THEN next ELSE "close",
                 pass |-> NoPass, todo |-> passes, verdict |-> verdict,
                 next |-> next, clock |-> clock]

Init ==
    /\ state = [p \in Passes |-> "absent"]
    /\ generation = [p \in Passes |-> NoPlan]
    /\ stored = NoSet
    /\ history = <<>>
    /\ synced = 0
    /\ executor = NotWorking("recover")
    /\ syncer = Listening("report")
    /\ wanted = [p \in Passes |-> NoPlan]
    /\ delivered = 0
    /\ now = 0
    /\ crashes = 0
    /\ changes = 0

-----------------------------------------------------------------------------
(* The executor thread.                                                    *)

\* A recovery that would put an interrupted pass back in the queue.
ResumeInterrupted ==
    /\ executor.at = "recover"
    /\ state' = [p \in Passes |-> IF state[p] = "executing" THEN "received"
                                  ELSE state[p]]
    /\ executor' = NotWorking("recovered")
    /\ UNCHANGED <<generation, stored, history, synced, syncer, world>>

\* A recovery that leaves interrupted passes as they are.
SkipInterrupted ==
    /\ executor.at = "recover"
    /\ executor' = NotWorking("recovered")
    /\ UNCHANGED <<file, syncer, world>>

\* recover_interrupted: read the executing passes, then fail them one by one.
RecoverInterrupted ==
    /\ executor.at = "recover"
    /\ Close({p \in Passes : state[p] = "executing"}, "failed", "recovered", 0)
    /\ UNCHANGED <<file, syncer, world>>

\* mark_missed_before, in recover and at the head of every tick: read the
\* pending passes whose window has closed, then mark them one by one.
ScanMissed(from, next) ==
    /\ executor.at = from
    /\ Close({p \in Passes : Pending(p) /\ Los[p] <= now}, "missed", next, now)
    /\ UNCHANGED <<file, syncer, world>>

\* mark_finished, its first statement: unconditional.
FinishUpdate(p) ==
    /\ executor.at = "close"
    /\ executor.pass = NoPass
    /\ p \in executor.todo
    /\ state' = [state EXCEPT ![p] = executor.verdict]
    /\ executor' = [executor EXCEPT !.pass = p, !.todo = @ \ {p}]
    /\ UNCHANGED <<generation, stored, history, synced, syncer, world>>

\* mark_finished, its second statement.
FinishHistory ==
    /\ executor.at = "close"
    /\ executor.pass # NoPass
    /\ history' = Append(history, [pass |-> executor.pass,
                                   state |-> executor.verdict])
    /\ Close(executor.todo, executor.verdict, executor.next, executor.clock)
    /\ UNCHANGED <<state, generation, stored, synced, syncer, world>>

\* next_due: the soonest pending plan whose window the tick's clock has not
\* passed.
NextDue(p) ==
    /\ Pending(p) /\ Los[p] > executor.clock
    /\ \A q \in Passes : Pending(q) /\ Los[q] > executor.clock => Aos[p] <= Aos[q]

\* The rest of tick: start it if its time has come, else wait.
Pick ==
    /\ executor.at = "pick"
    /\ \/ \E p \in Passes :
            /\ NextDue(p)
            /\ executor.clock >= Aos[p] - Lead
            /\ executor' = [NotWorking("claim") EXCEPT !.pass = p]
       \/ /\ \E p \in Passes : NextDue(p) /\ executor.clock < Aos[p] - Lead
          /\ executor' = NotWorking("tick")
       \/ /\ \A p \in Passes : ~NextDue(p)
          /\ executor' = NotWorking("tick")
    /\ UNCHANGED <<file, syncer, world>>

\* A claim that trusts what next_due has read.
ClaimUnchecked ==
    /\ executor.at = "claim"
    /\ state' = [state EXCEPT ![executor.pass] = "executing"]
    /\ executor' = [executor EXCEPT !.at = "started"]
    /\ UNCHANGED <<generation, stored, history, synced, syncer, world>>

\* mark_executing, its first statement: the plan must still be pending.
Claim ==
    /\ executor.at = "claim"
    /\ \/ /\ Pending(executor.pass)
          /\ state' = [state EXCEPT ![executor.pass] = "executing"]
          /\ executor' = [executor EXCEPT !.at = "started"]
       \/ /\ ~Pending(executor.pass)
          /\ executor' = NotWorking("tick")
          /\ UNCHANGED state
    /\ UNCHANGED <<generation, stored, history, synced, syncer, world>>

\* mark_executing, its second statement.
ClaimHistory ==
    /\ executor.at = "started"
    /\ history' = Append(history, [pass |-> executor.pass, state |-> "executing"])
    /\ executor' = [executor EXCEPT !.at = "run"]
    /\ UNCHANGED <<state, generation, stored, synced, syncer, world>>

\* The handler returns: a recording succeeds after its post-roll and not before,
\* and may fail, or raise, at any time.
Run(verdict) ==
    /\ executor.at = "run"
    /\ verdict = "completed" => now >= Los[executor.pass] + PostRoll
    /\ Close({executor.pass}, verdict, "tick", 0)
    /\ UNCHANGED <<file, syncer, world>>

Execute ==
    \/ RecoverInterrupted
    \/ ScanMissed("recovered", "tick")
    \/ ScanMissed("tick", "pick")
    \/ \E p \in Passes : FinishUpdate(p)
    \/ FinishHistory
    \/ Pick
    \/ Claim
    \/ ClaimHistory
    \/ Run("completed")
    \/ Run("failed")

-----------------------------------------------------------------------------
(* The sync thread: one _reconcile after the other.  A call that fails ends *)
(* the cycle, and the next one starts over.                                *)

\* report_outcomes: everything unsynced is sent in one call.
Report ==
    /\ syncer.at = "report"
    /\ synced < Len(history)
    /\ syncer' = [Listening("sending") EXCEPT !.batch = Len(history)]
    /\ UNCHANGED <<file, executor, world>>

\* ReportExecutions takes the records one after the other, each in a statement
\* of its own.  One it has processed before changes nothing.
ProcessRecord ==
    /\ syncer.at = "sending"
    /\ delivered < syncer.batch
    /\ delivered' = delivered + 1
    /\ UNCHANGED <<file, executor, syncer, now, crashes>>

\* By itself the module leaves open what the server does with the record:
\* Withdraw may follow.
RecordProcessed == ProcessRecord /\ UNCHANGED <<wanted, changes>>

ReportAnswered ==
    /\ syncer.at = "sending"
    /\ delivered >= syncer.batch
    /\ syncer' = [syncer EXCEPT !.at = "ack"]
    /\ UNCHANGED <<file, executor, world>>

NothingToReport ==
    /\ syncer.at = "report"
    /\ synced = Len(history)
    /\ syncer' = Listening("beat")
    /\ UNCHANGED <<file, executor, world>>

\* mark_history_synced of a thread that marks what the history holds by now.
MarkEverythingSynced ==
    /\ syncer.at = "ack"
    /\ synced' = Len(history)
    /\ syncer' = Listening("beat")
    /\ UNCHANGED <<state, generation, stored, history, executor, world>>

\* mark_history_synced that is one entry short.
MarkAllButLastSynced ==
    /\ syncer.at = "ack"
    /\ synced' = syncer.batch - 1
    /\ syncer' = Listening("beat")
    /\ UNCHANGED <<state, generation, stored, history, executor, world>>

\* mark_history_synced: exactly the entries that were sent.
MarkHistorySynced ==
    /\ syncer.at = "ack"
    /\ synced' = syncer.batch
    /\ syncer' = Listening("beat")
    /\ UNCHANGED <<state, generation, stored, history, executor, world>>

\* Heartbeat: is the set the worker holds the one the server would send?
Heartbeat ==
    /\ syncer.at = "beat"
    /\ syncer' = Listening(IF Served = stored THEN "report" ELSE "fetch")
    /\ UNCHANGED <<file, executor, world>>

\* SyncPassPlans: the whole current set, or that nothing has changed.
Fetch ==
    /\ syncer.at = "fetch"
    /\ syncer' = IF Served = stored THEN Listening("report")
                 ELSE [Listening("apply") EXCEPT !.set = Served]
    /\ UNCHANGED <<file, executor, world>>

\* replace_desired_state of a store that does not spare terminal states.
ReplaceEverything ==
    /\ syncer.at = "apply"
    /\ state' = [p \in Passes |->
                    IF syncer.set[p] # NoPlan THEN "received"
                    ELSE IF state[p] = "absent" THEN "absent" ELSE "cancelled"]
    /\ generation' = [p \in Passes |->
                    IF syncer.set[p] # NoPlan THEN syncer.set[p] ELSE generation[p]]
    /\ stored' = syncer.set
    /\ syncer' = Listening("report")
    /\ UNCHANGED <<history, synced, executor, world>>

\* replace_desired_state, one transaction: insert what is new, take over what
\* was generated anew, cancel what has vanished, spare what is terminal.
ReplaceDesiredState ==
    LET Added(p) == state[p] = "absent" /\ syncer.set[p] # NoPlan
        Open(p) == state[p] \notin TERMINAL_STATES \cup {"absent"}
        Updated(p) == Open(p) /\ syncer.set[p] \notin {NoPlan, generation[p]}
        Vanished(p) == Open(p) /\ syncer.set[p] = NoPlan
    IN  /\ syncer.at = "apply"
        /\ state' = [p \in Passes |->
                        IF Added(p) \/ Updated(p) THEN "received"
                        ELSE IF Vanished(p) THEN "cancelled" ELSE state[p]]
        /\ generation' = [p \in Passes |->
                        IF Added(p) \/ Updated(p) THEN syncer.set[p]
                        ELSE generation[p]]
        /\ stored' = syncer.set
        /\ syncer' = Listening("report")
        /\ UNCHANGED <<history, synced, executor, world>>

\* A call fails or its answer is lost, a statement or the transaction fails:
\* the cycle is over, and nothing of the step that failed has happened.
CycleFails ==
    /\ syncer.at \in {"sending", "ack", "beat", "fetch", "apply"}
    /\ syncer' = Listening("report")
    /\ UNCHANGED <<file, executor, world>>

Synchronize ==
    \/ Report
    \/ RecordProcessed
    \/ ReportAnswered
    \/ NothingToReport
    \/ MarkHistorySynced
    \/ Heartbeat
    \/ Fetch
    \/ ReplaceDesiredState
    \/ CycleFails

-----------------------------------------------------------------------------
(* The world.                                                              *)

\* The process dies and is started again: both threads start over.
Crash ==
    /\ crashes < MaxCrashes
    /\ crashes' = crashes + 1
    /\ executor' = NotWorking("recover")
    /\ syncer' = Listening("report")
    /\ UNCHANGED <<file, wanted, delivered, now, changes>>

\* The server approves a pass, or stores another plan for it.
Want(p, g) ==
    /\ changes < MaxChanges
    /\ changes' = changes + 1
    /\ wanted[p] \notin {g, Withdrawn}
    /\ wanted' = [wanted EXCEPT ![p] = g]
    /\ UNCHANGED <<file, executor, syncer, delivered, now, crashes>>

\* The pass is cancelled, or its outcome has reached the server.
Withdraw(p) ==
    /\ wanted[p] \in Generations
    /\ wanted' = [wanted EXCEPT ![p] = Withdrawn]
    /\ UNCHANGED <<file, executor, syncer, delivered, now, crashes, changes>>

Tick ==
    /\ now < MaxTime
    /\ now' = now + 1
    /\ UNCHANGED <<file, executor, syncer, wanted, delivered, crashes, changes>>

Next ==
    \/ Execute
    \/ Synchronize
    \/ Crash
    \/ \E p \in Passes, g \in Generations : Want(p, g)
    \/ \E p \in Passes : Withdraw(p)
    \/ Tick

Spec == Init /\ [][Next]_vars

\* The executor thread waits for nothing but time; the sync thread starts its
\* cycle over whatever happens; a report that is tried again and again gets
\* through and is marked.
FairSpec ==
    /\ Spec
    /\ WF_vars(Tick)
    /\ WF_vars(Execute)
    /\ WF_vars(Synchronize)
    /\ SF_vars(RecordProcessed)
    /\ SF_vars(ReportAnswered)
    /\ SF_vars(MarkHistorySynced)

-----------------------------------------------------------------------------
(* Properties.                                                             *)

ExecutorPoints == {"recover", "close", "recovered", "tick", "pick", "claim",
                   "started", "run"}
SyncerPoints == {"report", "sending", "ack", "beat", "fetch", "apply"}
Set == [Passes -> Generations \cup {NoPlan}]
Entry == [pass : Passes, state : Outcomes \cup {"executing"}]

\* Where a thread is decides what it holds: a pass while one is being run.
TypeOK ==
    /\ state \in [Passes -> ExecutionState \cup {"absent"}]
    /\ generation \in [Passes -> Generations \cup {NoPlan}]
    /\ stored \in Set \cup {NoSet}
    /\ history \in Seq(Entry)
    /\ synced \in 0 .. Len(history)
    /\ executor \in [at : ExecutorPoints, pass : Passes \cup {NoPass},
                     todo : SUBSET Passes, verdict : Outcomes \cup {""},
                     next : {"recovered", "tick", "pick", ""}, clock : Nat]
    /\ executor.at \in {"claim", "started", "run"} => executor.pass \in Passes
    /\ executor.at = "close" =>
          /\ executor.verdict \in Outcomes
          /\ executor.next # ""
          /\ executor.pass = NoPass => executor.todo # {}
    /\ syncer \in [at : SyncerPoints, batch : 0 .. Len(history),
                   set : Set \cup {NoSet}]
    /\ syncer.at = "apply" => syncer.set \in Set
    /\ wanted \in [Passes -> Generations \cup {NoPlan, Withdrawn}]
    /\ delivered \in 0 .. Len(history)
    /\ {now, crashes, changes} \subseteq Nat

\* Indices of the entries of the history that say p ended, or that it started.
OutcomesOf(p) ==
    {i \in 1 .. Len(history) : history[i].pass = p /\ history[i].state \in Outcomes}
StartsOf(p) ==
    {i \in 1 .. Len(history) : history[i].pass = p /\ history[i].state = "executing"}

\* A pass that completed, failed or was missed stays so, whatever is synchronized,
\* crashes or is scanned afterwards (replace_desired_state: "a completed or missed
\* pass is never resurrected by a resync").
OutcomeIsFinal ==
    [][\A p \in Passes : state[p] \in Outcomes => state'[p] = state[p]]_vars

\* A plan the sync thread has cancelled is never started, although the executor
\* may have read it as due before (the condition of mark_executing).
CancelledNeverStarts ==
    [][\A p \in Passes : state[p] = "cancelled" => state'[p] # "executing"]_vars

\* What is reported is what the store holds: an outcome in the history is the
\* state of the plan, and no pass has two (mark_finished, over restarts).
HistoryAgrees ==
    \A p \in Passes :
        /\ \A i \in OutcomesOf(p) : history[i].state = state[p]
        /\ \A i, j \in OutcomesOf(p) : i = j

\* No pass is started twice, a crash and a resync notwithstanding (recover: "do
\* not resume a pass that was interrupted, do not replay completed work").
NeverReplayed ==
    \A p \in Passes : \A i, j \in StartsOf(p) : i = j

\* An entry is marked as synced only once the server has processed it, however
\* the executor adds entries while a report is under way (report_outcomes).
SyncedWasDelivered == synced <= delivered

\* Every plan the store accepts is closed in the end, whatever the server does
\* and although the worker restarts (mark_missed_before: "how the Worker closes
\* out work it slept or crashed through").
EveryPlanIsClosed ==
    \A p \in Passes :
        state[p] \in {"received", "executing"} ~> state[p] \in TERMINAL_STATES

\* Again and again nothing is left to report, if the server can be reached again
\* and again ("so the Worker can report its history after a long outage").
EverythingIsReported == []<>(synced = Len(history))
=============================================================================
