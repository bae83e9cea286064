--------------------------- MODULE PlanStoreProofs --------------------------
(***************************************************************************)
(* Theorems about PlanStore, for any number of passes and generations, any *)
(* windows, and any bounds.                                                *)
(*                                                                         *)
(* There is a lemma for each part of the worker's next-state relation, so  *)
(* that a module that composes the worker with its server can cite them.   *)
(***************************************************************************)
EXTENDS PlanStore, SequenceTheorems, TLAPS

-----------------------------------------------------------------------------
(* The inductive invariant.                                                *)

\* The executor closes only passes that are there and have no outcome, and gives a pass its state
\* before its entry.
Closing ==
    /\ executor.at = "close" =>
          /\ \A p \in executor.todo : state[p] \notin Outcomes \cup {"absent"}
          /\ executor.pass # NoPass => /\ state[executor.pass] = executor.verdict
                                       /\ OutcomesOf(executor.pass) = {}
    /\ executor.at \in {"started", "run"} =>
          state[executor.pass] \notin Outcomes \cup {"absent"}

\* What is about to be marked as synced was processed.
Answered == syncer.at = "ack" => syncer.batch <= delivered

Inv ==
    /\ TypeOK
    /\ HistoryAgrees
    /\ Closing
    /\ SyncedWasDelivered
    /\ Answered

-----------------------------------------------------------------------------
(* Entries.                                                                *)

\* A new entry of the history, and what it adds.
LEMMA NewEntry ==
  ASSUME history \in Seq(Entry), NEW e \in Entry, history' = Append(history, e)
  PROVE  /\ history' \in Seq(Entry)
         /\ Len(history') = Len(history) + 1
         /\ \A i \in 1 .. Len(history) : history'[i] = history[i]
         /\ history'[Len(history) + 1] = e
  BY AppendProperties

\* An entry is an outcome of its pass or a start of it.
LEMMA NewOutcomes ==
  ASSUME history \in Seq(Entry), NEW e \in Entry, history' = Append(history, e), NEW p
  PROVE  /\ e.pass # p \/ e.state \notin Outcomes =>
                OutcomesOf(p)' = OutcomesOf(p)
         /\ e.pass = p /\ e.state \in Outcomes =>
                OutcomesOf(p)' = OutcomesOf(p) \cup {Len(history) + 1}
  BY NewEntry DEF OutcomesOf

\* A start that is added is the newest one of its pass.
LEMMA NewStarts ==
  ASSUME history \in Seq(Entry), NEW e \in Entry, history' = Append(history, e), NEW p
  PROVE  /\ e.pass # p \/ e.state # "executing" => StartsOf(p)' = StartsOf(p)
         /\ e.pass = p /\ e.state = "executing" =>
                StartsOf(p)' = StartsOf(p) \cup {Len(history) + 1}
  BY NewEntry DEF StartsOf

\* Without a new entry nothing changes in them.
LEMMA SameEntries ==
  ASSUME UNCHANGED history, NEW p
  PROVE  OutcomesOf(p)' = OutcomesOf(p) /\ StartsOf(p)' = StartsOf(p)
  BY DEF OutcomesOf, StartsOf

\* A pass without an outcome has none in the history.
LEMMA NoOutcomeYet ==
  ASSUME TypeOK, HistoryAgrees, NEW p \in Passes, state[p] \notin Outcomes
  PROVE  OutcomesOf(p) = {}
  BY DEF HistoryAgrees, OutcomesOf

\* States may change where there is no outcome yet.
LEMMA StillAgrees ==
  ASSUME HistoryAgrees, UNCHANGED history,
         \A p \in Passes : state'[p] = state[p] \/ OutcomesOf(p) = {}
  PROVE  HistoryAgrees'
  BY SameEntries DEF HistoryAgrees

\* Where a thread is that holds nothing.
LEMMA Points ==
  ASSUME NEW at
  PROVE  NotWorking(at).at = at /\ Listening(at).at = at
  BY DEF NotWorking, Listening

-----------------------------------------------------------------------------
(* The executor.                                                           *)

\* Where the executor may be, and what it then holds.
ExecutorType ==
    /\ executor \in [at : ExecutorPoints, pass : Passes \cup {NoPass},
                     todo : SUBSET Passes, verdict : Outcomes \cup {""},
                     next : {"recovered", "tick", "pick", ""}, clock : Nat]
    /\ executor.at \in {"claim", "started", "run"} => executor.pass \in Passes
    /\ executor.at = "close" =>
          /\ executor.verdict \in Outcomes
          /\ executor.next # ""
          /\ executor.pass = NoPass => executor.todo # {}

\* What no step of the executor touches.
Untouched == UNCHANGED <<generation, stored, synced, syncer, world>>

\* The executor changes states, adds an entry or none, and keeps its own types.
LEMMA ExecutorKeepsType ==
  ASSUME TypeOK, Untouched, ExecutorType',
         state' \in [Passes -> ExecutionState \cup {"absent"}],
         UNCHANGED history \/ \E e \in Entry : history' = Append(history, e)
  PROVE  TypeOK'
  <1>0. history \in Seq(Entry) /\ Len(history) \in Nat
    <2>1. history \in Seq(Entry)
      BY DEF TypeOK
    <2> QED BY <2>1, LenProperties
  <1>1. history' \in Seq(Entry) /\ Len(history') \in Nat /\ Len(history') >= Len(history)
    <2>1. CASE UNCHANGED history
      BY <1>0, <2>1
    <2>2. ASSUME NEW e \in Entry, history' = Append(history, e)
          PROVE  history' \in Seq(Entry) /\ Len(history') \in Nat /\ Len(history') >= Len(history)
      BY <1>0, <2>2, NewEntry
    <2> QED BY <2>1, <2>2
  <1>2. synced' \in 0 .. Len(history') /\ delivered' \in 0 .. Len(history')
    <2>1. synced \in 0 .. Len(history) /\ delivered \in 0 .. Len(history)
      BY DEF TypeOK
    <2>2. UNCHANGED <<synced, delivered>>
      BY DEF Untouched, world
    <2> QED BY <1>0, <1>1, <2>1, <2>2
  <1>3. syncer' \in [at : SyncerPoints, batch : 0 .. Len(history'), set : Set \cup {NoSet}]
    <2>1. syncer \in [at : SyncerPoints, batch : 0 .. Len(history), set : Set \cup {NoSet}]
      BY DEF TypeOK
    <2>2. UNCHANGED syncer
      BY DEF Untouched
    <2>3. 0 .. Len(history) \subseteq 0 .. Len(history')
      BY <1>0, <1>1
    <2> QED BY <2>1, <2>2, <2>3
  <1>4. /\ UNCHANGED <<generation, stored, wanted, now, crashes, changes>>
        /\ syncer'.at = "apply" => syncer'.set \in Set
    BY DEF Untouched, world, TypeOK
  <1> QED BY <1>1, <1>2, <1>3, <1>4 DEF TypeOK, ExecutorType

\* The sync thread's half of the invariant is not the executor's business.
LEMMA ExecutorKeepsReports ==
  ASSUME Inv, Untouched
  PROVE  SyncedWasDelivered' /\ Answered'
  BY DEF Inv, SyncedWasDelivered, Answered, Untouched, world

\* A list of passes without an outcome is to be closed.
LEMMA CloseType ==
  ASSUME TypeOK, NEW S \in SUBSET Passes, NEW v \in Outcomes,
         NEW n \in {"recovered", "tick", "pick"}, NEW c \in Nat, Close(S, v, n, c)
  PROVE  /\ ExecutorType'
         /\ executor'.at \in {"close", n}
         /\ executor'.at = "close" => executor'.todo = S /\ executor'.pass = NoPass
  BY DEF Close, ExecutorType, ExecutorPoints, Outcomes

\* What is to be closed has no outcome yet.
LEMMA CloseStep ==
  ASSUME Inv, UNCHANGED <<file, syncer, world>>,
         NEW S \in SUBSET Passes, \A p \in S : state[p] \notin Outcomes \cup {"absent"},
         NEW v \in Outcomes, NEW n \in {"recovered", "tick", "pick"}, NEW c \in Nat,
         Close(S, v, n, c)
  PROVE  Inv'
  <1>1. Untouched /\ UNCHANGED <<state, history>>
    BY DEF file, Untouched
  <1>2. TypeOK'
    <2>1. TypeOK /\ ExecutorType'
      BY CloseType DEF Inv
    <2>2. state' \in [Passes -> ExecutionState \cup {"absent"}]
      BY <1>1, <2>1 DEF TypeOK
    <2> QED BY <1>1, <2>1, <2>2, ExecutorKeepsType
  <1>3. HistoryAgrees'
    BY <1>1, StillAgrees DEF Inv
  <1>4. Closing'
    BY <1>1, CloseType DEF Inv, Closing
  <1> QED BY <1>1, <1>2, <1>3, <1>4, ExecutorKeepsReports DEF Inv

\* mark_finished, the plan: the pass has its outcome and no entry of it yet.
LEMMA FinishUpdateStep ==
  ASSUME Inv, NEW p \in Passes, FinishUpdate(p)
  PROVE  Inv'
  <1>1. /\ executor.at = "close" /\ executor.pass = NoPass /\ p \in executor.todo
        /\ executor.verdict \in Outcomes
        /\ state[p] \notin Outcomes
    BY DEF FinishUpdate, Inv, TypeOK, Closing
  <1>2. /\ Untouched /\ UNCHANGED history
        /\ state' = [state EXCEPT ![p] = executor.verdict]
        /\ executor' = [executor EXCEPT !.pass = p, !.todo = @ \ {p}]
    BY DEF FinishUpdate, Untouched
  <1>3. p # NoPass
    BY WorkerValueAssumption
  <1>4. state' \in [Passes -> ExecutionState \cup {"absent"}]
    BY <1>1, <1>2 DEF Inv, TypeOK, ExecutionState, TERMINAL_STATES, Outcomes
  <1>5. ExecutorType'
    BY <1>1, <1>2, <1>3 DEF Inv, TypeOK, ExecutorType
  <1>6. TypeOK'
    BY <1>2, <1>4, <1>5, ExecutorKeepsType DEF Inv
  <1>7. OutcomesOf(p) = {}
    BY <1>1, NoOutcomeYet DEF Inv
  <1>8. HistoryAgrees'
    <2>1. \A q \in Passes : state'[q] = state[q] \/ OutcomesOf(q) = {}
      BY <1>2, <1>7 DEF Inv, TypeOK
    <2> QED BY <1>2, <2>1, StillAgrees DEF Inv
  <1>9. Closing'
    BY <1>1, <1>2, <1>3, <1>7, SameEntries DEF Inv, TypeOK, Closing
  <1> QED BY <1>2, <1>6, <1>8, <1>9, ExecutorKeepsReports DEF Inv

\* mark_finished, the history: the entry is the outcome the plan already shows.
LEMMA FinishHistoryStep ==
  ASSUME Inv, FinishHistory
  PROVE  Inv'
  <1> DEFINE e == [pass |-> executor.pass, state |-> executor.verdict]
  <1>1. /\ executor.at = "close" /\ executor.verdict \in Outcomes /\ executor.clock \in Nat
        /\ executor.pass \in Passes /\ executor.todo \in SUBSET Passes
        /\ executor.next \in {"recovered", "tick", "pick"}
        /\ state[executor.pass] = executor.verdict
        /\ OutcomesOf(executor.pass) = {}
        /\ \A p \in executor.todo : state[p] \notin Outcomes \cup {"absent"}
    BY DEF FinishHistory, Inv, TypeOK, Closing
  <1>2. /\ Untouched /\ UNCHANGED state /\ history' = Append(history, e)
        /\ Close(executor.todo, executor.verdict, executor.next, executor.clock)
    BY DEF FinishHistory, Untouched
  <1>3. e \in Entry /\ history \in Seq(Entry)
    BY <1>1 DEF Entry, Inv, TypeOK
  <1>4. TypeOK'
    <2>1. TypeOK /\ state \in [Passes -> ExecutionState \cup {"absent"}]
      BY DEF Inv, TypeOK
    <2>2. ExecutorType'
      BY <1>1, <1>2, <2>1, CloseType
    <2> HIDE DEF e
    <2> QED BY <1>2, <1>3, <2>1, <2>2, ExecutorKeepsType
  <1>5. HistoryAgrees'
    <2> SUFFICES ASSUME NEW p \in Passes
                 PROVE  /\ \A i \in OutcomesOf(p)' : history'[i].state = state'[p]
                        /\ \A i, j \in OutcomesOf(p)' : i = j
      BY DEF HistoryAgrees
    <2> HIDE DEF e
    <2>1. CASE p = executor.pass
      <3>1. OutcomesOf(p)' = {Len(history) + 1}
        BY <1>1, <1>2, <1>3, <2>1, NewOutcomes DEF e
      <3>2. history'[Len(history) + 1].state = executor.verdict
        BY <1>2, <1>3, NewEntry DEF e
      <3> QED BY <1>1, <1>2, <2>1, <3>1, <3>2
    <2>2. CASE p # executor.pass
      <3>1. OutcomesOf(p)' = OutcomesOf(p)
        BY <1>2, <1>3, <2>2, NewOutcomes DEF e
      <3>2. \A i \in OutcomesOf(p) : history'[i] = history[i]
        BY <1>2, <1>3, NewEntry DEF OutcomesOf
      <3> QED BY <1>2, <3>1, <3>2 DEF Inv, HistoryAgrees
    <2> QED BY <2>1, <2>2
  <1>6. Closing'
    BY <1>1, <1>2, CloseType DEF Inv, Closing
  <1> QED BY <1>2, <1>4, <1>5, <1>6, ExecutorKeepsReports DEF Inv

\* The executor goes on without having written anything.
LEMMA MoveStep ==
  ASSUME Inv, UNCHANGED <<file, syncer, world>>, ExecutorType',
         executor'.at \notin {"close", "started", "run"}
  PROVE  Inv'
  <1>1. Untouched /\ UNCHANGED <<state, history>>
    BY DEF file, Untouched
  <1>2. TypeOK'
    <2>1. TypeOK /\ state' \in [Passes -> ExecutionState \cup {"absent"}]
      BY <1>1 DEF Inv, TypeOK
    <2> QED BY <1>1, <2>1, ExecutorKeepsType
  <1>3. HistoryAgrees' /\ Closing'
    BY <1>1, StillAgrees DEF Inv, Closing
  <1> QED BY <1>1, <1>2, <1>3, ExecutorKeepsReports DEF Inv

\* The choice of a due pass promises nothing about it.
LEMMA PickStep ==
  ASSUME Inv, Pick
  PROVE  Inv'
  <1>1. UNCHANGED <<file, syncer, world>>
    BY DEF Pick
  <1>2. \/ \E p \in Passes : executor' = [NotWorking("claim") EXCEPT !.pass = p]
        \/ executor' = NotWorking("tick")
    BY DEF Pick
  <1>3. ExecutorType' /\ executor'.at \in {"claim", "tick"}
    <2>1. ASSUME NEW p \in Passes, executor' = [NotWorking("claim") EXCEPT !.pass = p]
          PROVE  ExecutorType' /\ executor'.at = "claim"
      BY <2>1 DEF ExecutorType, NotWorking, ExecutorPoints
    <2>2. ASSUME executor' = NotWorking("tick")
          PROVE  ExecutorType' /\ executor'.at = "tick"
      BY <2>2 DEF ExecutorType, NotWorking, ExecutorPoints
    <2> QED BY <1>2, <2>1, <2>2
  <1> QED BY <1>1, <1>3, MoveStep

\* mark_executing, the plan: only a pass without an outcome is taken up.
LEMMA ClaimStep ==
  ASSUME Inv, Claim
  PROVE  Inv'
  <1>1. /\ executor.at = "claim" /\ executor.pass \in Passes
        /\ executor \in [at : ExecutorPoints, pass : Passes \cup {NoPass},
                         todo : SUBSET Passes, verdict : Outcomes \cup {""},
                         next : {"recovered", "tick", "pick", ""}, clock : Nat]
        /\ state \in [Passes -> ExecutionState \cup {"absent"}]
        /\ TypeOK
    BY DEF Claim, Inv, TypeOK
  <1>2. Untouched /\ UNCHANGED history
    BY DEF Claim, Untouched
  <1>3. CASE /\ Pending(executor.pass)
             /\ state' = [state EXCEPT ![executor.pass] = "executing"]
             /\ executor' = [executor EXCEPT !.at = "started"]
    <2>1. ExecutorType'
      BY <1>1, <1>3 DEF ExecutorType, ExecutorPoints
    <2>2. state' \in [Passes -> ExecutionState \cup {"absent"}]
      BY <1>1, <1>3 DEF ExecutionState
    <2>3. TypeOK'
      BY <1>1, <1>2, <2>1, <2>2, ExecutorKeepsType
    <2>4. \A q \in Passes : state'[q] = state[q] \/ OutcomesOf(q) = {}
      <3>1. state[executor.pass] \notin Outcomes
        BY <1>3 DEF Pending, PENDING_STATES, Outcomes
      <3> QED BY <1>1, <1>3, <3>1, NoOutcomeYet DEF Inv
    <2>5. HistoryAgrees'
      BY <1>2, <2>4, StillAgrees DEF Inv
    <2>6. Closing'
      BY <1>1, <1>3 DEF Closing, Outcomes
    <2> QED BY <1>2, <2>3, <2>5, <2>6, ExecutorKeepsReports DEF Inv
  <1>4. CASE executor' = NotWorking("tick") /\ UNCHANGED state
    <2>1. ExecutorType' /\ executor'.at = "tick"
      BY <1>4 DEF ExecutorType, NotWorking, ExecutorPoints
    <2>2. UNCHANGED <<file, syncer, world>>
      BY <1>2, <1>4 DEF Untouched, file
    <2> QED BY <2>1, <2>2, MoveStep
  <1> QED BY <1>3, <1>4 DEF Claim

\* mark_executing, the history: a start is not an outcome.
LEMMA ClaimHistoryStep ==
  ASSUME Inv, ClaimHistory
  PROVE  Inv'
  <1> DEFINE e == [pass |-> executor.pass, state |-> "executing"]
  <1>1. /\ executor.at = "started" /\ executor.pass \in Passes
        /\ executor \in [at : ExecutorPoints, pass : Passes \cup {NoPass},
                         todo : SUBSET Passes, verdict : Outcomes \cup {""},
                         next : {"recovered", "tick", "pick", ""}, clock : Nat]
        /\ state \in [Passes -> ExecutionState \cup {"absent"}]
        /\ history \in Seq(Entry)
        /\ TypeOK
    BY DEF ClaimHistory, Inv, TypeOK
  <1>2. /\ Untouched /\ UNCHANGED state /\ history' = Append(history, e)
        /\ executor' = [executor EXCEPT !.at = "run"]
    BY DEF ClaimHistory, Untouched
  <1>3. e \in Entry /\ e.state \notin Outcomes
    BY <1>1 DEF Entry, Outcomes
  <1>4. ExecutorType'
    BY <1>1, <1>2 DEF ExecutorType, ExecutorPoints
  <1> HIDE DEF e
  <1>5. TypeOK'
    BY <1>1, <1>2, <1>3, <1>4, ExecutorKeepsType
  <1>6. HistoryAgrees'
    <2>1. \A p \in Passes : OutcomesOf(p)' = OutcomesOf(p)
      BY <1>1, <1>2, <1>3, NewOutcomes
    <2>2. \A p \in Passes : \A i \in OutcomesOf(p) : history'[i] = history[i]
      BY <1>1, <1>2, <1>3, NewEntry DEF OutcomesOf
    <2> QED BY <1>2, <2>1, <2>2 DEF Inv, HistoryAgrees
  <1>7. Closing'
    BY <1>1, <1>2 DEF Inv, Closing
  <1> QED BY <1>2, <1>5, <1>6, <1>7, ExecutorKeepsReports DEF Inv

\* Whatever the executor does, and whatever the sync thread did before.
LEMMA ExecuteStep ==
  ASSUME Inv, Execute
  PROVE  Inv'
  <1>0. now \in Nat
    BY DEF Inv, TypeOK
  <1>1. CASE RecoverInterrupted
    <2> DEFINE S == {p \in Passes : state[p] = "executing"}
    <2>1. S \in SUBSET Passes /\ \A p \in S : state[p] \notin Outcomes \cup {"absent"}
      BY DEF Outcomes
    <2>2. Close(S, "failed", "recovered", 0) /\ UNCHANGED <<file, syncer, world>>
      BY <1>1 DEF RecoverInterrupted
    <2> HIDE DEF S
    <2> QED BY <2>1, <2>2, CloseStep DEF Outcomes
  <1>2. ASSUME NEW from, NEW next \in {"tick", "pick"}, ScanMissed(from, next)
        PROVE  Inv'
    <2> DEFINE S == {p \in Passes : Pending(p) /\ Los[p] <= now}
    <2>1. S \in SUBSET Passes /\ \A p \in S : state[p] \notin Outcomes \cup {"absent"}
      BY DEF Outcomes, Pending, PENDING_STATES
    <2>2. Close(S, "missed", next, now) /\ UNCHANGED <<file, syncer, world>>
      BY <1>2 DEF ScanMissed
    <2> HIDE DEF S
    <2> QED BY <1>0, <2>1, <2>2, CloseStep DEF Outcomes
  <1>3. ASSUME NEW v \in {"completed", "failed"}, Run(v)
        PROVE  Inv'
    <2>1. executor.at = "run" /\ Close({executor.pass}, v, "tick", 0)
          /\ UNCHANGED <<file, syncer, world>>
      BY <1>3 DEF Run
    <2>2. executor.pass \in Passes /\ state[executor.pass] \notin Outcomes \cup {"absent"}
      BY <2>1 DEF Inv, TypeOK, Closing
    <2> QED BY <2>1, <2>2, CloseStep DEF Outcomes
  <1> QED BY <1>1, <1>2, <1>3, FinishUpdateStep, FinishHistoryStep, PickStep, ClaimStep,
             ClaimHistoryStep DEF Execute

-----------------------------------------------------------------------------
(* The sync thread.                                                        *)

\* Where the sync thread may be, and what it then holds.
SyncerType ==
    /\ syncer \in [at : SyncerPoints, batch : 0 .. Len(history), set : Set \cup {NoSet}]
    /\ syncer.at = "apply" => syncer.set \in Set

\* Steps that leave the store alone, but for what the sync thread marks there.
LEMMA SyncerMoves ==
  ASSUME Inv, UNCHANGED <<state, generation, stored, history, executor>>,
         UNCHANGED <<wanted, now, crashes, changes>>,
         SyncerType', synced' \in 0 .. Len(history), delivered' \in 0 .. Len(history),
         synced' <= delivered', Answered'
  PROVE  Inv'
  <1>1. TypeOK'
    BY DEF Inv, TypeOK, SyncerType
  <1>2. HistoryAgrees'
    BY StillAgrees DEF Inv
  <1>3. Closing'
    BY SameEntries DEF Inv, Closing
  <1> QED BY <1>1, <1>2, <1>3 DEF Inv, SyncedWasDelivered

\* What TypeOK says of the numbers of entries.
LEMMA Numbers ==
  ASSUME Inv
  PROVE  /\ history \in Seq(Entry) /\ Len(history) \in Nat
         /\ synced \in 0 .. Len(history) /\ delivered \in 0 .. Len(history)
         /\ syncer.batch \in 0 .. Len(history)
         /\ synced <= delivered
         /\ SyncerType
  <1>1. history \in Seq(Entry) /\ synced \in 0 .. Len(history) /\ delivered \in 0 .. Len(history)
        /\ synced <= delivered /\ SyncerType
    BY DEF Inv, TypeOK, SyncerType, SyncedWasDelivered
  <1> QED BY <1>1, LenProperties DEF SyncerType

\* The sync thread listens again, with or without a batch and a set.
LEMMA ListeningStep ==
  ASSUME Inv, UNCHANGED <<file, executor, world>>, SyncerType', Answered'
  PROVE  Inv'
  <1>1. UNCHANGED <<state, generation, stored, history, executor>>
        /\ UNCHANGED <<wanted, now, crashes, changes>> /\ UNCHANGED <<synced, delivered>>
    BY DEF file, world
  <1> QED BY <1>1, Numbers, SyncerMoves

\* The set the server sends.
LEMMA ServedIsASet == Served \in Set
  BY DEF Served, Set

\* The batch that is sent ends where the history does.
LEMMA ReportStep ==
  ASSUME Inv, Report
  PROVE  Inv'
  <1>1. /\ UNCHANGED <<file, executor, world>> /\ UNCHANGED history
        /\ syncer' = [Listening("sending") EXCEPT !.batch = Len(history)]
    BY DEF Report, file
  <1>2. SyncerType' /\ Answered'
    BY <1>1, Numbers DEF SyncerType, Listening, SyncerPoints, Answered
  <1> QED BY <1>1, <1>2, ListeningStep

\* A record is processed, whatever the server then wants.
LEMMA ProcessRecordStep ==
  ASSUME Inv, ProcessRecord, UNCHANGED changes,
         wanted' \in [Passes -> Generations \cup {NoPlan, Withdrawn}]
  PROVE  Inv'
  <1>1. /\ UNCHANGED <<state, generation, stored, history, synced, executor, syncer>>
        /\ UNCHANGED <<now, crashes>>
        /\ delivered < syncer.batch /\ delivered' = delivered + 1
        /\ syncer.at = "sending"
    BY DEF ProcessRecord, file
  <1>2. delivered' \in 0 .. Len(history) /\ synced' <= delivered'
    BY <1>1, Numbers
  <1>3. TypeOK'
    BY <1>1, <1>2 DEF Inv, TypeOK
  <1>4. HistoryAgrees' /\ Closing'
    BY <1>1, StillAgrees, SameEntries DEF Inv, Closing
  <1> QED BY <1>1, <1>2, <1>3, <1>4 DEF Inv, SyncedWasDelivered, Answered

\* The answer comes when the whole batch was processed.
LEMMA ReportAnsweredStep ==
  ASSUME Inv, ReportAnswered
  PROVE  Inv'
  <1>1. /\ UNCHANGED <<file, executor, world>> /\ UNCHANGED <<history, delivered>>
        /\ delivered >= syncer.batch
        /\ syncer' = [syncer EXCEPT !.at = "ack"]
    BY DEF ReportAnswered, file, world
  <1>2. SyncerType' /\ Answered'
    BY <1>1, Numbers DEF SyncerType, SyncerPoints, Answered
  <1> QED BY <1>1, <1>2, ListeningStep

\* What is marked was answered, whatever was appended since.
LEMMA MarkHistorySyncedStep ==
  ASSUME Inv, MarkHistorySynced
  PROVE  Inv'
  <1>1. /\ UNCHANGED <<state, generation, stored, history, executor>>
        /\ UNCHANGED <<wanted, now, crashes, changes>> /\ UNCHANGED delivered
        /\ syncer.at = "ack" /\ synced' = syncer.batch
        /\ syncer' = Listening("beat")
    BY DEF MarkHistorySynced, world
  <1>2. synced' <= delivered' /\ synced' \in 0 .. Len(history)
    BY <1>1, Numbers DEF Inv, Answered
  <1>3. SyncerType' /\ Answered'
    BY <1>1, Numbers DEF SyncerType, Listening, SyncerPoints, Answered
  <1> QED BY <1>1, <1>2, <1>3, Numbers, SyncerMoves

\* The steps after which there is neither a batch nor a set.
LEMMA ListenStep ==
  ASSUME Inv, UNCHANGED <<file, executor, world>>,
         NEW at \in {"report", "beat", "fetch"}, syncer' = Listening(at)
  PROVE  Inv'
  <1>1. UNCHANGED history
    BY DEF file
  <1>2. SyncerType' /\ Answered'
    BY <1>1, Numbers DEF SyncerType, Listening, SyncerPoints, Answered
  <1> QED BY <1>2, ListeningStep

\* The heartbeat leaves the records alone.
LEMMA HeartbeatStep ==
  ASSUME Inv, Heartbeat
  PROVE  Inv'
  BY ListenStep DEF Heartbeat

\* The set that is fetched is the one served.
LEMMA FetchStep ==
  ASSUME Inv, Fetch
  PROVE  Inv'
  <1>1. UNCHANGED <<file, executor, world>> /\ UNCHANGED history
    BY DEF Fetch, file
  <1>2. CASE syncer' = Listening("report")
    BY <1>1, <1>2, ListenStep
  <1>3. CASE syncer' = [Listening("apply") EXCEPT !.set = Served]
    <2>1. SyncerType' /\ Answered'
      BY <1>1, <1>3, Numbers, ServedIsASet DEF SyncerType, Listening, SyncerPoints, Answered
    <2> QED BY <1>1, <2>1, ListeningStep
  <1> QED BY <1>2, <1>3 DEF Fetch

-----------------------------------------------------------------------------
(* What becomes of a pass.                                                 *)

Closed(p) == executor.at = "close" /\ p \in executor.todo /\ state'[p] = executor.verdict
Started(p) == /\ executor.at = "claim" /\ executor.pass = p /\ Pending(p)
              /\ state'[p] = "executing"
Accepted(p) == state[p] = "absent" /\ state'[p] = "received" /\ syncer.set[p] # NoPlan
Renewed(p) == /\ state[p] \in PENDING_STATES \cup {"executing"} /\ state'[p] = "received"
              /\ generation'[p] # generation[p] /\ generation'[p] # NoPlan
Dropped(p) == state[p] \in PENDING_STATES \cup {"executing"} /\ state'[p] = "cancelled"

\* The executor closes passes and starts them.
LEMMA ExecuteChanges ==
  ASSUME Inv, Execute, NEW p \in Passes
  PROVE  UNCHANGED generation /\ (state'[p] = state[p] \/ Closed(p) \/ Started(p))
  <1>1. state \in [Passes -> ExecutionState \cup {"absent"}]
    BY DEF Inv, TypeOK
  <1>2. ASSUME UNCHANGED file
        PROVE  UNCHANGED generation /\ state'[p] = state[p]
    BY <1>2 DEF file
  <1>3. ASSUME NEW q \in Passes, FinishUpdate(q)
        PROVE  UNCHANGED generation /\ (state'[p] = state[p] \/ Closed(p))
    BY <1>1, <1>3 DEF FinishUpdate, Closed
  <1>4. ASSUME FinishHistory \/ ClaimHistory
        PROVE  UNCHANGED generation /\ state'[p] = state[p]
    BY <1>4 DEF FinishHistory, ClaimHistory
  <1>5. ASSUME Claim
        PROVE  UNCHANGED generation /\ (state'[p] = state[p] \/ Started(p))
    BY <1>1, <1>5 DEF Claim, Started
  <1> QED BY <1>2, <1>3, <1>4, <1>5 DEF Execute, RecoverInterrupted, ScanMissed, Pick, Run

\* The sync thread accepts, renews and drops passes.
LEMMA ReplaceChanges ==
  ASSUME Inv, ReplaceDesiredState, NEW p \in Passes
  PROVE  \/ state'[p] = state[p] /\ generation'[p] = generation[p]
         \/ Accepted(p) /\ generation'[p] = syncer.set[p]
         \/ Renewed(p)
         \/ Dropped(p) /\ generation'[p] = generation[p]
  <1>1. state[p] \in ExecutionState \cup {"absent"}
    BY DEF Inv, TypeOK
  <1> QED BY <1>1 DEF ReplaceDesiredState, ExecutionState, TERMINAL_STATES, PENDING_STATES,
             Accepted, Renewed, Dropped

\* A set that was applied is of the type of the store.
LEMMA ReplaceType ==
  ASSUME TypeOK, ReplaceDesiredState
  PROVE  /\ state' \in [Passes -> ExecutionState \cup {"absent"}]
         /\ generation' \in [Passes -> Generations \cup {NoPlan}]
  <1>1. /\ state \in [Passes -> ExecutionState \cup {"absent"}]
        /\ generation \in [Passes -> Generations \cup {NoPlan}]
        /\ syncer.set \in [Passes -> Generations \cup {NoPlan}]
    BY DEF TypeOK, ReplaceDesiredState, Set
  <1> QED BY <1>1 DEF ReplaceDesiredState, ExecutionState, TERMINAL_STATES, PENDING_STATES

\* replace_desired_state leaves every outcome alone, and what is being closed too.
LEMMA ReplaceStep ==
  ASSUME Inv, ReplaceDesiredState
  PROVE  Inv'
  <1>1. /\ UNCHANGED <<history, synced, executor, world>> /\ UNCHANGED delivered
        /\ syncer.set \in Set /\ stored' = syncer.set /\ syncer' = Listening("report")
    BY DEF Inv, TypeOK, ReplaceDesiredState, world
  <1>2. SyncerType' /\ Answered'
    BY <1>1, Numbers DEF SyncerType, Listening, SyncerPoints, Answered
  <1>3. TypeOK'
    <2>1. UNCHANGED <<wanted, now, crashes, changes>>
      BY <1>1 DEF world
    <2>2. stored' \in Set \cup {NoSet}
      BY <1>1
    <2> QED BY <1>1, <1>2, <2>1, <2>2, ReplaceType DEF Inv, TypeOK, SyncerType
  <1>4. \A p \in Passes :
           /\ state[p] \in Outcomes \/ state'[p] \in Outcomes => state'[p] = state[p]
           /\ state'[p] = "absent" => state[p] = "absent"
    BY ReplaceChanges DEF Accepted, Renewed, Dropped, Outcomes, PENDING_STATES
  <1>5. HistoryAgrees'
    <2>1. \A p \in Passes : state'[p] = state[p] \/ OutcomesOf(p) = {}
      BY <1>4, NoOutcomeYet DEF Inv
    <2> QED BY <1>1, <2>1, StillAgrees DEF Inv
  <1>6. Closing'
    <2>1. executor.at = "close" /\ executor.pass # NoPass => executor.pass \in Passes
      BY DEF Inv, TypeOK
    <2>2. executor.at \in {"started", "run"} => executor.pass \in Passes
      BY DEF Inv, TypeOK
    <2>3. executor.at = "close" => executor.todo \subseteq Passes /\ executor.verdict \in Outcomes
      BY DEF Inv, TypeOK
    <2> QED BY <1>1, <1>4, <2>1, <2>2, <2>3, SameEntries DEF Inv, Closing
  <1>7. SyncedWasDelivered'
    BY <1>1, Numbers DEF SyncedWasDelivered
  <1> QED BY <1>2, <1>3, <1>5, <1>6, <1>7 DEF Inv

-----------------------------------------------------------------------------
(* The world.                                                              *)

\* What happens around the worker does not touch its records.
LEMMA WorldStep ==
  ASSUME Inv, UNCHANGED <<file, executor, syncer, delivered>>,
         now' \in Nat, crashes' \in Nat, changes' \in Nat,
         wanted' \in [Passes -> Generations \cup {NoPlan, Withdrawn}]
  PROVE  Inv'
  <1>1. UNCHANGED <<state, generation, stored, history, synced, executor, syncer, delivered>>
    BY DEF file
  <1>2. TypeOK'
    BY <1>1 DEF Inv, TypeOK
  <1>3. HistoryAgrees' /\ Closing'
    BY <1>1, StillAgrees, SameEntries DEF Inv, Closing
  <1> QED BY <1>1, <1>2, <1>3 DEF Inv, SyncedWasDelivered, Answered

\* A crash between the two statements leaves a state without its entry, never two entries.
LEMMA CrashStep ==
  ASSUME Inv, Crash
  PROVE  Inv'
  <1>1. /\ UNCHANGED <<state, generation, stored, history, synced, wanted, delivered, now, changes>>
        /\ executor' = NotWorking("recover") /\ syncer' = Listening("report")
        /\ crashes \in Nat /\ crashes' = crashes + 1
    BY DEF Crash, file, Inv, TypeOK
  <1>2. ExecutorType' /\ executor'.at = "recover"
    BY <1>1 DEF ExecutorType, NotWorking, ExecutorPoints
  <1>3. SyncerType' /\ Answered'
    BY <1>1, Numbers DEF SyncerType, Listening, SyncerPoints, Answered
  <1>4. TypeOK'
    <2>1. crashes' \in Nat
      BY <1>1
    <2> QED BY <1>1, <1>2, <1>3, <2>1 DEF Inv, TypeOK, ExecutorType, SyncerType
  <1>5. HistoryAgrees'
    BY <1>1, StillAgrees DEF Inv
  <1>6. Closing'
    BY <1>2 DEF Closing
  <1>7. SyncedWasDelivered'
    BY <1>1, Numbers DEF SyncedWasDelivered
  <1> QED BY <1>3, <1>4, <1>5, <1>6, <1>7 DEF Inv

\* Whatever the sync thread does.
LEMMA SynchronizeStep ==
  ASSUME Inv, Synchronize
  PROVE  Inv'
  <1>1. CASE RecordProcessed
    <2>1. ProcessRecord /\ UNCHANGED changes /\ UNCHANGED wanted
      BY <1>1 DEF RecordProcessed
    <2>2. wanted' \in [Passes -> Generations \cup {NoPlan, Withdrawn}]
      BY <2>1 DEF Inv, TypeOK
    <2> QED BY <2>1, <2>2, ProcessRecordStep
  <1>2. CASE NothingToReport
    BY <1>2, ListenStep DEF NothingToReport
  <1>3. CASE CycleFails
    BY <1>3, ListenStep DEF CycleFails
  <1> QED BY <1>1, <1>2, <1>3, ReportStep, ReportAnsweredStep, MarkHistorySyncedStep,
             HeartbeatStep, FetchStep, ReplaceStep DEF Synchronize

\* An empty store.
LEMMA InitInv == Init => Inv
  <1> SUFFICES ASSUME Init
               PROVE  Inv
    OBVIOUS
  <1>1. history = <<>> /\ history \in Seq(Entry) /\ Len(history) = 0
    BY DEF Init
  <1>2. ExecutorType
    BY DEF Init, ExecutorType, NotWorking, ExecutorPoints
  <1>3. SyncerType
    <2>1. 0 \in 0 .. Len(history)
      BY <1>1
    <2> QED BY <2>1 DEF Init, SyncerType, Listening, SyncerPoints
  <1>4. TypeOK
    <2>1. 0 \in 0 .. Len(history)
      BY <1>1
    <2>2. {now, crashes, changes} \subseteq Nat
      BY DEF Init
    <2> QED BY <1>1, <1>2, <1>3, <2>1, <2>2 DEF Init, TypeOK, ExecutorType, SyncerType
  <1>5. HistoryAgrees
    BY <1>1 DEF HistoryAgrees, OutcomesOf
  <1>6. Closing /\ Answered /\ SyncedWasDelivered
    <2>1. executor.at = "recover" /\ syncer.at = "report"
      BY Points DEF Init
    <2> QED BY <2>1 DEF Init, Closing, Answered, SyncedWasDelivered
  <1> QED BY <1>4, <1>5, <1>6 DEF Inv

\* The invariant is inductive.
LEMMA InvStep == Inv /\ [Next]_vars => Inv'
  <1> SUFFICES ASSUME Inv, [Next]_vars
               PROVE  Inv'
    OBVIOUS
  <1>0. /\ now \in Nat /\ crashes \in Nat /\ changes \in Nat
        /\ wanted \in [Passes -> Generations \cup {NoPlan, Withdrawn}]
    BY DEF Inv, TypeOK
  <1>1. ASSUME NEW p \in Passes, NEW g \in Generations, Want(p, g)
        PROVE  Inv'
    <2>1. /\ UNCHANGED <<file, executor, syncer, delivered>>
          /\ changes' \in Nat /\ now' \in Nat /\ crashes' \in Nat
          /\ wanted' \in [Passes -> Generations \cup {NoPlan, Withdrawn}]
      BY <1>0, <1>1 DEF Want
    <2> QED BY <2>1, WorldStep
  <1>2. ASSUME NEW p \in Passes, Withdraw(p)
        PROVE  Inv'
    <2>1. /\ UNCHANGED <<file, executor, syncer, delivered>>
          /\ changes' \in Nat /\ now' \in Nat /\ crashes' \in Nat
          /\ wanted' \in [Passes -> Generations \cup {NoPlan, Withdrawn}]
      BY <1>0, <1>2 DEF Withdraw
    <2> QED BY <2>1, WorldStep
  <1>3. CASE Tick
    <2>1. /\ UNCHANGED <<file, executor, syncer, delivered>>
          /\ changes' \in Nat /\ now' \in Nat /\ crashes' \in Nat
          /\ wanted' \in [Passes -> Generations \cup {NoPlan, Withdrawn}]
      BY <1>0, <1>3 DEF Tick
    <2> QED BY <2>1, WorldStep
  <1>4. CASE UNCHANGED vars
    <2>1. /\ UNCHANGED <<file, executor, syncer, delivered>>
          /\ changes' \in Nat /\ now' \in Nat /\ crashes' \in Nat
          /\ wanted' \in [Passes -> Generations \cup {NoPlan, Withdrawn}]
      BY <1>0, <1>4 DEF vars, world
    <2> QED BY <2>1, WorldStep
  <1> QED BY <1>1, <1>2, <1>3, <1>4, ExecuteStep, SynchronizeStep, CrashStep DEF Next

\* The invariant holds throughout.
LEMMA InvAlways == Spec => []Inv
  BY InitInv, InvStep, PTL DEF Spec

\* Every record of the store and of its two threads holds what its type says.
THEOREM TypeCorrect == Spec => []TypeOK
  <1>1. Inv => TypeOK
    BY DEF Inv
  <1> QED BY <1>1, InvAlways, PTL

\* An outcome in the history is the state of the plan, and no pass has two, over
\* crashes between the two statements of mark_finished and resyncs between any two.
THEOREM OneOutcomeEach == Spec => []HistoryAgrees
  <1>1. Inv => HistoryAgrees
    BY DEF Inv
  <1> QED BY <1>1, InvAlways, PTL

\* No entry is marked as synced that the server has not processed (report_outcomes).
THEOREM NothingGoesUnreported == Spec => []SyncedWasDelivered
  <1>1. Inv => SyncedWasDelivered
    BY DEF Inv
  <1> QED BY <1>1, InvAlways, PTL

-----------------------------------------------------------------------------
(* What the worker knows of, and where it learns of it.                    *)

\* A pass is in the store, in its history, or in a set that is about to be stored.
Mentions(p) ==
    \/ state[p] # "absent"
    \/ \E i \in 1 .. Len(history) : history[i].pass = p
    \/ syncer.at = "apply" /\ syncer.set[p] # NoPlan

\* An entry that is added is about a pass of the store.
LEMMA EntryMentions ==
  ASSUME history \in Seq(Entry), NEW e \in Entry, history' = Append(history, e),
         state[e.pass] # "absent", UNCHANGED <<state, syncer>>, NEW p, Mentions(p)'
  PROVE  Mentions(p)
  BY NewEntry DEF Mentions

\* The executor learns of nothing: it works on what the store holds.
LEMMA ExecuteMentions ==
  ASSUME Inv, Execute, NEW p \in Passes, Mentions(p)'
  PROVE  Mentions(p)
  <1>0. history \in Seq(Entry)
    BY DEF Inv, TypeOK
  <1>1. ASSUME UNCHANGED <<file, syncer>>
        PROVE  Mentions(p)
    BY <1>1 DEF file, Mentions
  <1>2. ASSUME UNCHANGED <<history, syncer>>
        PROVE  Mentions(p)
    <2>1. state'[p] # "absent" => state[p] # "absent"
      BY ExecuteChanges DEF Closed, Started, Pending, PENDING_STATES, Inv, Closing
    <2> QED BY <1>2, <2>1 DEF Mentions
  <1>3. CASE FinishHistory
    <2> DEFINE e == [pass |-> executor.pass, state |-> executor.verdict]
    <2>1. /\ e \in Entry /\ e.pass = executor.pass /\ history' = Append(history, e)
          /\ UNCHANGED <<state, syncer>> /\ state[executor.pass] # "absent"
      BY <1>3 DEF FinishHistory, Inv, TypeOK, Entry, Closing, Outcomes
    <2> HIDE DEF e
    <2> QED BY <1>0, <2>1, EntryMentions
  <1>4. CASE ClaimHistory
    <2> DEFINE e == [pass |-> executor.pass, state |-> "executing"]
    <2>1. /\ e \in Entry /\ e.pass = executor.pass /\ history' = Append(history, e)
          /\ UNCHANGED <<state, syncer>> /\ state[executor.pass] # "absent"
      BY <1>4 DEF ClaimHistory, Inv, TypeOK, Entry, Closing
    <2> HIDE DEF e
    <2> QED BY <1>0, <2>1, EntryMentions
  <1> QED BY <1>1, <1>2, <1>3, <1>4 DEF Execute, RecoverInterrupted, ScanMissed, FinishUpdate,
             Pick, Claim, Run

\* The sync thread learns of nothing but by a fetch, and a crash makes it forget.
LEMMA SyncMentions ==
  ASSUME Inv, NEW p \in Passes, Mentions(p)',
         \/ Report \/ ProcessRecord \/ ReportAnswered \/ NothingToReport \/ MarkHistorySynced
         \/ Heartbeat \/ ReplaceDesiredState \/ CycleFails \/ Crash \/ Tick
  PROVE  Mentions(p)
  <1>1. ASSUME UNCHANGED <<state, history>>,
               UNCHANGED syncer \/ syncer'.at # "apply"
        PROVE  Mentions(p)
    BY <1>1 DEF Mentions
  <1>2. CASE Report
    BY <1>1, <1>2 DEF Report, Listening, file
  <1>3. CASE ReportAnswered
    BY <1>1, <1>3 DEF ReportAnswered, file, Inv, TypeOK
  <1>4. CASE ReplaceDesiredState
    <2>1. UNCHANGED history /\ syncer'.at = "report" /\ syncer.at = "apply"
      BY <1>4, Points DEF ReplaceDesiredState
    <2>2. state'[p] # "absent" => state[p] # "absent" \/ syncer.set[p] # NoPlan
      BY <1>4, ReplaceChanges DEF Accepted, Renewed, Dropped, PENDING_STATES
    <2> QED BY <2>1, <2>2 DEF Mentions
  <1>5. CASE \/ ProcessRecord \/ NothingToReport \/ MarkHistorySynced
             \/ Heartbeat \/ CycleFails \/ Crash \/ Tick
    BY <1>1, <1>5, Points DEF ProcessRecord, NothingToReport, MarkHistorySynced,
       Heartbeat, CycleFails, Crash, Tick, file
  <1> QED BY <1>2, <1>3, <1>4, <1>5

\* A fetch brings what the server serves.
LEMMA FetchMentions ==
  ASSUME Inv, Fetch, NEW p \in Passes, Mentions(p)'
  PROVE  Mentions(p) \/ Served[p] # NoPlan
  <1>1. UNCHANGED <<state, history>>
    BY DEF Fetch, file
  <1>2. CASE syncer' = Listening("report")
    BY <1>1, <1>2, Points DEF Mentions
  <1>3. CASE syncer' = [Listening("apply") EXCEPT !.set = Served]
    <2>1. syncer'.set = Served
      BY <1>3 DEF Listening
    <2> QED BY <1>1, <2>1 DEF Mentions
  <1> QED BY <1>2, <1>3 DEF Fetch

\* An empty store mentions nothing.
LEMMA InitMentions ==
  ASSUME Init, NEW p \in Passes
  PROVE  ~Mentions(p)
  <1>1. history = <<>> /\ Len(history) = 0
    BY DEF Init
  <1> QED BY <1>1, Points DEF Init, Mentions

-----------------------------------------------------------------------------
(* What a step may never do.                                               *)

\* The steps that touch what the worker knows of its passes, and all others.
AnyStep ==
    \/ Execute
    \/ ReplaceDesiredState
    \/ Crash
    \/ UNCHANGED <<state, generation, history, executor>>

\* Every step is one of these.
LEMMA NextIsAnyStep == [Next]_vars => AnyStep
  BY DEF Next, vars, file, AnyStep, Synchronize, Report, RecordProcessed, ProcessRecord,
         ReportAnswered, NothingToReport, MarkHistorySynced, Heartbeat, Fetch, CycleFails,
         Want, Withdraw, Tick

\* A step changes a pass only in the ways named above.
LEMMA PassStep ==
  ASSUME Inv, AnyStep, NEW p \in Passes
  PROVE  \/ state'[p] = state[p] /\ generation'[p] = generation[p]
         \/ (Closed(p) \/ Started(p)) /\ generation'[p] = generation[p]
         \/ Accepted(p) /\ generation'[p] = syncer.set[p] /\ syncer.at = "apply"
         \/ Renewed(p)
         \/ Dropped(p) /\ generation'[p] = generation[p]
  <1>1. CASE ReplaceDesiredState
    BY <1>1, ReplaceChanges DEF ReplaceDesiredState
  <1>2. CASE Execute
    BY <1>2, ExecuteChanges
  <1>3. CASE Crash \/ UNCHANGED <<state, generation, history, executor>>
    BY <1>3 DEF Crash, file
  <1> QED BY <1>1, <1>2, <1>3 DEF AnyStep

\* A pass that completed, failed or was missed stays so, whatever is synchronized,
\* scanned or recovered afterwards (replace_desired_state, mark_finished).
THEOREM OutcomesStay == Spec => OutcomeIsFinal
  <1>1. Inv /\ [Next]_vars =>
          [\A p \in Passes : state[p] \in Outcomes => state'[p] = state[p]]_vars
    <2> SUFFICES ASSUME Inv, [Next]_vars, NEW p \in Passes, state[p] \in Outcomes
                 PROVE  state'[p] = state[p]
      OBVIOUS
    <2>1. ~Closed(p)
      BY DEF Closed, Inv, Closing
    <2> QED BY <2>1, PassStep, NextIsAnyStep DEF Started, Pending, Accepted, Renewed, Dropped,
               Outcomes, PENDING_STATES
  <1> QED BY <1>1, InvAlways, PTL DEF Spec, OutcomeIsFinal

\* A cancelled plan is never started, also one the executor has read as due
\* (mark_executing).
THEOREM CancelledStaysUnstarted == Spec => CancelledNeverStarts
  <1>1. Inv /\ [Next]_vars =>
          [\A p \in Passes : state[p] = "cancelled" => state'[p] # "executing"]_vars
    <2> SUFFICES ASSUME Inv, [Next]_vars, NEW p \in Passes, state[p] = "cancelled",
                        state'[p] = "executing"
                 PROVE  FALSE
      OBVIOUS
    <2>1. ~Closed(p)
      BY DEF Closed, Inv, TypeOK, Outcomes
    <2> QED BY <2>1, PassStep, NextIsAnyStep DEF Started, Pending, Accepted, Renewed, Dropped,
               PENDING_STATES
  <1> QED BY <1>1, InvAlways, PTL DEF Spec, CancelledNeverStarts

-----------------------------------------------------------------------------
(* No pass is started twice, as long as nobody plans it anew.              *)

\* The plan of a pass stays as it is while the pass is being executed.
PlanIsKept ==
    \A p \in Passes : state[p] = "executing" => generation'[p] = generation[p]

\* A pass that was started is not pending, and the one that is being started has
\* not been.
StartedOnce ==
    /\ NeverReplayed
    /\ \A p \in Passes : StartsOf(p) # {} => state[p] \notin PENDING_STATES \cup {"absent"}
    /\ executor.at = "started" => /\ StartsOf(executor.pass) = {}
                                  /\ state[executor.pass] \notin PENDING_STATES \cup {"absent"}

\* A pass that was taken up leaves no way back but a new plan.
LEMMA NoWayBack ==
  ASSUME Inv, AnyStep, PlanIsKept, NEW p \in Passes,
         state[p] \notin PENDING_STATES \cup {"absent"}
  PROVE  state'[p] \notin PENDING_STATES \cup {"absent"}
  <1>1. Closed(p) => state'[p] \in Outcomes
    BY DEF Closed, Inv, TypeOK
  <1>2. ~Renewed(p)
    BY DEF Renewed, PlanIsKept
  <1> QED BY <1>1, <1>2, PassStep DEF Started, Accepted, Dropped, Outcomes, PENDING_STATES

\* A new start is one of a pass that had none.
LEMMA StartedOnceStep ==
  ASSUME Inv, AnyStep, PlanIsKept, StartedOnce
  PROVE  StartedOnce'
  <1>1. CASE UNCHANGED history /\ (executor'.at = "started" => UNCHANGED executor)
    <2>1. \A p : StartsOf(p)' = StartsOf(p)
      BY <1>1, SameEntries
    <2>2. executor.at = "started" => executor.pass \in Passes
      BY DEF Inv, TypeOK
    <2>3. NeverReplayed'
      BY <2>1 DEF StartedOnce, NeverReplayed
    <2> QED BY <1>1, <2>1, <2>2, <2>3, NoWayBack DEF StartedOnce
  <1>2. CASE Claim /\ executor'.at = "started"
    <2>1. /\ executor.pass \in Passes /\ Pending(executor.pass)
          /\ state'[executor.pass] = "executing" /\ executor'.pass = executor.pass
          /\ UNCHANGED history
      <3>1. /\ executor.pass \in Passes
            /\ executor \in [at : ExecutorPoints, pass : Passes \cup {NoPass},
                             todo : SUBSET Passes, verdict : Outcomes \cup {""},
                             next : {"recovered", "tick", "pick", ""}, clock : Nat]
            /\ state \in [Passes -> ExecutionState \cup {"absent"}]
        BY <1>2 DEF Claim, Inv, TypeOK
      <3>2. executor' # NotWorking("tick")
        BY <1>2, Points
      <3>3. /\ Pending(executor.pass) /\ UNCHANGED history
            /\ state' = [state EXCEPT ![executor.pass] = "executing"]
            /\ executor' = [executor EXCEPT !.at = "started"]
        BY <1>2, <3>2 DEF Claim
      <3> QED BY <3>1, <3>3
    <2>2. \A p : StartsOf(p)' = StartsOf(p)
      BY <2>1, SameEntries
    <2>3. StartsOf(executor.pass) = {}
      BY <2>1 DEF StartedOnce, Pending
    <2>4. NeverReplayed'
      BY <2>2 DEF StartedOnce, NeverReplayed
    <2> QED BY <2>1, <2>2, <2>3, <2>4, NoWayBack DEF StartedOnce, PENDING_STATES
  <1>3. ASSUME NEW e \in Entry, history' = Append(history, e), executor'.at # "started",
               e.state = "executing" => executor.at = "started" /\ e.pass = executor.pass
        PROVE  StartedOnce'
    <2>1. history \in Seq(Entry) /\ e.pass \in Passes
      BY DEF Inv, TypeOK, Entry
    <2>2. CASE e.state # "executing"
      <3>1. \A p : StartsOf(p)' = StartsOf(p)
        BY <1>3, <2>1, <2>2, NewStarts
      <3>2. NeverReplayed'
        BY <3>1 DEF StartedOnce, NeverReplayed
      <3> QED BY <1>3, <3>1, <3>2, NoWayBack DEF StartedOnce
    <2>3. CASE e.state = "executing"
      <3>1. \A p : p # e.pass => StartsOf(p)' = StartsOf(p)
        BY <1>3, <2>1, NewStarts
      <3>2. StartsOf(e.pass)' = {Len(history) + 1}
        BY <1>3, <2>1, <2>3, NewStarts DEF StartedOnce
      <3>3. NeverReplayed'
        BY <3>1, <3>2 DEF StartedOnce, NeverReplayed
      <3> QED BY <1>3, <2>1, <2>3, <3>1, <3>3, NoWayBack DEF StartedOnce
    <2> QED BY <2>2, <2>3
  <1>4. CASE FinishHistory
    <2> DEFINE e == [pass |-> executor.pass, state |-> executor.verdict]
    <2>1. /\ e \in Entry /\ e.state # "executing" /\ history' = Append(history, e)
          /\ executor.next # "started"
      BY <1>4 DEF FinishHistory, Inv, TypeOK, Entry, Outcomes
    <2>2. executor'.at # "started"
      BY <1>4, <2>1 DEF FinishHistory, Close
    <2> HIDE DEF e
    <2> QED BY <1>3, <2>1, <2>2
  <1>5. CASE ClaimHistory
    <2> DEFINE e == [pass |-> executor.pass, state |-> "executing"]
    <2>1. /\ e \in Entry /\ e.pass = executor.pass /\ history' = Append(history, e)
          /\ executor.at = "started"
      BY <1>5 DEF ClaimHistory, Inv, TypeOK, Entry
    <2>2. executor'.at # "started"
      BY <1>5 DEF ClaimHistory, Inv, TypeOK
    <2> HIDE DEF e
    <2> QED BY <1>3, <2>1, <2>2
  <1>6. CASE UNCHANGED <<state, generation, history, executor>>
    BY <1>1, <1>6
  <1>7. CASE ReplaceDesiredState
    BY <1>1, <1>7 DEF ReplaceDesiredState
  <1>8. CASE Execute /\ ~FinishHistory /\ ~ClaimHistory
    <2>1. UNCHANGED history
      BY <1>8 DEF Execute, RecoverInterrupted, ScanMissed, FinishUpdate, Pick, Claim, Run, file
    <2>2. CASE Claim
      BY <1>1, <1>2, <2>1, <2>2
    <2>3. CASE ~Claim
      <3>1. executor'.at # "started"
        <4>1. ASSUME NEW S, NEW v, NEW n \in {"recovered", "tick", "pick"}, NEW c, Close(S, v, n, c)
              PROVE  executor'.at # "started"
          BY <4>1 DEF Close
        <4>2. ASSUME NEW p \in Passes, FinishUpdate(p)
              PROVE  executor'.at # "started"
          BY <4>2 DEF FinishUpdate, Inv, TypeOK
        <4>3. CASE Pick
          <5>1. \/ \E p \in Passes : executor' = [NotWorking("claim") EXCEPT !.pass = p]
                \/ executor' = NotWorking("tick")
            BY <4>3 DEF Pick
          <5>2. ASSUME NEW p \in Passes, executor' = [NotWorking("claim") EXCEPT !.pass = p]
                PROVE  executor'.at = "claim"
            BY <5>2 DEF NotWorking
          <5> QED BY <5>1, <5>2, Points
        <4> QED BY <1>8, <2>3, <4>1, <4>2, <4>3 DEF Execute, RecoverInterrupted, ScanMissed, Run
      <3> QED BY <1>1, <2>1, <3>1
    <2> QED BY <2>2, <2>3
  <1>9. CASE Crash
    <2>1. UNCHANGED history /\ executor' = NotWorking("recover")
      BY <1>9 DEF Crash, file
    <2> QED BY <1>1, <2>1, Points
  <1> QED BY <1>4, <1>5, <1>6, <1>7, <1>8, <1>9 DEF AnyStep

\* No pass has been started in an empty store.
LEMMA InitStartedOnce == Init => StartedOnce
  <1> SUFFICES ASSUME Init
               PROVE  StartedOnce
    OBVIOUS
  <1>1. history = <<>> /\ Len(history) = 0
    BY DEF Init
  <1>2. \A p : StartsOf(p) = {}
    BY <1>1 DEF StartsOf
  <1>3. executor.at # "started"
    BY DEF Init, NotWorking
  <1> QED BY <1>2, <1>3 DEF StartedOnce, NeverReplayed

\* Over any number of restarts and resyncs the worker starts no pass twice, if no
\* resync brings another plan for a pass that is being executed (recover, "do not
\* replay completed work").
THEOREM StartedPassesAreNotReplayed == Spec /\ [][PlanIsKept]_vars => []NeverReplayed
  <1>1. Inv /\ StartedOnce /\ [Next]_vars /\ [PlanIsKept]_vars => StartedOnce'
    <2>1. ASSUME UNCHANGED vars, StartedOnce
          PROVE  StartedOnce'
      BY <2>1, SameEntries DEF vars, file, StartedOnce, NeverReplayed
    <2> QED BY <2>1, StartedOnceStep, NextIsAnyStep
  <1>2. StartedOnce => NeverReplayed
    BY DEF StartedOnce
  <1> QED BY <1>1, <1>2, InitStartedOnce, InvAlways, PTL DEF Spec

\* What is in the store has a plan.
Planned == \A p \in Passes : state[p] # "absent" => generation[p] \in Generations

\* A pass enters the store with its plan and keeps one.
LEMMA PlannedStep ==
  ASSUME Inv, Inv', AnyStep, Planned
  PROVE  Planned'
  <1> SUFFICES ASSUME NEW p \in Passes, state'[p] # "absent"
               PROVE  generation'[p] \in Generations
    BY DEF Planned
  <1>2. generation'[p] \in Generations \cup {NoPlan}
    BY DEF Inv, TypeOK
  <1>3. Closed(p) => state[p] # "absent"
    BY DEF Closed, Inv, Closing
  <1>4. Started(p) \/ Dropped(p) => state[p] # "absent"
    BY DEF Started, Dropped, Pending, PENDING_STATES
  <1>5. Accepted(p) /\ generation'[p] = syncer.set[p] => generation'[p] # NoPlan
    BY DEF Accepted
  <1>6. Renewed(p) => generation'[p] # NoPlan
    BY DEF Renewed
  <1> QED BY <1>2, <1>3, <1>4, <1>5, <1>6, PassStep DEF Planned

\* A plan that is new in the store comes from the set that is applied.
LEMMA PlansComeFromTheSet ==
  ASSUME Inv, AnyStep, NEW p \in Passes
  PROVE  \/ generation'[p] = generation[p]
         \/ syncer.at = "apply" /\ generation'[p] = syncer.set[p]
  <1>1. CASE Execute
    BY <1>1, ExecuteChanges
  <1>2. CASE ReplaceDesiredState
    BY <1>2 DEF ReplaceDesiredState
  <1>3. CASE Crash \/ UNCHANGED <<state, generation, history, executor>>
    BY <1>3 DEF Crash, file
  <1> QED BY <1>1, <1>2, <1>3 DEF AnyStep

\* A set that is about to be applied is one that was fetched.
LEMMA SetsAreFetched ==
  ASSUME Inv, syncer'.at = "apply",
         \/ Execute \/ Report \/ ProcessRecord \/ ReportAnswered \/ NothingToReport
         \/ MarkHistorySynced \/ Heartbeat \/ ReplaceDesiredState \/ CycleFails
         \/ Crash \/ Tick
  PROVE  UNCHANGED syncer
  <1>1. CASE Execute
    BY <1>1 DEF Execute, RecoverInterrupted, ScanMissed, FinishUpdate, FinishHistory, Pick,
           Claim, ClaimHistory, Run
  <1>2. CASE Report
    BY <1>2 DEF Report, Listening
  <1>3. CASE ReportAnswered
    BY <1>3 DEF ReportAnswered, Inv, TypeOK
  <1>4. CASE \/ ProcessRecord \/ NothingToReport \/ MarkHistorySynced \/ Heartbeat
             \/ ReplaceDesiredState \/ CycleFails \/ Crash \/ Tick
    BY <1>4, Points DEF ProcessRecord, NothingToReport, MarkHistorySynced, Heartbeat,
       ReplaceDesiredState, CycleFails, Crash, Tick
  <1> QED BY <1>1, <1>2, <1>3, <1>4

\* With one plan for every pass there is none to be replaced.
LEMMA OnePlanIsKept ==
  ASSUME \A g, h \in Generations : g = h,
         Inv, AnyStep, Planned, Planned'
  PROVE  PlanIsKept
  <1> SUFFICES ASSUME NEW p \in Passes, state[p] = "executing"
               PROVE  generation'[p] = generation[p]
    BY DEF PlanIsKept
  <1>1. state'[p] # "absent"
    BY PassStep DEF Closed, Started, Accepted, Renewed, Dropped, Inv, TypeOK, Outcomes
  <1> QED BY <1>1 DEF Planned

\* With one plan for every pass there is nothing to be replayed.
THEOREM OnePlanIsStartedOnce ==
  ASSUME \A g, h \in Generations : g = h
  PROVE  Spec => []NeverReplayed
  <1>1. Init => Planned
    BY DEF Init, Planned
  <1>2. Inv /\ Inv' /\ [Next]_vars /\ Planned => Planned'
    BY PlannedStep, NextIsAnyStep
  <1>3. Inv /\ [Next]_vars /\ Planned /\ Planned' => [PlanIsKept]_vars
    BY OnePlanIsKept, NextIsAnyStep
  <1> QED BY <1>1, <1>2, <1>3, InvAlways, StartedPassesAreNotReplayed, PTL DEF Spec

=============================================================================
