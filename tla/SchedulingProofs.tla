-------------------------- MODULE SchedulingProofs --------------------------
(***************************************************************************)
(* Theorems about Scheduling, for any number of passes, users and handlers *)
(* and any buffers and windows.                                            *)
(***************************************************************************)
EXTENDS Scheduling, TLAPS

-----------------------------------------------------------------------------
(* Types.                                                                  *)

\* The empty tables and the idle handlers have their types.
LEMMA InitType == Init => TypeOK
  <1> SUFFICES ASSUME Init
               PROVE  TypeOK
    OBVIOUS
  <1> USE DEF Init, TypeOK, Idle, NoPlan, Statuses, CancellationReasons
  <1>1. Idle \in HandlerType
    BY DEF HandlerType, Ops, Points
  <1>2. handler \in [Handlers -> HandlerType]
    BY <1>1
  <1> QED BY <1>2

\* Starting a request only fills in a handler.
LEMMA StartType ==
  ASSUME TypeOK, NEW h \in Handlers, NEW u \in Users, NEW p \in Passes,
         Start(h, u, p)
  PROVE  TypeOK'
  <1> USE DEF TypeOK, HandlerType, Ops, Points, NoPlan, tables
  <1>1. CASE BeginRequest(h, u, p)
    BY <1>1 DEF BeginRequest, Begin
  <1>2. CASE BeginOverride(h, u, p)
    BY <1>2 DEF BeginOverride, Begin
  <1>3. CASE BeginApprove(h, u, p)
    BY <1>3 DEF BeginApprove, Begin
  <1>4. CASE BeginReject(h, u, p)
    BY <1>4 DEF BeginReject, Begin
  <1>5. CASE BeginCancel(h, u, p)
    BY <1>5 DEF BeginCancel, Begin
  <1> QED BY <1>1, <1>2, <1>3, <1>4, <1>5 DEF Start

\* A handler that is at work serves a user's request about a pass.
LEMMA ContinueType ==
  ASSUME TypeOK, NEW h \in Handlers, Continue(h)
  PROVE  TypeOK'
  <1> USE DEF TypeOK, HandlerType, Ops, Points, NoPlan, tables, Statuses,
              CancellationReasons, Serving, Done, Goto, Idle
  <1>1. CASE CommitRequest(h)
    BY <1>1 DEF CommitRequest
  <1>2. CASE CommitOverride(h)
    <2> DEFINE p == handler[h].pass
    <2>1. p \in Passes /\ handler[h].actor \in Users
      BY <1>2 DEF CommitOverride
    <2>2. status' \in [Passes -> Statuses \cup {"none"}]
      BY <1>2 DEF CommitOverride
    <2>3. reason' \in [Passes -> CancellationReasons \cup {"none"}]
      BY <1>2 DEF CommitOverride
    <2>4. owner' \in [Passes -> Users \cup {NoUser}]
      BY <1>2, <2>1 DEF CommitOverride
    <2>5. handler' = [handler EXCEPT ![h].at = "generate"]
      BY <1>2 DEF CommitOverride
    <2>6. /\ handler' \in [Handlers -> HandlerType]
          /\ \A k \in Handlers : handler'[k].at # "idle" =>
                /\ handler'[k].pass \in Passes
                /\ handler'[k].actor \in Users
      BY <2>1, <2>5
    <2>7. UNCHANGED <<plan, content, workerOnline, given, now>>
      BY <1>2 DEF CommitOverride
    <2> HIDE DEF HandlerType, Statuses, CancellationReasons
    <2>8. /\ plan' \in [Passes -> Nat \cup {NoPlan}]
          /\ content' \in Nat /\ now' \in Nat
          /\ workerOnline' \in BOOLEAN /\ given' \subseteq Passes
      BY <2>7
    <2> HIDE DEF NoPlan
    <2> QED BY <2>2, <2>3, <2>4, <2>6, <2>8
  <1>3. CASE GeneratePlan(h)
    <2>1. handler' = [handler EXCEPT ![h] =
                        [@ EXCEPT !.at = "store", !.gen = content]]
      BY <1>3 DEF GeneratePlan
    <2>2. [handler[h] EXCEPT !.at = "store", !.gen = content] \in HandlerType
      OBVIOUS
    <2>3. handler[h].pass \in Passes /\ handler[h].actor \in Users
      BY <1>3 DEF GeneratePlan
    <2> QED BY <1>3, <2>1, <2>2, <2>3 DEF GeneratePlan
  <1>4. CASE StorePlan(h)
    BY <1>4 DEF StorePlan
  <1>5. CASE CommitDecision(h, "approve", "approved")
    BY <1>5 DEF CommitDecision
  <1>6. CASE CommitDecision(h, "reject", "rejected")
    BY <1>6 DEF CommitDecision
  <1>7. CASE CommitCancel(h)
    BY <1>7 DEF CommitCancel, CancellationReasonFor
  <1>8. CASE Fail(h)
    BY <1>8 DEF Fail
  <1> QED BY <1>1, <1>2, <1>3, <1>4, <1>5, <1>6, <1>7, <1>8 DEF Continue

\* So do reports, edits, heartbeats and the clock.
LEMMA WorldType ==
  ASSUME TypeOK,
         \/ SyncPassPlans
         \/ \E p \in Passes : ReportExecutions(p)
         \/ EditStation
         \/ \E b \in BOOLEAN : SetWorkerOnline(b)
         \/ Tick
  PROVE  TypeOK'
  <1> USE DEF TypeOK, tables
  <1>1. CASE SyncPassPlans
    BY <1>1 DEF SyncPassPlans, Desired
  <1>2. ASSUME NEW p \in Passes, ReportExecutions(p)
        PROVE  TypeOK'
    BY <1>2 DEF ReportExecutions, SetPassOutcome, Outcomes, Statuses
  <1>3. CASE EditStation
    BY <1>3 DEF EditStation
  <1>4. ASSUME NEW b \in BOOLEAN, SetWorkerOnline(b)
        PROVE  TypeOK'
    BY <1>4 DEF SetWorkerOnline
  <1>5. CASE Tick
    BY <1>5 DEF Tick
  <1> QED BY <1>1, <1>2, <1>3, <1>4, <1>5

\* Every step keeps the types.
LEMMA NextType == TypeOK /\ [Next]_vars => TypeOK'
  <1> SUFFICES ASSUME TypeOK, [Next]_vars
               PROVE  TypeOK'
    OBVIOUS
  <1>1. ASSUME NEW h \in Handlers, NEW u \in Users, NEW p \in Passes,
               Start(h, u, p)
        PROVE  TypeOK'
    BY <1>1, StartType
  <1>2. ASSUME NEW h \in Handlers, Continue(h)
        PROVE  TypeOK'
    BY <1>2, ContinueType
  <1>3. CASE UNCHANGED vars
    BY <1>3 DEF TypeOK, vars, tables
  <1> QED BY <1>1, <1>2, <1>3, WorldType DEF Next

\* Whatever happens, every table and every handler keeps its type, and a handler
\* at work knows its pass and its user.
THEOREM TypeCorrect == Spec => []TypeOK
  BY InitType, NextType, PTL DEF Spec

-----------------------------------------------------------------------------
(* The station is never booked twice.  The invariant is inductive as it is: *)
(* a pass begins to hold the station only where CreatePass finds nothing in *)
(* its way, or cancels what is, in the same step.                           *)

\* A reservation is in the way of those that are in its way.
LEMMA OverlapsSymmetric ==
  ASSUME NEW p \in Passes, NEW q \in Passes, Overlaps(p, q)
  PROVE  Overlaps(q, p)
  BY DEF Overlaps

\* Which statuses hold the station, and which are final.
LEMMA LiveStatuses ==
  ASSUME NEW p \in Passes
  PROVE  HoldsStation(p) <=> status[p] \in {"pending_approval", "approved", "executing"}
  BY DEF HoldsStation, liveStatuses

\* The terminal statuses are those the table of transitions leads nowhere from.
LEMMA TerminalStatuses ==
  ASSUME NEW s
  PROVE  IsTerminal(s) <=> s \in {"rejected", "cancelled", "completed", "failed", "missed"}
  BY DEF IsTerminal, Statuses, allowedTransitions

\* Steps that leave the table of passes alone.
LEMMA StartLeavesPasses ==
  ASSUME NEW h \in Handlers, NEW u \in Users, NEW p \in Passes, Start(h, u, p)
  PROVE  UNCHANGED tables
  BY DEF Start, BeginRequest, BeginOverride, BeginApprove, BeginReject, BeginCancel

\* An insertion is made when nothing is in its way or takes what is out of the way.
LEMMA BookingContinues ==
  ASSUME TypeOK, NoDoubleBooking, NEW h \in Handlers, Continue(h)
  PROVE  NoDoubleBooking'
  <1> SUFFICES ASSUME NEW p \in Passes, NEW q \in Passes, p # q,
                      HoldsStation(p)', HoldsStation(q)', Overlaps(p, q)
               PROVE  FALSE
    BY DEF NoDoubleBooking, Overlaps
  <1> USE DEF HoldsStation, liveStatuses
  <1>1. CASE CommitRequest(h)
    <2> DEFINE r == handler[h].pass
    <2>1. CASE UNCHANGED status
      BY <2>1 DEF NoDoubleBooking
    <2>2. CASE /\ Conflicting(r) = {}
               /\ status' = [status EXCEPT ![r] = "pending_approval"]
      <3>1. \A k \in Passes : HoldsStation(k) => ~Overlaps(r, k)
        BY <2>2 DEF Conflicting
      <3>2. CASE p = r
        BY <2>2, <3>1, <3>2 DEF TypeOK
      <3>3. CASE q = r
        BY <2>2, <3>1, <3>3, OverlapsSymmetric DEF TypeOK
      <3>4. CASE p # r /\ q # r
        BY <2>2, <3>4 DEF TypeOK, NoDoubleBooking
      <3> QED BY <3>2, <3>3, <3>4
    <2> QED BY <1>1, <2>1, <2>2 DEF CommitRequest, tables
  <1>2. CASE CommitOverride(h)
    <2> DEFINE r == handler[h].pass
    <2>1. status' = [k \in Passes |->
                        IF k = r THEN "approved"
                        ELSE IF k \in Conflicting(r) THEN "cancelled" ELSE status[k]]
      BY <1>2 DEF CommitOverride
    <2>2. \A k \in Passes \ {r} : HoldsStation(k)' => HoldsStation(k) /\ ~Overlaps(r, k)
      BY <2>1 DEF Conflicting
    <2>3. CASE p = r
      BY <2>2, <2>3
    <2>4. CASE q = r
      BY <2>2, <2>4, OverlapsSymmetric
    <2>5. CASE p # r /\ q # r
      BY <2>2, <2>5 DEF NoDoubleBooking
    <2> QED BY <2>3, <2>4, <2>5
  <1>3. CASE GeneratePlan(h) \/ StorePlan(h) \/ Fail(h)
    BY <1>3 DEF GeneratePlan, StorePlan, Fail, tables, NoDoubleBooking
  <1>4. CASE CommitDecision(h, "approve", "approved")
    BY <1>4 DEF CommitDecision, StillPending, NoDoubleBooking, TypeOK
  <1>5. CASE CommitDecision(h, "reject", "rejected")
    BY <1>5 DEF CommitDecision, StillPending, NoDoubleBooking, TypeOK
  <1>6. CASE CommitCancel(h)
    BY <1>6 DEF CommitCancel, NoDoubleBooking, TypeOK
  <1> QED BY <1>1, <1>2, <1>3, <1>4, <1>5, <1>6 DEF Continue

\* A report only ever ends a pass.
LEMMA BookingReported ==
  ASSUME TypeOK, NoDoubleBooking, NEW r \in Passes, ReportExecutions(r)
  PROVE  NoDoubleBooking'
  <1>1. \A p \in Passes : HoldsStation(p)' => HoldsStation(p)
    BY DEF ReportExecutions, SetPassOutcome, Outcomes, TypeOK, HoldsStation,
           liveStatuses
  <1> QED BY <1>1 DEF NoDoubleBooking, Overlaps

\* No step books twice.
LEMMA NextBooking == TypeOK /\ NoDoubleBooking /\ [Next]_vars => NoDoubleBooking'
  <1> SUFFICES ASSUME TypeOK, NoDoubleBooking, [Next]_vars
               PROVE  NoDoubleBooking'
    OBVIOUS
  <1>1. ASSUME NEW h \in Handlers, NEW u \in Users, NEW p \in Passes,
               Start(h, u, p)
        PROVE  NoDoubleBooking'
    BY <1>1, StartLeavesPasses DEF tables, NoDoubleBooking, HoldsStation, Overlaps
  <1>2. ASSUME NEW h \in Handlers, Continue(h)
        PROVE  NoDoubleBooking'
    BY <1>2, BookingContinues
  <1>3. ASSUME NEW p \in Passes, ReportExecutions(p)
        PROVE  NoDoubleBooking'
    BY <1>3, BookingReported
  <1>4. CASE \/ SyncPassPlans \/ EditStation \/ Tick \/ UNCHANGED vars
             \/ \E b \in BOOLEAN : SetWorkerOnline(b)
    <2>1. UNCHANGED status
      BY <1>4 DEF SyncPassPlans, EditStation, Tick, SetWorkerOnline, vars, tables
    <2> QED BY <2>1 DEF NoDoubleBooking, HoldsStation, Overlaps
  <1> QED BY <1>1, <1>2, <1>3, <1>4 DEF Next

\* No two live passes overlap, however requests and overrides interleave
\* (RequestPass, RequestPassWithRootOverride, passes_no_station_overlap).
THEOREM StationNeverDoubleBooked == Spec => []NoDoubleBooking
  <1>1. Init => NoDoubleBooking
    BY DEF Init, NoDoubleBooking, HoldsStation, liveStatuses
  <1>2. Spec => [](TypeOK /\ NoDoubleBooking)
    BY <1>1, InitType, NextType, NextBooking, PTL DEF Spec
  <1> QED BY <1>2, PTL

-----------------------------------------------------------------------------
(* A terminal status is final.  It rests on the ids of new rows being fresh: *)
(* a request that is about to insert a row is the only one that knows of it, *)
(* and the row does not exist.                                               *)

Inserting(h) == handler[h].op \in {"request", "override"} /\ handler[h].at = "commit"

InsertsAreFresh ==
    \A h \in Handlers :
        Inserting(h) =>
            /\ status[handler[h].pass] = "none"
            /\ \A k \in Handlers \ {h} : handler[k].pass # handler[h].pass
            /\ handler[h].op = "override" => Role[handler[h].actor] = "root"

\* Nothing is being inserted at first.
LEMMA InitFresh == Init => InsertsAreFresh
  BY DEF Init, InsertsAreFresh, Inserting, Idle

\* An insertion starts with a row nobody has or is about to make.
LEMMA StartFresh ==
  ASSUME TypeOK, InsertsAreFresh,
         NEW h \in Handlers, NEW u \in Users, NEW p \in Passes, Start(h, u, p)
  PROVE  InsertsAreFresh'
  <1>1. UNCHANGED status
    BY StartLeavesPasses DEF tables
  <1>2. \E op \in Ops, at \in Points :
            /\ handler' = [handler EXCEPT ![h] =
                  [op |-> op, at |-> at, pass |-> p, actor |-> u, gen |-> NoPlan]]
            /\ \/ op \in {"request", "override"} /\ FreshRow(p)
               \/ op \in {"approve", "reject", "cancel"} /\ status[p] # "none"
            /\ op = "override" => Role[u] = "root"
    BY DEF Start, BeginRequest, BeginOverride, BeginApprove, BeginReject,
           BeginCancel, Begin, Ops, Points, ValidateTransition, allowedTransitions
  <1>3. PICK op \in Ops, at \in Points :
            /\ handler' = [handler EXCEPT ![h] =
                  [op |-> op, at |-> at, pass |-> p, actor |-> u, gen |-> NoPlan]]
            /\ \/ op \in {"request", "override"} /\ FreshRow(p)
               \/ op \in {"approve", "reject", "cancel"} /\ status[p] # "none"
            /\ op = "override" => Role[u] = "root"
    BY <1>2
  <1> SUFFICES ASSUME NEW k \in Handlers, Inserting(k)'
               PROVE  /\ status[handler'[k].pass] = "none"
                      /\ \A j \in Handlers \ {k} : handler'[j].pass # handler'[k].pass
                      /\ handler'[k].op = "override" => Role[handler'[k].actor] = "root"
    BY <1>1 DEF InsertsAreFresh
  <1>4. CASE k = h
    <2>1. op \in {"request", "override"} /\ FreshRow(p)
      BY <1>3, <1>4 DEF Inserting, TypeOK
    <2> QED BY <1>3, <1>4, <2>1 DEF FreshRow, TypeOK
  <1>5. CASE k # h
    <2>1. handler'[k] = handler[k] /\ Inserting(k)
      BY <1>3, <1>5 DEF Inserting, TypeOK
    <2>2. handler[k].pass # p
      BY <1>3, <2>1 DEF FreshRow, InsertsAreFresh
    <2> QED BY <1>3, <1>5, <2>1, <2>2 DEF InsertsAreFresh, TypeOK
  <1> QED BY <1>4, <1>5

\* A step of a handler ends its insertion, if it was inserting, and no step makes
\* a row that another handler is about to insert.
LEMMA ContinueFresh ==
  ASSUME TypeOK, InsertsAreFresh, NEW h \in Handlers, Continue(h)
  PROVE  InsertsAreFresh'
  <1> DEFINE p == handler[h].pass
  <1>1. \A k \in Handlers \ {h} : handler'[k] = handler[k]
    BY DEF Continue, CommitRequest, CommitOverride, GeneratePlan, StorePlan,
           CommitDecision, CommitCancel, Fail, Done, Goto, TypeOK
  <1>2. ~Inserting(h)'
    <2>1. CASE CommitRequest(h) \/ CommitCancel(h) \/ Fail(h)
               \/ CommitDecision(h, "approve", "approved")
               \/ CommitDecision(h, "reject", "rejected")
      BY <2>1 DEF CommitRequest, CommitCancel, Fail, CommitDecision, Done, Idle,
                  Inserting, TypeOK
    <2>2. CASE CommitOverride(h)
      BY <2>2 DEF CommitOverride, Goto, Inserting, TypeOK, HandlerType
    <2>3. CASE GeneratePlan(h)
      <3>1. handler' = [handler EXCEPT ![h] =
                          [@ EXCEPT !.at = "store", !.gen = content]]
        BY <2>3 DEF GeneratePlan
      <3> QED BY <3>1 DEF Inserting, TypeOK, HandlerType
    <2>4. CASE StorePlan(h)
      BY <2>4 DEF StorePlan, Goto, Done, Idle, Inserting, TypeOK, HandlerType
    <2> QED BY <2>1, <2>2, <2>3, <2>4 DEF Continue
  <1>3. handler'[h].pass \in {p, NoPass}
    BY DEF Continue, CommitRequest, CommitOverride, GeneratePlan, StorePlan,
           CommitDecision, CommitCancel, Fail, Done, Goto, Idle, TypeOK, HandlerType
  <1>4. \A q \in Passes \ {p} : status[q] = "none" => status'[q] = "none"
    BY DEF Continue, CommitRequest, CommitOverride, GeneratePlan, StorePlan,
           CommitDecision, CommitCancel, Fail, tables, TypeOK, Conflicting,
           HoldsStation, liveStatuses
  <1> SUFFICES ASSUME NEW k \in Handlers \ {h}, Inserting(k)
               PROVE  /\ status'[handler[k].pass] = "none"
                      /\ \A j \in Handlers \ {k} : handler'[j].pass # handler[k].pass
                      /\ handler[k].op = "override" => Role[handler[k].actor] = "root"
    BY <1>1, <1>2 DEF InsertsAreFresh, Inserting
  <1>5. handler[k].pass \in Passes /\ handler[k].pass # p
    BY DEF InsertsAreFresh, Inserting, TypeOK
  <1>6. handler[k].pass # NoPass
    BY <1>5, UserAssumption
  <1> QED BY <1>1, <1>3, <1>4, <1>5, <1>6 DEF InsertsAreFresh

\* Whoever is about to insert a row is alone with it, in every step.
LEMMA NextFresh == TypeOK /\ InsertsAreFresh /\ [Next]_vars => InsertsAreFresh'
  <1> SUFFICES ASSUME TypeOK, InsertsAreFresh, [Next]_vars
               PROVE  InsertsAreFresh'
    OBVIOUS
  <1>1. ASSUME NEW h \in Handlers, NEW u \in Users, NEW p \in Passes,
               Start(h, u, p)
        PROVE  InsertsAreFresh'
    BY <1>1, StartFresh
  <1>2. ASSUME NEW h \in Handlers, Continue(h)
        PROVE  InsertsAreFresh'
    BY <1>2, ContinueFresh
  <1>3. ASSUME NEW p \in Passes, ReportExecutions(p)
        PROVE  InsertsAreFresh'
    <2>1. UNCHANGED handler
          /\ \A q \in Passes : status[q] = "none" => status'[q] = "none"
      BY <1>3 DEF ReportExecutions, SetPassOutcome, StillUnreported, TypeOK
    <2> QED BY <2>1 DEF InsertsAreFresh, Inserting, TypeOK
  <1>4. CASE \/ SyncPassPlans \/ EditStation \/ Tick \/ UNCHANGED vars
             \/ \E b \in BOOLEAN : SetWorkerOnline(b)
    <2>1. UNCHANGED <<status, handler>>
      BY <1>4 DEF SyncPassPlans, EditStation, Tick, SetWorkerOnline, vars, tables
    <2> QED BY <2>1 DEF InsertsAreFresh, Inserting
  <1> QED BY <1>1, <1>2, <1>3, <1>4 DEF Next

\* The strengthening holds of every reachable state.
LEMMA FreshCorrect == Spec => [](TypeOK /\ InsertsAreFresh)
  BY InitType, NextType, InitFresh, NextFresh, PTL DEF Spec

\* What a step of a handler does to a row that exists and is settled: nothing.
LEMMA ContinueKeepsTerminal ==
  ASSUME TypeOK, InsertsAreFresh, NEW h \in Handlers, Continue(h),
         NEW q \in Passes, IsTerminal(status[q])
  PROVE  status'[q] = status[q] /\ reason'[q] = reason[q] /\ owner'[q] = owner[q]
  <1>1. status[q] \in {"rejected", "cancelled", "completed", "failed", "missed"}
    BY TerminalStatuses
  <1>2. CASE CommitRequest(h) \/ CommitOverride(h)
    <2>1. Inserting(h) /\ status[handler[h].pass] = "none" /\ handler[h].pass # q
      BY <1>1, <1>2 DEF CommitRequest, CommitOverride, Serving, Inserting, InsertsAreFresh
    <2> QED BY <1>1, <1>2, <2>1 DEF CommitRequest, CommitOverride, tables, TypeOK,
                                    Conflicting, HoldsStation, liveStatuses
  <1>3. CASE GeneratePlan(h) \/ StorePlan(h) \/ Fail(h)
    BY <1>3 DEF GeneratePlan, StorePlan, Fail, tables
  <1>4. CASE CommitDecision(h, "approve", "approved") \/ CommitDecision(h, "reject", "rejected")
    BY <1>1, <1>4 DEF CommitDecision, StillPending, TypeOK
  <1>5. CASE CommitCancel(h)
    BY <1>1, <1>5 DEF CommitCancel, StillCancellable, TypeOK
  <1> QED BY <1>2, <1>3, <1>4, <1>5 DEF Continue

\* No step rewrites a settled pass.
LEMMA NextKeepsTerminal ==
  ASSUME TypeOK, InsertsAreFresh, [Next]_vars, NEW q \in Passes, IsTerminal(status[q])
  PROVE  status'[q] = status[q] /\ reason'[q] = reason[q] /\ owner'[q] = owner[q]
  <1>1. ASSUME NEW h \in Handlers, NEW u \in Users, NEW p \in Passes,
               Start(h, u, p)
        PROVE  UNCHANGED tables
    BY <1>1, StartLeavesPasses
  <1>2. ASSUME NEW h \in Handlers, Continue(h)
        PROVE  status'[q] = status[q] /\ reason'[q] = reason[q] /\ owner'[q] = owner[q]
    BY <1>2, ContinueKeepsTerminal
  <1>3. ASSUME NEW p \in Passes, ReportExecutions(p)
        PROVE  status'[q] = status[q] /\ reason'[q] = reason[q] /\ owner'[q] = owner[q]
    BY <1>3, TerminalStatuses DEF ReportExecutions, SetPassOutcome, StillUnreported, TypeOK
  <1>4. CASE \/ SyncPassPlans \/ EditStation \/ Tick \/ UNCHANGED vars
             \/ \E b \in BOOLEAN : SetWorkerOnline(b)
    BY <1>4 DEF SyncPassPlans, EditStation, Tick, SetWorkerOnline, vars, tables
  <1> QED BY <1>1, <1>2, <1>3, <1>4 DEF Next, tables

\* Nothing rewrites what a pass ended as, nor why: not a late approval, not a
\* cancellation or an override that read the row earlier, not a report.
THEOREM SettledPassesStaySettled == Spec => TerminalIsFinal
  <1>1. TypeOK /\ InsertsAreFresh /\ [Next]_vars =>
            [\A p \in Passes :
                IsTerminal(status[p]) => /\ status'[p] = status[p]
                                         /\ reason'[p] = reason[p]]_vars
    BY NextKeepsTerminal
  <1> QED BY <1>1, FreshCorrect, PTL DEF Spec, TerminalIsFinal

-----------------------------------------------------------------------------
(* A pass that an override cancelled has an override to show for it.       *)

\* Once decided for good, in one direction or the other.
WasApproved(p) == status[p] \notin {"none", "pending_approval", "rejected"}

\* The pass of an override in the way of q.
Explains(p, q) == WasApproved(p) /\ Overlaps(p, q) /\ Role[owner[p]] = "root"

\* A pass that was approved once never looks as if it had not been.
LEMMA ApprovedStaysApproved ==
  ASSUME TypeOK, InsertsAreFresh, [Next]_vars, NEW p \in Passes, WasApproved(p)
  PROVE  WasApproved(p)' /\ owner'[p] = owner[p]
  <1>1. ASSUME NEW h \in Handlers, NEW u \in Users, NEW r \in Passes,
               Start(h, u, r)
        PROVE  UNCHANGED tables
    BY <1>1, StartLeavesPasses
  <1>2. ASSUME NEW h \in Handlers, Continue(h)
        PROVE  WasApproved(p)' /\ owner'[p] = owner[p]
    <2>1. CASE CommitRequest(h) \/ CommitOverride(h)
      <3>1. handler[h].pass # p
        BY <2>1 DEF CommitRequest, CommitOverride, Serving, Inserting,
                    InsertsAreFresh, WasApproved
      <3> QED BY <2>1, <3>1 DEF CommitRequest, CommitOverride, tables, TypeOK, WasApproved
    <2>2. CASE GeneratePlan(h) \/ StorePlan(h) \/ Fail(h)
      BY <2>2 DEF GeneratePlan, StorePlan, Fail, tables, WasApproved
    <2>3. CASE CommitDecision(h, "approve", "approved") \/ CommitDecision(h, "reject", "rejected")
      BY <2>3 DEF CommitDecision, StillPending, TypeOK, WasApproved
    <2>4. CASE CommitCancel(h)
      BY <2>4 DEF CommitCancel, StillCancellable, TypeOK, WasApproved
    <2> QED BY <1>2, <2>1, <2>2, <2>3, <2>4 DEF Continue
  <1>3. ASSUME NEW r \in Passes, ReportExecutions(r)
        PROVE  WasApproved(p)' /\ owner'[p] = owner[p]
    BY <1>3 DEF ReportExecutions, SetPassOutcome, StillUnreported, Outcomes, TypeOK,
                WasApproved
  <1>4. CASE \/ SyncPassPlans \/ EditStation \/ Tick \/ UNCHANGED vars
             \/ \E b \in BOOLEAN : SetWorkerOnline(b)
    BY <1>4 DEF SyncPassPlans, EditStation, Tick, SetWorkerOnline, vars, tables,
                WasApproved
  <1> QED BY <1>1, <1>2, <1>3, <1>4 DEF Next, tables, WasApproved

\* A reason of an override that is new was given by an override that commits now.
LEMMA OverrideGivesReason ==
  ASSUME TypeOK, InsertsAreFresh, [Next]_vars, NEW q \in Passes,
         reason'[q] = "cancelled_by_root_override",
         reason[q] # "cancelled_by_root_override"
  PROVE  \E p \in Passes \ {q} : Explains(p, q)'
  <1>1. PICK h \in Handlers : CommitOverride(h)
    <2>1. ASSUME NEW h \in Handlers, NEW u \in Users, NEW r \in Passes,
                 Start(h, u, r)
          PROVE  FALSE
      BY <2>1, StartLeavesPasses DEF tables
    <2>2. ASSUME NEW h \in Handlers, Continue(h)
          PROVE  CommitOverride(h)
      BY <2>2 DEF Continue, CommitRequest, GeneratePlan, StorePlan, CommitDecision,
                  CommitCancel, CancellationReasonFor, Fail, tables, TypeOK
    <2>3. ASSUME NEW r \in Passes, ReportExecutions(r)
          PROVE  FALSE
      BY <2>3 DEF ReportExecutions, SetPassOutcome
    <2>4. CASE \/ SyncPassPlans \/ EditStation \/ Tick \/ UNCHANGED vars
               \/ \E b \in BOOLEAN : SetWorkerOnline(b)
      BY <2>4 DEF SyncPassPlans, EditStation, Tick, SetWorkerOnline, vars, tables
    <2> QED BY <2>1, <2>2, <2>3, <2>4 DEF Next
  <1> DEFINE p == handler[h].pass
  <1>2. /\ p \in Passes
        /\ status[p] = "none"
        /\ Role[handler[h].actor] = "root"
    BY <1>1 DEF CommitOverride, Serving, InsertsAreFresh, Inserting, TypeOK
  <1>3. q \in Conflicting(p)
    BY <1>1 DEF CommitOverride, TypeOK
  <1>4. p # q /\ Overlaps(p, q)
    BY <1>2, <1>3 DEF Conflicting, HoldsStation, liveStatuses
  <1>5. status'[p] = "approved" /\ owner'[p] = handler[h].actor
    BY <1>1, <1>2 DEF CommitOverride, TypeOK
  <1> QED BY <1>2, <1>4, <1>5 DEF Explains, WasApproved, Overlaps

\* Old evictions keep their explanation and new ones bring it along.
LEMMA NextExplained ==
  TypeOK /\ InsertsAreFresh /\ OverrideExplained /\ [Next]_vars => OverrideExplained'
  <1> SUFFICES ASSUME TypeOK, InsertsAreFresh, OverrideExplained, [Next]_vars,
                      NEW q \in Passes, reason'[q] = "cancelled_by_root_override"
               PROVE  \E p \in Passes \ {q} : Explains(p, q)'
    BY DEF OverrideExplained, Explains, WasApproved, Overlaps
  <1>1. CASE reason[q] = "cancelled_by_root_override"
    <2>1. PICK p \in Passes \ {q} : Explains(p, q)
      BY <1>1 DEF OverrideExplained, Explains, WasApproved
    <2>2. Explains(p, q)'
      BY <2>1, ApprovedStaysApproved DEF Explains, Overlaps
    <2> QED BY <2>2
  <1>2. CASE reason[q] # "cancelled_by_root_override"
    BY <1>2, OverrideGivesReason
  <1> QED BY <1>1, <1>2

\* Whoever loses a reservation to an override lost it to a pass of a root that
\* overlaps theirs and was approved: the transaction does both or neither.
THEOREM EvictionsAreExplained == Spec => []OverrideExplained
  <1>1. Init => OverrideExplained
    BY DEF Init, OverrideExplained
  <1>2. Spec => [](TypeOK /\ InsertsAreFresh /\ OverrideExplained)
    BY <1>1, InitType, NextType, InitFresh, NextFresh, NextExplained, PTL DEF Spec
  <1> QED BY <1>2, PTL

-----------------------------------------------------------------------------
(* A pending pass is approved only after its plan was stored.              *)

PlanHeld(h) == handler[h].at = "store" => handler[h].gen # NoPlan

PlanStored(h) ==
    Serving(h, "approve", "commit") => plan[handler[h].pass] # NoPlan

ApprovalsArePlanned == \A h \in Handlers : PlanHeld(h) /\ PlanStored(h)

\* A stored plan is replaced, never removed.
LEMMA PlansStay ==
  ASSUME TypeOK, ApprovalsArePlanned, [Next]_vars, NEW p \in Passes, plan[p] # NoPlan
  PROVE  plan'[p] # NoPlan
  <1>1. ASSUME NEW h \in Handlers, NEW u \in Users, NEW r \in Passes,
               Start(h, u, r)
        PROVE  plan'[p] # NoPlan
    BY <1>1, StartLeavesPasses DEF tables
  <1>2. ASSUME NEW h \in Handlers, Continue(h)
        PROVE  plan'[p] # NoPlan
    <2>1. CASE StorePlan(h)
      BY <2>1 DEF StorePlan, TypeOK, ApprovalsArePlanned, PlanHeld
    <2>2. CASE ~StorePlan(h)
      BY <1>2, <2>2 DEF Continue, CommitRequest, CommitOverride, GeneratePlan,
                        CommitDecision, CommitCancel, Fail, tables
    <2> QED BY <2>1, <2>2
  <1>3. CASE \/ \E r \in Passes : ReportExecutions(r)
             \/ SyncPassPlans \/ EditStation \/ Tick \/ UNCHANGED vars
             \/ \E b \in BOOLEAN : SetWorkerOnline(b)
    BY <1>3 DEF ReportExecutions, SetPassOutcome, SyncPassPlans, EditStation, Tick,
                SetWorkerOnline, vars, tables
  <1> QED BY <1>1, <1>2, <1>3 DEF Next

\* A handler that did not move keeps what it held, because plans stay.
LEMMA OthersKeepPlans ==
  ASSUME TypeOK, ApprovalsArePlanned, [Next]_vars, NEW h \in Handlers,
         handler'[h] = handler[h]
  PROVE  PlanHeld(h)' /\ PlanStored(h)'
  <1>1. PlanHeld(h)'
    BY DEF ApprovalsArePlanned, PlanHeld
  <1>2. ASSUME Serving(h, "approve", "commit")
        PROVE  plan'[handler[h].pass] # NoPlan
    <2>1. handler[h].pass \in Passes /\ plan[handler[h].pass] # NoPlan
      BY <1>2 DEF Serving, TypeOK, ApprovalsArePlanned, PlanStored
    <2> QED BY <2>1, PlansStay
  <1> QED BY <1>1, <1>2 DEF PlanStored, Serving

\* An approval that is about to commit keeps its plan.
LEMMA NextPlanned ==
  TypeOK /\ ApprovalsArePlanned /\ [Next]_vars => ApprovalsArePlanned'
  <1> SUFFICES ASSUME TypeOK, ApprovalsArePlanned, [Next]_vars, NEW k \in Handlers
               PROVE  PlanHeld(k)' /\ PlanStored(k)'
    BY DEF ApprovalsArePlanned
  <1>1. ASSUME NEW h \in Handlers, NEW u \in Users, NEW p \in Passes,
               Start(h, u, p)
        PROVE  PlanHeld(k)' /\ PlanStored(k)'
    <2>1. CASE k # h
      <3>1. handler'[k] = handler[k]
        BY <1>1, <2>1 DEF Start, BeginRequest, BeginOverride, BeginApprove,
                          BeginReject, BeginCancel, Begin, TypeOK
      <3> QED BY <3>1, OthersKeepPlans
    <2>2. CASE k = h
      <3>1. handler'[h].at # "store" /\ ~Serving(h, "approve", "commit")'
        BY <1>1 DEF Start, BeginRequest, BeginOverride, BeginApprove,
                    BeginReject, BeginCancel, Begin, Serving, TypeOK
      <3> QED BY <2>2, <3>1 DEF PlanHeld, PlanStored
    <2> QED BY <2>1, <2>2
  <1>2. ASSUME NEW h \in Handlers, Continue(h)
        PROVE  PlanHeld(k)' /\ PlanStored(k)'
    <2>1. CASE k # h
      <3>1. handler'[k] = handler[k]
        BY <1>2, <2>1 DEF Continue, CommitRequest, CommitOverride, GeneratePlan,
                StorePlan, CommitDecision, CommitCancel, Fail, Done, Goto, TypeOK
      <3> QED BY <3>1, OthersKeepPlans
    <2>2. CASE k = h /\ GeneratePlan(h)
      <3>1. handler' = [handler EXCEPT ![h] =
                          [@ EXCEPT !.at = "store", !.gen = content]]
        BY <2>2 DEF GeneratePlan
      <3>2. content # NoPlan
        BY DEF TypeOK, NoPlan
      <3>3. handler'[h].at = "store" /\ handler'[h].gen = content
        BY <3>1 DEF TypeOK, HandlerType
      <3> QED BY <2>2, <3>2, <3>3 DEF PlanHeld, PlanStored, Serving
    <2>3. CASE k = h /\ StorePlan(h)
      <3>1. handler[h].gen # NoPlan /\ handler[h].pass \in Passes
        BY <2>3 DEF StorePlan, ApprovalsArePlanned, PlanHeld, TypeOK
      <3>2. plan'[handler[h].pass] # NoPlan
        BY <2>3, <3>1 DEF StorePlan, TypeOK
      <3>3. /\ handler'[h].at # "store"
            /\ handler'[h].pass = handler[h].pass \/ handler'[h].at = "idle"
        BY <2>3 DEF StorePlan, Goto, Done, Idle, TypeOK, HandlerType
      <3> QED BY <2>3, <3>2, <3>3 DEF PlanHeld, PlanStored, Serving
    <2>4. CASE k = h /\ ~GeneratePlan(h) /\ ~StorePlan(h)
      <3>1. handler'[h] = Idle \/ handler'[h].at = "generate"
        BY <1>2, <2>4 DEF Continue, CommitRequest, CommitOverride, CommitDecision,
                          CommitCancel, Fail, Done, Goto, TypeOK, HandlerType
      <3> QED BY <2>4, <3>1 DEF PlanHeld, PlanStored, Serving, Idle
    <2> QED BY <2>1, <2>2, <2>3, <2>4
  <1>3. CASE \/ \E r \in Passes : ReportExecutions(r)
             \/ SyncPassPlans \/ EditStation \/ Tick \/ UNCHANGED vars
             \/ \E b \in BOOLEAN : SetWorkerOnline(b)
    <2>1. UNCHANGED handler
      BY <1>3 DEF ReportExecutions, SetPassOutcome, SyncPassPlans, EditStation, Tick,
                  SetWorkerOnline, vars
    <2> QED BY <2>1, OthersKeepPlans
  <1> QED BY <1>1, <1>2, <1>3 DEF Next

\* Approving a pending pass is the last thing decide does, after its plan is in
\* the table: the worker can be sent whatever is approved that way.
THEOREM ApprovedPassesWerePlanned == Spec => PlanBeforeApproval
  <1>1. Init => ApprovalsArePlanned
    BY DEF Init, Idle, ApprovalsArePlanned, PlanHeld, PlanStored, Serving
  <1>2. TypeOK /\ InsertsAreFresh /\ ApprovalsArePlanned /\ [Next]_vars =>
            [\A p \in Passes :
                status[p] = "pending_approval" /\ status'[p] = "approved" =>
                    plan[p] # NoPlan]_vars
    <2> SUFFICES ASSUME TypeOK, InsertsAreFresh, ApprovalsArePlanned, [Next]_vars,
                        NEW p \in Passes,
                        status[p] = "pending_approval", status'[p] = "approved"
                 PROVE  plan[p] # NoPlan
      OBVIOUS
    <2>1. ASSUME NEW h \in Handlers, NEW u \in Users, NEW r \in Passes,
                 Start(h, u, r)
          PROVE  FALSE
      BY <2>1, StartLeavesPasses DEF tables
    <2>2. ASSUME NEW h \in Handlers, Continue(h)
          PROVE  plan[p] # NoPlan
      <3>1. CASE CommitDecision(h, "approve", "approved")
        <4>1. handler[h].pass = p
          BY <3>1 DEF CommitDecision, TypeOK
        <4> QED BY <3>1, <4>1 DEF CommitDecision, ApprovalsArePlanned, PlanStored
      <3>2. CASE CommitOverride(h)
        <4>1. handler[h].pass # p
          BY <3>2 DEF CommitOverride, Serving, InsertsAreFresh, Inserting
        <4> QED BY <3>2, <4>1 DEF CommitOverride, TypeOK
      <3>3. CASE ~CommitDecision(h, "approve", "approved") /\ ~CommitOverride(h)
        BY <2>2, <3>3 DEF Continue, CommitRequest, GeneratePlan, StorePlan,
                          CommitDecision, CommitCancel, Fail, tables, TypeOK
      <3> QED BY <3>1, <3>2, <3>3
    <2>3. ASSUME NEW r \in Passes, ReportExecutions(r)
          PROVE  FALSE
      BY <2>3 DEF ReportExecutions, SetPassOutcome, Outcomes, TypeOK
    <2>4. CASE \/ SyncPassPlans \/ EditStation \/ Tick \/ UNCHANGED vars
               \/ \E b \in BOOLEAN : SetWorkerOnline(b)
      BY <2>4 DEF SyncPassPlans, EditStation, Tick, SetWorkerOnline, vars, tables
    <2> QED BY <2>1, <2>2, <2>3, <2>4 DEF Next
  <1>3. Spec => [](TypeOK /\ InsertsAreFresh /\ ApprovalsArePlanned)
    BY <1>1, InitType, NextType, InitFresh, NextFresh, NextPlanned, PTL DEF Spec
  <1> QED BY <1>2, <1>3, PTL DEF Spec, PlanBeforeApproval

-----------------------------------------------------------------------------
(* Plans are made from versions of the station's data.                     *)

PlansAreFrom(V) ==
    /\ content \in V
    /\ \A p \in Passes : plan[p] \in V \cup {NoPlan}
    /\ \A h \in Handlers : handler[h].gen \in V \cup {NoPlan}

PlansAreVersions == PlansAreFrom(0 .. MaxEdits)

\* The station starts with its first version, and no plan.
LEMMA InitPlans == Init => PlansAreFrom({0})
  BY DEF Init, PlansAreFrom, Idle

\* There are no plans to begin with.
LEMMA InitVersions == Init => PlansAreVersions
  BY InitPlans, BoundAssumption DEF PlansAreFrom, PlansAreVersions

\* A plan is generated from the version there is, and stored as it was generated.
LEMMA NextPlans ==
  ASSUME NEW V, TypeOK, PlansAreFrom(V), [Next]_vars, content' \in V
  PROVE  PlansAreFrom(V)'
  <1>1. ASSUME NEW h \in Handlers, NEW u \in Users, NEW p \in Passes, Start(h, u, p)
        PROVE  PlansAreFrom(V)'
    <2>1. UNCHANGED <<content, plan>>
      BY <1>1 DEF Start, BeginRequest, BeginOverride, BeginApprove, BeginReject,
                  BeginCancel, tables
    <2>2. \A k \in Handlers : handler'[k] = handler[k] \/ handler'[k].gen = NoPlan
      BY <1>1 DEF Start, BeginRequest, BeginOverride, BeginApprove, BeginReject,
                  BeginCancel, Begin, TypeOK
    <2> QED BY <2>1, <2>2 DEF PlansAreFrom
  <1>2. ASSUME NEW h \in Handlers, Continue(h)
        PROVE  PlansAreFrom(V)'
    <2>1. UNCHANGED content
      BY <1>2 DEF Continue, CommitRequest, CommitOverride, GeneratePlan, StorePlan,
                  CommitDecision, CommitCancel, Fail
    <2>2. UNCHANGED plan \/ plan' = [plan EXCEPT ![handler[h].pass] = handler[h].gen]
      BY <1>2 DEF Continue, CommitRequest, CommitOverride, GeneratePlan, StorePlan,
                  CommitDecision, CommitCancel, Fail, tables
    <2>3. \A k \in Handlers \ {h} : handler'[k] = handler[k]
      BY <1>2 DEF Continue, CommitRequest, CommitOverride, GeneratePlan, StorePlan,
             CommitDecision, CommitCancel, Fail, Done, Goto, TypeOK
    <2>4. handler'[h].gen \in {handler[h].gen, NoPlan, content}
      <3>1. CASE GeneratePlan(h)
        <4>1. handler' = [handler EXCEPT ![h] = [@ EXCEPT !.at = "store", !.gen = content]]
          BY <3>1 DEF GeneratePlan
        <4> QED BY <4>1 DEF TypeOK, HandlerType
      <3>2. CASE ~GeneratePlan(h)
        BY <1>2, <3>2 DEF Continue, CommitRequest, CommitOverride, StorePlan,
           CommitDecision, CommitCancel, Fail, Done, Goto, Idle, TypeOK, HandlerType
      <3> QED BY <3>1, <3>2
    <2> QED BY <2>1, <2>2, <2>3, <2>4 DEF PlansAreFrom, TypeOK
  <1>3. CASE \/ \E r \in Passes : ReportExecutions(r)
             \/ SyncPassPlans \/ EditStation \/ Tick \/ UNCHANGED vars
             \/ \E b \in BOOLEAN : SetWorkerOnline(b)
    <2>1. UNCHANGED <<plan, handler>>
      BY <1>3 DEF ReportExecutions, SetPassOutcome, SyncPassPlans, EditStation, Tick,
                  SetWorkerOnline, vars, tables
    <2> QED BY <2>1 DEF PlansAreFrom
  <1> QED BY <1>1, <1>2, <1>3 DEF Next

\* There are no more versions than edits.
LEMMA NextVersions == TypeOK /\ PlansAreVersions /\ [Next]_vars => PlansAreVersions'
  <1> SUFFICES ASSUME TypeOK, PlansAreVersions, [Next]_vars
               PROVE  PlansAreVersions'
    OBVIOUS
  <1>1. content \in 0 .. MaxEdits
    BY DEF PlansAreVersions, PlansAreFrom
  <1>2. content' = content \/ EditStation
    BY DEF Next, Start, BeginRequest, BeginOverride, BeginApprove, BeginReject, BeginCancel,
           Continue, CommitRequest, CommitOverride, GeneratePlan, StorePlan,
           CommitDecision, CommitCancel, Fail, SyncPassPlans, ReportExecutions,
           SetPassOutcome, SetWorkerOnline, Tick, vars
  <1>3. content' \in 0 .. MaxEdits
    BY <1>1, <1>2, BoundAssumption DEF EditStation
  <1> QED BY <1>3, NextPlans DEF PlansAreVersions

-----------------------------------------------------------------------------
(* Only a report says what a pass ended as.                                *)

\* No handler writes an outcome.
LEMMA ContinueGivesNoOutcome ==
  ASSUME TypeOK, NEW h \in Handlers, Continue(h), NEW p \in Passes, status'[p] \in Outcomes
  PROVE  status'[p] = status[p]
  BY DEF Continue, CommitRequest, CommitOverride, GeneratePlan, StorePlan, CommitDecision,
         CommitCancel, Fail, tables, TypeOK, Outcomes

-----------------------------------------------------------------------------
(* Scheduling implements StationBooking: the live passes hold reservations, *)
(* the terminal ones have released theirs.                                  *)

Holding == {p \in Passes : HoldsStation(p)}
Released == {p \in Passes : IsTerminal(status[p])}

\* A status is live or terminal, never both.
LEMMA NobodyHoldsAndReleases ==
  ASSUME NEW p \in Passes, HoldsStation(p)
  PROVE  ~IsTerminal(status[p])
  BY TerminalStatuses DEF HoldsStation, liveStatuses

\* A pass that ends releases its reservation, and nothing else happens.
LEMMA EndingReleases ==
  ASSUME TypeOK, NEW p \in Passes, NEW s,
         HoldsStation(p), IsTerminal(s), status' = [status EXCEPT ![p] = s]
  PROVE  Booking!Release(p)
  <1>1. ~HoldsStation(p)' /\ IsTerminal(status'[p])
    BY TerminalStatuses DEF HoldsStation, liveStatuses, TypeOK
  <1>2. \A q \in Passes \ {p} : status'[q] = status[q]
    BY DEF TypeOK
  <1>3. Holding' = Holding \ {p}
    BY <1>1, <1>2 DEF Holding, HoldsStation
  <1>4. Released' = Released \cup {p}
    BY <1>1, <1>2 DEF Released
  <1> QED BY <1>3, <1>4 DEF Booking!Release, Holding, Released

\* A step that keeps every live pass live and every final one final.
LEMMA KeepingStutters ==
  ASSUME \A p \in Passes :
            /\ HoldsStation(p)' <=> HoldsStation(p)
            /\ IsTerminal(status'[p]) <=> IsTerminal(status[p])
  PROVE  UNCHANGED Booking!vars
  <1>1. Holding' = Holding
    BY DEF Holding, HoldsStation
  <1>2. Released' = Released
    BY DEF Released
  <1> QED BY <1>1, <1>2 DEF Booking!vars, Holding, Released

\* A request that commits reserves free time, or changes nothing.
LEMMA RequestBooks ==
  ASSUME TypeOK, InsertsAreFresh, NEW h \in Handlers, CommitRequest(h)
  PROVE  [Booking!Next]_Booking!vars
  <1>1. PICK p \in Passes : p = handler[h].pass /\ status[p] = "none"
    BY DEF CommitRequest, Serving, InsertsAreFresh, Inserting, TypeOK
  <1>2. CASE UNCHANGED tables
    <2>1. UNCHANGED Booking!vars
      BY <1>2, KeepingStutters DEF tables, HoldsStation
    <2> QED BY <2>1
  <1>3. CASE /\ Conflicting(p) = {}
             /\ status' = [status EXCEPT ![p] = "pending_approval"]
    <2>1. HoldsStation(p)' /\ ~IsTerminal(status'[p]) /\ ~IsTerminal(status[p])
          /\ ~HoldsStation(p)
      BY <1>1, <1>3, TerminalStatuses DEF HoldsStation, liveStatuses, TypeOK
    <2>2. \A q \in Passes \ {p} : status'[q] = status[q]
      BY <1>3 DEF TypeOK
    <2>3. Holding' = Holding \cup {p} /\ Released' = Released
      BY <1>1, <2>1, <2>2 DEF Holding, Released, HoldsStation
    <2>4. Booking!InTheWayOf(p) = {}
      BY <1>3 DEF Booking!InTheWayOf, Booking!Overlaps, Conflicting, Overlaps
    <2>5. Booking!Fresh(p)
      BY <2>1 DEF Booking!Fresh
    <2>6. Booking!Reserve(p)
      BY <2>3, <2>4, <2>5 DEF Booking!Reserve, Holding, Released
    <2> QED BY <1>1, <2>6 DEF Booking!Next
  <1> QED BY <1>1, <1>2, <1>3 DEF CommitRequest

\* An override that commits evicts exactly what is in its way.
LEMMA OverrideBooks ==
  ASSUME TypeOK, InsertsAreFresh, NEW h \in Handlers, CommitOverride(h)
  PROVE  [Booking!Next]_Booking!vars
  <1>1. PICK p \in Passes : p = handler[h].pass /\ status[p] = "none"
    BY DEF CommitOverride, Serving, InsertsAreFresh, Inserting, TypeOK
  <1>0. PICK victims \in SUBSET Passes : victims = Conflicting(p)
    BY DEF Conflicting
  <1>2. status' = [q \in Passes |->
                      IF q = p THEN "approved"
                      ELSE IF q \in victims THEN "cancelled" ELSE status[q]]
    BY <1>1, <1>0 DEF CommitOverride
  <1>3. victims = Booking!InTheWayOf(p)
    BY <1>0 DEF Booking!InTheWayOf, Booking!Overlaps, Conflicting, Overlaps
  <1>4. ~HoldsStation(p) /\ ~IsTerminal(status[p]) /\ p \notin victims
    BY <1>1, <1>0, TerminalStatuses DEF HoldsStation, liveStatuses, Conflicting
  <1>5. HoldsStation(p)' /\ ~IsTerminal(status'[p])
    BY <1>1, <1>2, TerminalStatuses DEF HoldsStation, liveStatuses
  <1>6. \A q \in victims : q \in Passes /\ ~HoldsStation(q)' /\ IsTerminal(status'[q])
    BY <1>2, <1>4, TerminalStatuses DEF HoldsStation, liveStatuses, Conflicting
  <1>7. \A q \in Passes : q # p /\ q \notin victims => status'[q] = status[q]
    BY <1>2
  <1>8. Holding' = (Holding \ victims) \cup {p}
    BY <1>1, <1>4, <1>5, <1>6, <1>7 DEF Holding, HoldsStation
  <1>9. Released' = Released \cup victims
    BY <1>1, <1>4, <1>5, <1>6, <1>7 DEF Released
  <1>10. Booking!Fresh(p)
    BY <1>4 DEF Booking!Fresh
  <1>11. Booking!Evict(p)
    BY <1>3, <1>8, <1>9, <1>10 DEF Booking!Evict, Holding, Released
  <1> QED BY <1>1, <1>11 DEF Booking!Next

\* The other statements of a handler end a pass, approve it, or do nothing.
LEMMA DecisionBooks ==
  ASSUME TypeOK, NEW h \in Handlers,
         \/ CommitDecision(h, "approve", "approved")
         \/ CommitDecision(h, "reject", "rejected")
         \/ CommitCancel(h)
  PROVE  [Booking!Next]_Booking!vars
  <1> DEFINE p == handler[h].pass
  <1>1. p \in Passes
    BY DEF CommitDecision, CommitCancel, Serving, TypeOK
  <1>2. CASE UNCHANGED status
    <2>1. UNCHANGED Booking!vars
      BY <1>2, KeepingStutters DEF HoldsStation
    <2> QED BY <2>1
  <1>3. CASE StillPending(p) /\ status' = [status EXCEPT ![p] = "approved"]
    <2>1. UNCHANGED Booking!vars
      BY <1>1, <1>3, KeepingStutters, TerminalStatuses
      DEF HoldsStation, liveStatuses, StillPending, TypeOK
    <2> QED BY <2>1
  <1>4. CASE /\ StillCancellable(p)
             /\ \/ status' = [status EXCEPT ![p] = "rejected"]
                \/ status' = [status EXCEPT ![p] = "cancelled"]
    <2>1. HoldsStation(p)
      BY <1>4 DEF StillCancellable, HoldsStation, liveStatuses
    <2>2. Booking!Release(p)
      BY <1>1, <1>4, <2>1, EndingReleases, TerminalStatuses
    <2> QED BY <1>1, <2>2 DEF Booking!Next
  <1> QED BY <1>1, <1>2, <1>3, <1>4
          DEF CommitDecision, CommitCancel, StillPending, StillCancellable, TypeOK

\* A report ends a pass, or changes nothing.
LEMMA ReportBooks ==
  ASSUME TypeOK, NEW p \in Passes, ReportExecutions(p)
  PROVE  [Booking!Next]_Booking!vars
  <1>1. CASE UNCHANGED status
    <2>1. UNCHANGED Booking!vars
      BY <1>1, KeepingStutters DEF HoldsStation
    <2> QED BY <2>1
  <1>2. CASE ~UNCHANGED status
    <2>1. PICK s \in Outcomes : SetPassOutcome(p, s)
      BY DEF ReportExecutions
    <2>2. StillUnreported(p) /\ status' = [status EXCEPT ![p] = s]
      BY <1>2, <2>1 DEF SetPassOutcome, TypeOK
    <2>3. HoldsStation(p) /\ IsTerminal(s)
      BY <2>2, TerminalStatuses DEF StillUnreported, HoldsStation, liveStatuses, Outcomes
    <2>4. Booking!Release(p)
      BY <2>2, <2>3, EndingReleases
    <2> QED BY <2>4 DEF Booking!Next
  <1> QED BY <1>1, <1>2

\* Every step is one of StationBooking, or a stutter.
LEMMA NextBooks ==
  ASSUME TypeOK, InsertsAreFresh, [Next]_vars
  PROVE  [Booking!Next]_Booking!vars
  <1>1. ASSUME UNCHANGED status
        PROVE  [Booking!Next]_Booking!vars
    <2>1. UNCHANGED Booking!vars
      BY <1>1, KeepingStutters DEF HoldsStation
    <2> QED BY <2>1
  <1>2. ASSUME NEW h \in Handlers, NEW u \in Users, NEW p \in Passes,
               Start(h, u, p)
        PROVE  [Booking!Next]_Booking!vars
    BY <1>1, <1>2, StartLeavesPasses DEF tables
  <1>3. ASSUME NEW h \in Handlers, Continue(h)
        PROVE  [Booking!Next]_Booking!vars
    <2>1. CASE GeneratePlan(h) \/ StorePlan(h) \/ Fail(h)
      BY <1>1, <2>1 DEF GeneratePlan, StorePlan, Fail, tables
    <2> QED BY <1>3, <2>1, RequestBooks, OverrideBooks, DecisionBooks DEF Continue
  <1>4. ASSUME NEW p \in Passes, ReportExecutions(p)
        PROVE  [Booking!Next]_Booking!vars
    BY <1>4, ReportBooks
  <1>5. CASE \/ SyncPassPlans \/ EditStation \/ Tick \/ UNCHANGED vars
             \/ \E b \in BOOLEAN : SetWorkerOnline(b)
    BY <1>1, <1>5 DEF SyncPassPlans, EditStation, Tick, SetWorkerOnline, vars, tables
  <1> QED BY <1>2, <1>3, <1>4, <1>5 DEF Next

\* Every step of every handler is a reservation of free time, an eviction of
\* exactly what is in the way, a release, or none of the station's business.
THEOREM SchedulingImplementsBooking == Spec => BookingRefined
  <1>1. Init => Booking!Init
    BY TerminalStatuses DEF Init, Booking!Init, HoldsStation, liveStatuses
  <1>2. TypeOK /\ InsertsAreFresh /\ [Next]_vars => [Booking!Next]_Booking!vars
    BY NextBooks
  <1> QED BY <1>1, <1>2, FreshCorrect, PTL DEF Spec, BookingRefined, Booking!Spec

=============================================================================
