---------------------------- MODULE UploadsProofs ---------------------------
(***************************************************************************)
(* Theorems about Uploads, for any recordings, users and handlers, and any *)
(* number of faults.                                                       *)
(***************************************************************************)
EXTENDS Uploads, SequenceTheorems, FiniteSetTheorems, TLAPS

-----------------------------------------------------------------------------
(* The inductive invariant.                                                *)

WorkerPoints == {"idle", "uploading", "calling", "acked", "heard", "retaining", "unlinked"}
HandlerPoints == {"free", "start", "receiving", "received", "placed", "verified", "held",
                  "refused"}
Busy == {"start", "receiving", "received", "placed", "verified"}
Contents == {"none", "intact", "spoiled"}

WorkerRecord ==
    [at : WorkerPoints, todo : Seq(Recordings), pressure : BOOLEAN,
     call : Handlers \union {NoHandler}]
HandlerRecord ==
    [at : HandlerPoints, rec : Recordings \union {NoRecording}, attached : BOOLEAN,
     content : Contents]

\* What the worker and the handlers hold where they are.
Holding ==
    /\ worker \in WorkerRecord
    /\ handler \in [Handlers -> HandlerRecord]
    /\ ToSet(worker.todo) \subseteq Registered
    /\ worker.at \in {"calling", "acked", "unlinked"} => worker.todo # <<>>
    /\ \A h \in Handlers : handler[h].at # "free" => handler[h].rec \in Recordings

\* The worker waits for the one handler that still has a caller.
Connected ==
    /\ worker.at = "calling" => /\ worker.call \in Handlers
                                /\ handler[worker.call].attached
    /\ \A h \in Handlers : handler[h].attached =>
          /\ worker.at = "calling" /\ worker.call = h
          /\ handler[h].at # "free" /\ handler[h].rec = Head(worker.todo)

\* What a call received, and that it is no further than that allows.
Received ==
    \A h \in Handlers :
        /\ handler[h].content = "spoiled" => handler[h].rec \in altered
        /\ handler[h].at \in {"received", "placed", "verified"} => handler[h].content # "none"
        /\ handler[h].at = "verified" => handler[h].content = "intact"

\* Two calls at work on one recording have met.
Together ==
    \A r \in Recordings, g, h \in Handlers :
        g # h /\ AtWork(g, r) /\ AtWork(h, r) => r \in overlapped

\* A call past its lookup that finds a row has met the call that inserted it.
Late ==
    \A h \in Handlers :
        handler[h].at \in Busy \ {"start"} /\ handler[h].rec \in rows =>
            handler[h].rec \in overlapped

\* Unless it is disputed, what a call has put in its place is there when its row is
\* inserted, and nothing takes it away again.
InPlace ==
    /\ \A r \in rows : stored[r] = "intact" \/ r \in Disputed
    /\ \A h \in Handlers :
          /\ handler[h].at \in {"placed", "verified"} /\ handler[h].rec \notin Disputed =>
                stored[handler[h].rec] = handler[h].content
          /\ handler[h].at = "held" => handler[h].rec \in rows

Kept == Received /\ Late /\ InPlace

\* What the worker takes for confirmed, or is about to, has its row.
Confirmed ==
    /\ uploaded \subseteq rows
    /\ worker.at = "acked" => Head(worker.todo) \in rows

\* What counts as deleted is not on the disk.
Gone ==
    /\ disk \intersect deleted = {}
    /\ worker.at = "unlinked" => Head(worker.todo) \notin disk

\* Before an unconfirmed copy in the queue come all confirmed ones that can go.
ConfirmedFirst ==
    worker.at \in {"retaining", "unlinked"} =>
        \A j \in DOMAIN worker.todo : worker.todo[j] \notin uploaded =>
            /\ worker.pressure
            /\ \A r \in disk \intersect uploaded : r \notin Undeletable =>
                  \E i \in DOMAIN worker.todo : i < j /\ worker.todo[i] = r

Inv ==
    /\ TypeOK
    /\ Holding
    /\ Connected
    /\ Together
    /\ Kept
    /\ Confirmed
    /\ Gone
    /\ ConfirmedFirst

-----------------------------------------------------------------------------
(* Sequences.                                                              *)

\* The head of a queue and what remains.
LEMMA Queue ==
  ASSUME NEW S, NEW s \in Seq(S), s # <<>>
  PROVE  /\ Head(s) = s[1] /\ Head(s) \in S /\ Head(s) \in ToSet(s) /\ 1 \in DOMAIN s
         /\ Tail(s) \in Seq(S) /\ ToSet(Tail(s)) \subseteq ToSet(s)
         /\ DOMAIN Tail(s) = 1 .. Len(s) - 1 /\ DOMAIN s = 1 .. Len(s) /\ Len(s) \in Nat \ {0}
         /\ \A i \in 1 .. Len(s) - 1 : Tail(s)[i] = s[i + 1]
  <1>1. /\ Head(s) \in S /\ Tail(s) \in Seq(S) /\ Len(Tail(s)) = Len(s) - 1
        /\ \A i \in 1 .. Len(Tail(s)) : Tail(s)[i] = s[i + 1]
    BY HeadTailProperties
  <1>2. Len(s) \in Nat \ {0} /\ Head(s) = s[1] /\ DOMAIN s = 1 .. Len(s)
    BY EmptySeq, LenProperties
  <1>3. DOMAIN Tail(s) = 1 .. Len(s) - 1
    BY <1>1, <1>2, LenProperties
  <1> QED BY <1>1, <1>2, <1>3 DEF ToSet

\* The empty queue.
LEMMA EmptyQueue == <<>> \in Seq(Recordings) /\ ToSet(<<>>) = {} /\ DOMAIN <<>> = {}
  BY DEF ToSet

\* A recording is registered at the end of the table.
LEMMA Registration ==
  ASSUME table \in Seq(Recordings), NEW r \in Recordings, table' = Append(table, r)
  PROVE  /\ table' \in Seq(Recordings) /\ Registered' = Registered \union {r}
         /\ Len(table') = Len(table) + 1 /\ Len(table) \in Nat
  <1>1. /\ table' \in Seq(Recordings) /\ Len(table') = Len(table) + 1
        /\ \A i \in 1 .. Len(table) : table'[i] = table[i]
        /\ table'[Len(table) + 1] = r
    BY AppendProperties
  <1>2. DOMAIN table = 1 .. Len(table) /\ DOMAIN table' = 1 .. Len(table) + 1 /\ Len(table) \in Nat
    BY <1>1, LenProperties
  <1> QED BY <1>1, <1>2 DEF Registered, ToSet

\* A query returns what it asks for.
LEMMA QueryReturns ==
  ASSUME NEW S \in SUBSET Registered, table \in Seq(Recordings), NEW s \in InOrder(S)
  PROVE  s \in Seq(Recordings) /\ ToSet(s) = S /\ DOMAIN s = 1 .. Len(s) /\ Len(s) \in Nat
  <1>1. Len(table) \in Nat /\ DOMAIN table = 1 .. Len(table) /\ Registered \subseteq Recordings
    BY LenProperties DEF Registered, ToSet
  <1>2. Cardinality(S) \in Nat
    <2>1. IsFiniteSet(1 .. Len(table))
      BY <1>1, FS_Interval
    <2>2. table \in Surjection(1 .. Len(table), Registered)
      BY <1>1, LenProperties DEF Surjection, Registered, ToSet
    <2> QED BY <2>1, <2>2, FS_Surjection, FS_Subset, FS_CardinalityType
  <1>3. s \in [1 .. Cardinality(S) -> S] /\ ToSet(s) = S
    BY DEF InOrder
  <1>4. s \in Seq(Recordings)
    BY <1>1, <1>2, <1>3, SeqDef
  <1> QED BY <1>3, <1>4, LenProperties

-----------------------------------------------------------------------------
(* What the worker does by itself leaves the server's half as it is.       *)

\* A handler without a call.
LEMMA FreeHandler ==
  Free \in HandlerRecord /\ Free.at = "free" /\ ~Free.attached /\ Free.content = "none"
  BY DEF Free, HandlerRecord, HandlerPoints, Contents

\* The server keeps what it keeps where calls end and nothing else happens there.
LEMMA ServerKeeps ==
  ASSUME Together, Kept, UNCHANGED <<stored, rows, altered, overlapped>>,
         \A h \in Handlers : \/ handler'[h] = Free
                             \/ /\ handler'[h].at = handler[h].at
                                /\ handler'[h].rec = handler[h].rec
                                /\ handler'[h].content = handler[h].content
  PROVE  Together' /\ Kept'
  <1>1. Disputed' = Disputed
    BY DEF Disputed
  <1>2. \A h \in Handlers, r \in Recordings : AtWork(h, r)' => AtWork(h, r)
    BY FreeHandler DEF AtWork
  <1>3. Together'
    BY <1>2 DEF Together
  <1>4. Received'
    BY FreeHandler DEF Kept, Received
  <1>5. Late'
    BY FreeHandler DEF Kept, Late, Busy
  <1>6. InPlace'
    BY <1>1, FreeHandler DEF Kept, InPlace
  <1> QED BY <1>3, <1>4, <1>5, <1>6 DEF Kept

-----------------------------------------------------------------------------
(* The executor.                                                           *)

\* The cycle's and the server's half of the invariant where only the station's own
\* records grow.
LEMMA StationStep ==
  ASSUME Inv, UNCHANGED <<worker, server, faults, uploaded, deleted>>,
         disk \subseteq disk', disk' \subseteq Recordings,
         \A r \in disk' \ disk : r \notin Registered,
         table' \in Seq(Recordings), Registered \subseteq Registered',
         aged' \in 0 .. Len(table'), executor' \in Recordings \union {NoRecording},
         changed' \subseteq Registered'
  PROVE  Inv'
  <1>1. UNCHANGED <<handler, stored, rows, link, altered, overlapped>>
    BY DEF server, past
  <1>2. uploaded \subseteq Registered /\ deleted \subseteq Registered
    BY DEF Inv, TypeOK
  <1>3. TypeOK'
    BY <1>1, <1>2 DEF Inv, TypeOK
  <1>4. Holding' /\ Connected'
    BY <1>1 DEF Inv, Holding, Connected
  <1>5. Together' /\ Kept' /\ Confirmed'
    BY <1>1, ServerKeeps DEF Inv, Confirmed
  <1>6. Gone'
    <2>1. ASSUME worker.at = "unlinked"
          PROVE  Head(worker.todo) \in Registered
      BY <2>1, Queue DEF Inv, Holding, WorkerRecord
    <2> QED BY <1>2, <2>1 DEF Inv, Gone
  <1>7. ConfirmedFirst'
    BY <1>2 DEF Inv, ConfirmedFirst
  <1> QED BY <1>3, <1>4, <1>5, <1>6, <1>7 DEF Inv

\* A pass leaves a file that is not registered yet.
LEMMA PassFinishesStep ==
  ASSUME Inv, NEW r \in Recordings, PassFinishes(r)
  PROVE  Inv'
  <1>1. /\ disk' = disk \union {r} /\ disk \subseteq Recordings /\ r \notin Registered
        /\ executor' = r
        /\ UNCHANGED <<table, aged, changed, worker, server, faults, uploaded, deleted>>
        /\ table \in Seq(Recordings) /\ aged \in 0 .. Len(table) /\ changed \subseteq Registered
    BY DEF PassFinishes, Inv, TypeOK
  <1>2. Registered' = Registered
    BY <1>1 DEF Registered
  <1> QED BY <1>1, <1>2, StationStep

\* Registration leaves everything registered where it is.
LEMMA RegisterStep ==
  ASSUME Inv, RegisterPassOutput
  PROVE  Inv'
  <1>1. /\ UNCHANGED <<disk, aged, changed, worker, server, faults, uploaded, deleted>>
        /\ executor' = NoRecording /\ executor \in Recordings
        /\ table' = IF executor \in Registered THEN table ELSE Append(table, executor)
        /\ disk \subseteq Recordings /\ changed \subseteq Registered
        /\ table \in Seq(Recordings) /\ aged \in 0 .. Len(table)
    BY DEF RegisterPassOutput, Inv, TypeOK
  <1>2. /\ table' \in Seq(Recordings) /\ Registered \subseteq Registered'
        /\ aged' \in 0 .. Len(table')
    <2>1. CASE executor \in Registered
      BY <1>1, <2>1 DEF Registered
    <2>2. CASE executor \notin Registered
      BY <1>1, <2>2, Registration
    <2> QED BY <2>1, <2>2
  <1> QED BY <1>1, <1>2, StationStep

\* A file changes that is in the table.
LEMMA ChangeStep ==
  ASSUME Inv, NEW r \in Recordings, Change(r)
  PROVE  Inv'
  <1>1. /\ UNCHANGED <<disk, table, aged, worker, server, faults, uploaded, deleted, executor>>
        /\ changed' = changed \union {r} /\ r \in Registered /\ changed \subseteq Registered
        /\ disk \subseteq Recordings /\ executor \in Recordings \union {NoRecording}
        /\ table \in Seq(Recordings) /\ aged \in 0 .. Len(table)
    BY DEF Change, Inv, TypeOK
  <1>2. Registered' = Registered
    BY <1>1 DEF Registered
  <1> QED BY <1>1, <1>2, StationStep

\* Time passes only for what is in the table.
LEMMA AgeStep ==
  ASSUME Inv, Age
  PROVE  Inv'
  <1>1. /\ UNCHANGED <<disk, table, worker, server, faults, uploaded, deleted, executor, changed>>
        /\ aged' = aged + 1 /\ aged < Len(table) /\ changed \subseteq Registered
        /\ disk \subseteq Recordings /\ executor \in Recordings \union {NoRecording}
        /\ table \in Seq(Recordings) /\ aged \in 0 .. Len(table)
    BY DEF Age, Inv, TypeOK
  <1>2. Registered' = Registered /\ aged' \in 0 .. Len(table')
    BY <1>1, LenProperties DEF Registered
  <1> QED BY <1>1, <1>2, StationStep

-----------------------------------------------------------------------------
(* The cycle.                                                              *)

\* The worker goes on with another queue of what is registered, and no call.
LEMMA CycleMoves ==
  ASSUME Inv, UNCHANGED <<local, handler, stored, rows, past>>,
         link' \in {"offline", "online", "silent"}, faults' \in 0 .. MaxFaults,
         worker.at # "calling",
         worker' \in WorkerRecord, ToSet(worker'.todo) \subseteq Registered,
         worker'.at \notin {"calling", "acked", "unlinked"},
         ConfirmedFirst'
  PROVE  Inv'
  <1>1. /\ UNCHANGED <<disk, table, uploaded, deleted, aged, executor, changed>>
        /\ UNCHANGED <<altered, overlapped>> /\ Registered' = Registered
    BY DEF local, past, Registered
  <1>2. TypeOK'
    BY <1>1 DEF Inv, TypeOK, WorkerRecord, WorkerPoints
  <1>3. Holding'
    BY <1>1 DEF Inv, Holding
  <1>4. Connected'
    BY DEF Inv, Connected
  <1>5. Together' /\ Kept' /\ Confirmed' /\ Gone'
    BY <1>1, ServerKeeps DEF Inv, Confirmed, Gone
  <1> QED BY <1>2, <1>3, <1>4, <1>5 DEF Inv

\* What is queued, and that the cycle rests without a queue.
LEMMA Queues ==
  ASSUME Inv
  PROVE  /\ worker \in WorkerRecord /\ worker.todo \in Seq(Recordings)
         /\ ToSet(worker.todo) \subseteq Registered /\ Registered \subseteq Recordings
         /\ Resting \in WorkerRecord /\ Resting.at = "idle" /\ ToSet(Resting.todo) = {}
  <1>1. worker \in WorkerRecord /\ worker.todo \in Seq(Recordings)
        /\ ToSet(worker.todo) \subseteq Registered
    BY DEF Inv, Holding, WorkerRecord
  <1>2. table \in Seq(Recordings)
    BY DEF Inv, TypeOK
  <1>3. Registered \subseteq Recordings
    BY <1>2, LenProperties DEF Registered, ToSet
  <1> QED BY <1>1, <1>3, EmptyQueue DEF Resting, WorkerRecord, WorkerPoints

\* The uploads begin with what is registered and not confirmed.
LEMMA StartUploadsStep ==
  ASSUME Inv, StartUploads
  PROVE  Inv'
  <1>1. PICK todo \in PendingUploads : worker' = [worker EXCEPT !.at = "uploading", !.todo = todo]
    BY DEF StartUploads
  <1>2. todo \in Seq(Recordings) /\ ToSet(todo) \subseteq Registered
    BY <1>1, Queues, QueryReturns DEF PendingUploads, Inv, TypeOK
  <1>3. /\ worker' \in WorkerRecord /\ worker'.at = "uploading" /\ worker'.todo = todo
        /\ worker.at = "idle"
    BY <1>1, <1>2, Queues DEF WorkerRecord, WorkerPoints, StartUploads
  <1>4. ConfirmedFirst'
    BY <1>3 DEF ConfirmedFirst
  <1>5. UNCHANGED <<local, handler, stored, rows, link, past, faults>>
    BY DEF StartUploads, server
  <1> QED BY <1>2, <1>3, <1>4, <1>5, CycleMoves DEF Inv, TypeOK

\* A recording that is missing counts as deleted.
LEMMA SkipMissingStep ==
  ASSUME Inv, SkipMissing
  PROVE  Inv'
  <1>1. /\ worker.at = "uploading" /\ worker.todo # <<>> /\ Head(worker.todo) \notin disk
        /\ deleted' = deleted \union {Head(worker.todo)}
        /\ worker' = [worker EXCEPT !.todo = Tail(@)]
        /\ UNCHANGED <<disk, table, uploaded, aged, executor, changed, handler, stored, rows, link,
                       altered, overlapped, faults>>
    BY DEF SkipMissing, Uploading, server, past
  <1>2. /\ Head(worker.todo) \in Registered /\ Tail(worker.todo) \in Seq(Recordings)
        /\ ToSet(Tail(worker.todo)) \subseteq Registered
    BY <1>1, Queues, Queue
  <1>3. worker' \in WorkerRecord /\ worker'.at = "uploading" /\ worker'.todo = Tail(worker.todo)
    BY <1>1, <1>2, Queues DEF WorkerRecord
  <1>4. Registered' = Registered
    BY <1>1 DEF Registered
  <1>5. TypeOK'
    BY <1>1, <1>2, <1>3, <1>4 DEF Inv, TypeOK
  <1>6. Holding'
    BY <1>1, <1>2, <1>3, <1>4 DEF Inv, Holding
  <1>7. Connected' /\ Together' /\ Kept' /\ Confirmed'
    BY <1>1, <1>3, ServerKeeps DEF Inv, Connected, Confirmed
  <1>8. Gone' /\ ConfirmedFirst'
    BY <1>1, <1>3 DEF Inv, Gone, ConfirmedFirst
  <1> QED BY <1>5, <1>6, <1>7, <1>8 DEF Inv

\* A call is connected to the handler that takes it up.
LEMMA CallUploadStep ==
  ASSUME Inv, NEW h \in Handlers, CallUpload(h)
  PROVE  Inv'
  <1> DEFINE new == [at |-> "start", rec |-> Head(worker.todo), attached |-> TRUE,
                     content |-> "none"]
  <1>1. /\ worker.at = "uploading" /\ worker.todo # <<>>
        /\ handler' = [handler EXCEPT ![h] = new]
        /\ worker' = [worker EXCEPT !.at = "calling", !.call = h]
        /\ overlapped' = overlapped \union
              {r \in {Head(worker.todo)} : \E g \in Handlers : AtWork(g, r)}
        /\ UNCHANGED <<disk, table, uploaded, deleted, aged, executor, changed, stored, rows, link,
                       altered, faults>>
    BY DEF CallUpload, Uploading, local
  <1>2. worker' \in WorkerRecord /\ worker'.at = "calling" /\ worker'.call = h
        /\ worker'.todo = worker.todo
    BY <1>1, Queues DEF WorkerRecord, WorkerPoints
  <1>3. Head(worker.todo) \in Recordings
    BY <1>1, Queues, Queue
  <1>4. /\ new \in HandlerRecord /\ new.at = "start" /\ new.rec = Head(worker.todo) /\ new.attached
        /\ new.content = "none"
    BY <1>3 DEF HandlerRecord, HandlerPoints, Contents
  <1> HIDE DEF new
  <1>5. /\ handler' \in [Handlers -> HandlerRecord] /\ handler'[h] = new
        /\ \A g \in Handlers \ {h} : handler'[g] = handler[g]
    BY <1>1, <1>4 DEF Inv, Holding
  <1>6. Registered' = Registered
    BY <1>1 DEF Registered
  <1>7. TypeOK'
    <2>1. overlapped' \subseteq Recordings
      BY <1>1, <1>3 DEF Inv, TypeOK
    <2> QED BY <1>1, <1>2, <1>4, <1>5, <1>6, <2>1 DEF Inv, TypeOK
  <1>8. Holding'
    BY <1>1, <1>2, <1>3, <1>4, <1>5, <1>6, Queues DEF Inv, Holding
  <1>9. Connected'
    BY <1>1, <1>2, <1>4, <1>5 DEF Inv, Connected
  <1>10. Together'
    <2>1. \A g \in Handlers \ {h}, r \in Recordings : AtWork(g, r)' => AtWork(g, r)
      BY <1>5 DEF AtWork
    <2>2. \A r \in Recordings : AtWork(h, r)' => r = Head(worker.todo)
      BY <1>4, <1>5 DEF AtWork
    <2> QED BY <1>1, <2>1, <2>2 DEF Inv, Together
  <1>11. Kept'
    <2>1. Disputed \subseteq Disputed'
      BY <1>1 DEF Disputed
    <2>2. Received'
      BY <1>1, <1>4, <1>5 DEF Inv, Kept, Received
    <2>3. Late'
      BY <1>1, <1>4, <1>5 DEF Inv, Kept, Late, Busy
    <2>4. InPlace'
      BY <1>1, <1>4, <1>5, <2>1 DEF Inv, Kept, InPlace
    <2> QED BY <2>2, <2>3, <2>4 DEF Kept
  <1>12. Confirmed' /\ Gone' /\ ConfirmedFirst'
    BY <1>1, <1>2 DEF Inv, Confirmed, Gone, ConfirmedFirst
  <1> QED BY <1>7, <1>8, <1>9, <1>10, <1>11, <1>12 DEF Inv

\* What is marked as uploaded was acknowledged, and so it has its row.
LEMMA MarkUploadedStep ==
  ASSUME Inv, MarkUploaded
  PROVE  Inv'
  <1>1. /\ worker.at = "acked"
        /\ uploaded' = uploaded \union {Head(worker.todo)}
        /\ worker' = [worker EXCEPT !.at = "uploading", !.todo = Tail(@)]
        /\ UNCHANGED <<disk, table, deleted, aged, executor, changed, handler, stored, rows, link,
                       altered, overlapped, faults>>
    BY DEF MarkUploaded, server, past
  <1>2. worker.todo # <<>>
    BY <1>1 DEF Inv, Holding
  <1>3. /\ Head(worker.todo) \in Registered /\ Tail(worker.todo) \in Seq(Recordings)
        /\ ToSet(Tail(worker.todo)) \subseteq Registered
    BY <1>2, Queues, Queue
  <1>4. worker' \in WorkerRecord /\ worker'.at = "uploading" /\ worker'.todo = Tail(worker.todo)
    BY <1>1, <1>3, Queues DEF WorkerRecord, WorkerPoints
  <1>5. Registered' = Registered
    BY <1>1 DEF Registered
  <1>6. TypeOK'
    BY <1>1, <1>3, <1>4, <1>5 DEF Inv, TypeOK
  <1>7. Holding'
    BY <1>1, <1>3, <1>4, <1>5 DEF Inv, Holding
  <1>8. Connected' /\ Together' /\ Kept' /\ Confirmed'
    BY <1>1, <1>4, ServerKeeps DEF Inv, Connected, Confirmed
  <1>9. Gone' /\ ConfirmedFirst'
    BY <1>1, <1>4 DEF Inv, Gone, ConfirmedFirst
  <1> QED BY <1>6, <1>7, <1>8, <1>9 DEF Inv

\* A heartbeat, also a failing one, comes when the queue is empty.
LEMMA HeartbeatStep ==
  ASSUME Inv, Heartbeat \/ HeartbeatFails
  PROVE  Inv'
  <1>1. /\ worker.at = "uploading" /\ worker.todo = <<>>
        /\ UNCHANGED <<local, handler, stored, rows, past>>
        /\ link' \in {"offline", "online", "silent"}
        /\ faults' \in {faults, faults + 1} /\ (faults' = faults \/ faults < MaxFaults)
        /\ worker' \in {[worker EXCEPT !.at = "heard"], Resting}
    BY DEF Heartbeat, HeartbeatFails, Uploaded, RecordHeartbeat, Fault, Inv, TypeOK
  <1>2. faults' \in 0 .. MaxFaults
    BY <1>1, RecordingsAssumption DEF Inv, TypeOK
  <1>3. /\ worker' \in WorkerRecord /\ worker'.at \in {"heard", "idle"}
        /\ ToSet(worker'.todo) \subseteq Registered
    BY <1>1, Queues DEF WorkerRecord, WorkerPoints
  <1>4. ConfirmedFirst'
    BY <1>3 DEF ConfirmedFirst
  <1> QED BY <1>1, <1>2, <1>3, <1>4, CycleMoves

-----------------------------------------------------------------------------
(* Retention.                                                              *)

\* The selection ends with what is not confirmed, behind everything that is and can go.
LEMMA Selection ==
  ASSUME Inv, NEW pressure \in BOOLEAN, NEW todo \in SelectForCleanup(pressure)
  PROVE  /\ todo \in Seq(Recordings) /\ ToSet(todo) \subseteq Registered
         /\ \A j \in DOMAIN todo : todo[j] \notin uploaded =>
               /\ pressure
               /\ \A r \in disk \intersect uploaded :
                     \E i \in DOMAIN todo : i < j /\ todo[i] = r
  <1>1. /\ table \in Seq(Recordings) /\ Registered \subseteq Recordings
        /\ uploaded \subseteq Registered /\ disk \intersect deleted = {}
    BY Queues DEF Inv, TypeOK, Gone
  <1>2. /\ Safe \in SUBSET Recordings /\ Young \in SUBSET Recordings
        /\ Unconfirmed \in SUBSET Recordings
        /\ Safe \union Young \union Unconfirmed \subseteq Registered
        /\ disk \intersect uploaded \subseteq Safe \union Young
        /\ Safe \union Young \subseteq uploaded
    BY <1>1 DEF Safe, Young, Unconfirmed
  <1>3. CASE ~pressure
    <2>1. todo \in InOrder(Safe)
      BY <1>3 DEF SelectForCleanup
    <2>2. todo \in Seq(Recordings) /\ ToSet(todo) = Safe
      BY <1>1, <1>2, <2>1, QueryReturns
    <2> QED BY <1>2, <2>2 DEF ToSet
  <1>4. CASE pressure
    <2>1. PICK s \in InOrder(Safe), t \in InOrder(Young), u \in InOrder(Unconfirmed) :
            todo = s \o t \o u
      BY <1>4 DEF SelectForCleanup
    <2>2. /\ s \in Seq(Recordings) /\ ToSet(s) = Safe /\ DOMAIN s = 1 .. Len(s) /\ Len(s) \in Nat
          /\ t \in Seq(Recordings) /\ ToSet(t) = Young /\ DOMAIN t = 1 .. Len(t) /\ Len(t) \in Nat
          /\ u \in Seq(Recordings) /\ ToSet(u) = Unconfirmed /\ DOMAIN u = 1 .. Len(u)
          /\ Len(u) \in Nat
      BY <1>1, <1>2, <2>1, QueryReturns
    <2>3. /\ s \o t \in Seq(Recordings) /\ Len(s \o t) = Len(s) + Len(t)
          /\ \A i \in 1 .. Len(s) + Len(t) :
                (s \o t)[i] = IF i <= Len(s) THEN s[i] ELSE t[i - Len(s)]
      BY <2>2, ConcatProperties
    <2>4. /\ todo \in Seq(Recordings) /\ Len(todo) = Len(s) + Len(t) + Len(u)
          /\ \A i \in 1 .. Len(s) + Len(t) + Len(u) :
                todo[i] = IF i <= Len(s) + Len(t) THEN (s \o t)[i] ELSE u[i - (Len(s) + Len(t))]
      BY <2>1, <2>2, <2>3, ConcatProperties
    <2>5. DOMAIN todo = 1 .. Len(s) + Len(t) + Len(u)
      BY <2>4, LenProperties
    <2>6. \A i \in 1 .. Len(s) : i \in DOMAIN todo /\ todo[i] = s[i] /\ s[i] \in Safe
      <3> SUFFICES ASSUME NEW i \in 1 .. Len(s)
                   PROVE  i \in DOMAIN todo /\ todo[i] = s[i] /\ s[i] \in Safe
        OBVIOUS
      <3>1. i \in 1 .. Len(s) + Len(t) /\ i <= Len(s)
        BY <2>2
      <3>2. (s \o t)[i] = s[i]
        BY <2>3, <3>1
      <3>3. i \in DOMAIN todo /\ todo[i] = (s \o t)[i]
        BY <2>2, <2>4, <2>5, <3>1
      <3> QED BY <2>2, <3>2, <3>3 DEF ToSet
    <2>7. \A i \in 1 .. Len(t) : /\ Len(s) + i \in DOMAIN todo /\ todo[Len(s) + i] = t[i]
                                 /\ t[i] \in Young
      <3> SUFFICES ASSUME NEW i \in 1 .. Len(t)
                   PROVE  /\ Len(s) + i \in DOMAIN todo /\ todo[Len(s) + i] = t[i]
                          /\ t[i] \in Young
        OBVIOUS
      <3>1. Len(s) + i \in 1 .. Len(s) + Len(t) /\ ~(Len(s) + i <= Len(s))
            /\ (Len(s) + i) - Len(s) = i
        BY <2>2
      <3>2. (s \o t)[Len(s) + i] = t[i]
        BY <2>3, <3>1
      <3>3. Len(s) + i \in DOMAIN todo /\ todo[Len(s) + i] = (s \o t)[Len(s) + i]
        BY <2>2, <2>4, <2>5, <3>1
      <3> QED BY <2>2, <3>2, <3>3 DEF ToSet
    <2>8. \A i \in DOMAIN todo : i <= Len(s) + Len(t) => todo[i] \in uploaded
      <3> SUFFICES ASSUME NEW i \in DOMAIN todo, i <= Len(s) + Len(t)
                   PROVE  todo[i] \in uploaded
        OBVIOUS
      <3>1. CASE i <= Len(s)
        BY <1>2, <2>2, <2>5, <2>6, <3>1
      <3>2. CASE i > Len(s)
        <4>1. i - Len(s) \in 1 .. Len(t) /\ Len(s) + (i - Len(s)) = i
          BY <2>2, <2>5, <3>2
        <4> QED BY <1>2, <2>7, <4>1
      <3> QED BY <2>2, <2>5, <3>1, <3>2
    <2>9. \A i \in DOMAIN todo : todo[i] \in Registered
      <3> SUFFICES ASSUME NEW i \in DOMAIN todo
                   PROVE  todo[i] \in Registered
        OBVIOUS
      <3>1. CASE i <= Len(s) + Len(t)
        BY <1>1, <2>8, <3>1
      <3>2. CASE i > Len(s) + Len(t)
        <4>1. /\ i - (Len(s) + Len(t)) \in DOMAIN u
              /\ todo[i] = u[i - (Len(s) + Len(t))]
          BY <2>2, <2>4, <2>5, <3>2
        <4> QED BY <1>2, <2>2, <4>1 DEF ToSet
      <3> QED BY <2>2, <2>5, <3>1, <3>2
    <2>10. ASSUME NEW j \in DOMAIN todo, todo[j] \notin uploaded, NEW r \in disk \intersect uploaded
           PROVE  \E i \in DOMAIN todo : i < j /\ todo[i] = r
      <3>1. j > Len(s) + Len(t)
        BY <2>2, <2>5, <2>8, <2>10
      <3>2. CASE r \in Safe
        <4>1. PICK i \in 1 .. Len(s) : s[i] = r
          BY <2>2, <3>2 DEF ToSet
        <4> QED BY <2>2, <2>5, <2>6, <3>1, <4>1
      <3>3. CASE r \in Young
        <4>1. PICK i \in 1 .. Len(t) : t[i] = r
          BY <2>2, <3>3 DEF ToSet
        <4>2. Len(s) + i < j
          BY <2>2, <2>5, <3>1
        <4> QED BY <2>7, <4>1, <4>2
      <3> QED BY <1>2, <2>10, <3>2, <3>3
    <2> QED BY <1>4, <2>4, <2>9, <2>10 DEF ToSet
  <1> QED BY <1>3, <1>4

\* Retention begins with a selection.
LEMMA StartRetentionStep ==
  ASSUME Inv, StartRetention
  PROVE  Inv'
  <1>0. PICK pressure \in BOOLEAN : \E todo \in SelectForCleanup(pressure) :
          worker' = [worker EXCEPT !.at = "retaining", !.pressure = pressure, !.todo = todo]
    BY DEF StartRetention
  <1>1. PICK todo \in SelectForCleanup(pressure) :
          worker' = [worker EXCEPT !.at = "retaining", !.pressure = pressure, !.todo = todo]
    BY <1>0
  <1>2. /\ worker.at = "heard" /\ UNCHANGED <<local, handler, stored, rows, link, past, faults>>
    BY DEF StartRetention, server
  <1>3. todo \in Seq(Recordings) /\ ToSet(todo) \subseteq Registered
    BY Selection
  <1>4. /\ worker' \in WorkerRecord /\ worker'.at = "retaining" /\ worker'.todo = todo
        /\ worker'.pressure = pressure
    BY <1>1, <1>3, Queues DEF WorkerRecord, WorkerPoints
  <1>5. ConfirmedFirst'
    <2>1. UNCHANGED <<disk, uploaded>>
      BY <1>2 DEF local
    <2>2. \A j \in DOMAIN todo : todo[j] \notin uploaded =>
               /\ pressure
               /\ \A r \in disk \intersect uploaded :
                     \E i \in DOMAIN todo : i < j /\ todo[i] = r
      BY Selection
    <2> QED BY <1>4, <2>1, <2>2 DEF ConfirmedFirst
  <1> QED BY <1>2, <1>3, <1>4, <1>5, CycleMoves DEF Inv, TypeOK

\* A shorter queue keeps the order, and what left it is gone or cannot go.
LEMMA ShorterQueue ==
  ASSUME Inv, worker.at \in {"retaining", "unlinked"}, worker.todo # <<>>,
         Head(worker.todo) \notin disk' \ Undeletable,
         disk' \subseteq disk, UNCHANGED <<uploaded, worker.pressure>>,
         worker'.todo = Tail(worker.todo)
  PROVE  ConfirmedFirst'
  <1> SUFFICES ASSUME NEW j \in DOMAIN Tail(worker.todo), Tail(worker.todo)[j] \notin uploaded
               PROVE  /\ worker.pressure
                      /\ \A r \in disk' \intersect uploaded : r \notin Undeletable =>
                            \E i \in DOMAIN Tail(worker.todo) :
                                i < j /\ Tail(worker.todo)[i] = r
    BY DEF ConfirmedFirst
  <1> DEFINE todo == worker.todo
  <1>1. /\ Head(todo) = todo[1] /\ DOMAIN Tail(todo) = 1 .. Len(todo) - 1
        /\ DOMAIN todo = 1 .. Len(todo) /\ Len(todo) \in Nat \ {0}
        /\ \A i \in 1 .. Len(todo) - 1 : Tail(todo)[i] = todo[i + 1]
    BY Queues, Queue
  <1>2. j + 1 \in DOMAIN todo /\ todo[j + 1] \notin uploaded
    BY <1>1
  <1>3. /\ worker.pressure
        /\ \A r \in disk \intersect uploaded : r \notin Undeletable =>
              \E i \in DOMAIN todo : i < j + 1 /\ todo[i] = r
    BY <1>2 DEF Inv, ConfirmedFirst
  <1>4. ASSUME NEW r \in disk' \intersect uploaded, r \notin Undeletable
        PROVE  \E i \in DOMAIN Tail(todo) : i < j /\ Tail(todo)[i] = r
    <2>1. PICK i \in DOMAIN todo : i < j + 1 /\ todo[i] = r
      BY <1>3, <1>4
    <2>2. i # 1
      BY <1>1, <1>4, <2>1
    <2>3. i - 1 \in 1 .. Len(todo) - 1 /\ i - 1 < j /\ (i - 1) + 1 = i
      BY <1>1, <2>1, <2>2
    <2>4. Tail(todo)[i - 1] = r
      BY <1>1, <2>1, <2>3
    <2> QED BY <1>1, <2>3, <2>4
  <1> QED BY <1>3, <1>4

\* delete_recording leaves what cannot be deleted, and takes it off the queue.
LEMMA UnlinkStep ==
  ASSUME Inv, Unlink
  PROVE  Inv'
  <1>1. /\ worker.at = "retaining" /\ worker.todo # <<>>
        /\ UNCHANGED <<table, uploaded, deleted, aged, executor, changed, handler, stored, rows,
                       link, altered, overlapped, faults>>
    BY DEF Unlink, server, past
  <1>2. /\ Head(worker.todo) \in Registered /\ Tail(worker.todo) \in Seq(Recordings)
        /\ ToSet(Tail(worker.todo)) \subseteq Registered
    BY <1>1, Queues, Queue
  <1>3. CASE Head(worker.todo) \in Undeletable
    <2>1. worker' = [worker EXCEPT !.todo = Tail(@)] /\ UNCHANGED disk
      BY <1>3 DEF Unlink
    <2>2. /\ worker' \in WorkerRecord /\ worker'.at = "retaining" /\ worker'.todo = Tail(worker.todo)
          /\ worker'.pressure = worker.pressure
      BY <1>1, <1>2, <2>1, Queues DEF WorkerRecord
    <2>3. ConfirmedFirst'
      BY <1>1, <1>3, <2>1, <2>2, ShorterQueue
    <2>4. UNCHANGED <<local, past>>
      BY <1>1, <2>1 DEF local, past
    <2> QED BY <1>1, <1>2, <2>2, <2>3, <2>4, CycleMoves DEF Inv, TypeOK
  <1>4. CASE Head(worker.todo) \notin Undeletable
    <2>1. worker' = [worker EXCEPT !.at = "unlinked"] /\ disk' = disk \ {Head(worker.todo)}
      BY <1>4 DEF Unlink
    <2>2. /\ worker' \in WorkerRecord /\ worker'.at = "unlinked" /\ worker'.todo = worker.todo
          /\ worker'.pressure = worker.pressure
      BY <2>1, Queues DEF WorkerRecord, WorkerPoints
    <2>3. Registered' = Registered
      BY <1>1 DEF Registered
    <2>4. TypeOK'
      BY <1>1, <2>1, <2>2, <2>3 DEF Inv, TypeOK
    <2>5. Holding' /\ Connected'
      BY <1>1, <2>2, <2>3 DEF Inv, Holding, Connected
    <2>6. Together' /\ Kept' /\ Confirmed'
      BY <1>1, <2>2, ServerKeeps DEF Inv, Confirmed
    <2>7. Gone'
      BY <1>1, <2>1, <2>2 DEF Inv, Gone
    <2>8. ConfirmedFirst'
      BY <1>1, <2>1, <2>2 DEF Inv, ConfirmedFirst
    <2> QED BY <2>4, <2>5, <2>6, <2>7, <2>8 DEF Inv
  <1> QED BY <1>3, <1>4

\* mark_deleted follows the unlinking.
LEMMA MarkDeletedStep ==
  ASSUME Inv, MarkDeleted
  PROVE  Inv'
  <1>1. PICK rest \in {Tail(worker.todo), <<>>} :
          worker' = [worker EXCEPT !.at = "retaining", !.todo = rest]
    BY DEF MarkDeleted
  <1>2. /\ worker.at = "unlinked" /\ deleted' = deleted \union {Head(worker.todo)}
        /\ UNCHANGED <<disk, table, uploaded, aged, executor, changed, handler, stored, rows, link,
                       altered, overlapped, faults>>
    BY DEF MarkDeleted, server, past
  <1>3. worker.todo # <<>> /\ Head(worker.todo) \notin disk
    BY <1>2 DEF Inv, Holding, Gone
  <1>4. /\ Head(worker.todo) \in Registered /\ Tail(worker.todo) \in Seq(Recordings)
        /\ ToSet(Tail(worker.todo)) \subseteq Registered
    BY <1>3, Queues, Queue
  <1>5. rest \in Seq(Recordings) /\ ToSet(rest) \subseteq Registered
    BY <1>1, <1>4, EmptyQueue
  <1>6. /\ worker' \in WorkerRecord /\ worker'.at = "retaining" /\ worker'.todo = rest
        /\ worker'.pressure = worker.pressure
    BY <1>1, <1>5, Queues DEF WorkerRecord, WorkerPoints
  <1>7. Registered' = Registered
    BY <1>2 DEF Registered
  <1>8. TypeOK'
    BY <1>2, <1>4, <1>5, <1>6, <1>7 DEF Inv, TypeOK
  <1>9. Holding' /\ Connected'
    BY <1>2, <1>5, <1>6, <1>7 DEF Inv, Holding, Connected
  <1>10. Together' /\ Kept' /\ Confirmed'
    BY <1>2, <1>6, ServerKeeps DEF Inv, Confirmed
  <1>11. Gone'
    BY <1>2, <1>3, <1>6 DEF Inv, Gone
  <1>12. ConfirmedFirst'
    <2>1. CASE rest = Tail(worker.todo)
      BY <1>2, <1>3, <1>6, <2>1, ShorterQueue
    <2>2. CASE rest = <<>>
      BY <1>6, <2>2, EmptyQueue DEF ConfirmedFirst
    <2> QED BY <1>1, <2>1, <2>2
  <1> QED BY <1>8, <1>9, <1>10, <1>11, <1>12 DEF Inv

\* The cycle ends with its queue.
LEMMA EndCycleStep ==
  ASSUME Inv, EndCycle
  PROVE  Inv'
  <1>1. /\ worker.at = "retaining" /\ worker' = Resting
        /\ UNCHANGED <<local, handler, stored, rows, link, past, faults>>
    BY DEF EndCycle, server
  <1>2. ConfirmedFirst'
    BY <1>1, Queues DEF ConfirmedFirst
  <1> QED BY <1>1, <1>2, Queues, CycleMoves DEF Inv, TypeOK

-----------------------------------------------------------------------------
(* The server.                                                             *)

\* A handler goes on to a point, with what it has received by then.
Moves(h, at, content) == handler' = [handler EXCEPT ![h].at = at, ![h].content = content]

\* Most steps leave what was received as it is.
LEMMA ToMoves ==
  ASSUME Inv, NEW h \in Handlers, NEW at, To(h, at)
  PROVE  Moves(h, at, handler[h].content)
  <1>1. handler \in [Handlers -> HandlerRecord] /\ handler' = [handler EXCEPT ![h].at = at]
    BY DEF Inv, Holding, To
  <1>2. [handler[h] EXCEPT !.at = at] = [handler[h] EXCEPT !.at = at, !.content = handler[h].content]
    BY <1>1 DEF HandlerRecord
  <1> QED BY <1>1, <1>2 DEF Moves

\* One handler goes on, the others stay.
LEMMA HandlerMoves ==
  ASSUME Inv, NEW h \in Handlers, handler[h].at \in Busy,
         NEW at \in HandlerPoints \ {"free"}, NEW content \in Contents, Moves(h, at, content)
  PROVE  /\ handler' \in [Handlers -> HandlerRecord]
         /\ handler'[h].at = at /\ handler'[h].rec = handler[h].rec
         /\ handler'[h].attached = handler[h].attached /\ handler'[h].content = content
         /\ handler[h].rec \in Recordings /\ handler[h].at # "free"
         /\ \A g \in Handlers \ {h} : handler'[g] = handler[g]
  <1>1. /\ handler \in [Handlers -> HandlerRecord] /\ handler[h].rec \in Recordings
        /\ handler[h].at # "free"
    BY DEF Inv, Holding, Busy
  <1>2. handler' = [handler EXCEPT ![h] = [handler[h] EXCEPT !.at = at, !.content = content]]
    BY <1>1 DEF Moves
  <1>3. handler[h] \in HandlerRecord
    BY <1>1
  <1> DEFINE new == [handler[h] EXCEPT !.at = at, !.content = content]
  <1>4. /\ new \in HandlerRecord /\ new.at = at /\ new.content = content
        /\ new.rec = handler[h].rec /\ new.attached = handler[h].attached
    BY <1>3 DEF HandlerRecord
  <1> HIDE DEF new
  <1>5. /\ handler' \in [Handlers -> HandlerRecord] /\ handler'[h] = new
        /\ \A g \in Handlers \ {h} : handler'[g] = handler[g]
    BY <1>1, <1>2, <1>4 DEF new
  <1> QED BY <1>1, <1>4, <1>5

\* The rest of the invariant where a handler goes on and the server keeps what it keeps.
LEMMA HandlerStep ==
  ASSUME Inv, NEW h \in Handlers, handler[h].at \in Busy,
         NEW at \in HandlerPoints \ {"free"}, NEW content \in Contents, Moves(h, at, content),
         UNCHANGED <<local, worker, link, overlapped>>,
         stored' \in [Recordings -> Contents], altered' \subseteq Recordings,
         rows \subseteq rows', rows' \subseteq Recordings, faults' \in 0 .. MaxFaults,
         Kept'
  PROVE  Inv'
  <1>1. /\ UNCHANGED <<disk, table, uploaded, deleted, aged, executor, changed>>
        /\ Registered' = Registered
    BY DEF local, Registered
  <1>2. Connected'
    <2>1. \A g \in Handlers : /\ handler'[g].attached = handler[g].attached
                              /\ handler'[g].rec = handler[g].rec
                              /\ handler[g].at # "free" => handler'[g].at # "free"
      BY HandlerMoves
    <2> QED BY <2>1 DEF Inv, Connected
  <1>3. TypeOK'
    BY <1>1, <1>2 DEF Inv, TypeOK, Connected, Contents
  <1>4. Holding'
    <2>1. \A g \in Handlers : handler'[g].at # "free" => handler'[g].rec \in Recordings
      BY HandlerMoves DEF Inv, Holding
    <2> QED BY <1>1, <2>1, HandlerMoves DEF Inv, Holding
  <1>5. Together'
    <2>1. \A g \in Handlers, r \in Recordings : AtWork(g, r)' => AtWork(g, r)
      BY HandlerMoves DEF AtWork, Busy
    <2> QED BY <2>1 DEF Inv, Together
  <1>6. Confirmed' /\ Gone' /\ ConfirmedFirst'
    BY <1>1 DEF Inv, Confirmed, Gone, ConfirmedFirst
  <1> QED BY <1>2, <1>3, <1>4, <1>5, <1>6 DEF Inv

\* A step that gives up, or that has nothing to show yet, keeps what is kept.
LEMMA StillKept ==
  ASSUME Inv, NEW h \in Handlers, handler[h].at \in Busy,
         NEW at \in {"receiving", "received", "held", "refused"}, NEW content \in Contents,
         Moves(h, at, content),
         at = "held" => handler[h].rec \in rows,
         at \in {"receiving", "received"} =>
            handler[h].rec \notin rows \/ handler[h].at = "receiving",
         at = "received" => content # "none",
         content = "spoiled" => handler[h].rec \in altered',
         UNCHANGED <<stored, rows, overlapped>>, altered \subseteq altered'
  PROVE  Kept'
  <1>1. at \in HandlerPoints \ {"free"} /\ Disputed \subseteq Disputed'
    BY DEF HandlerPoints, Disputed
  <1>2. Received'
    BY <1>1, HandlerMoves DEF Inv, Kept, Received
  <1>3. Late'
    BY <1>1, HandlerMoves DEF Inv, Kept, Late, Busy
  <1>4. InPlace'
    BY <1>1, HandlerMoves DEF Inv, Kept, InPlace
  <1> QED BY <1>2, <1>3, <1>4 DEF Kept

\* What a fault leaves of the budget.
LEMMA FaultLeaves ==
  ASSUME Inv, Fault \/ UNCHANGED faults
  PROVE  faults' \in 0 .. MaxFaults
  BY RecordingsAssumption DEF Inv, TypeOK, Fault

\* What a handler has received.
LEMMA HasContent ==
  ASSUME Inv, NEW h \in Handlers
  PROVE  /\ handler[h].content \in Contents
         /\ handler[h].content = "spoiled" => handler[h].rec \in altered
         /\ stored \in [Recordings -> Contents] /\ altered \subseteq Recordings
         /\ rows \subseteq Recordings
  BY DEF Inv, Holding, HandlerRecord, Kept, Received, TypeOK, Contents

\* GetRecording: what is held has its row.
LEMMA LookupStep ==
  ASSUME Inv, NEW h \in Handlers, Lookup(h)
  PROVE  Inv'
  <1>1. PICK at \in {"held", "receiving", "refused"} :
          /\ To(h, at) /\ (at = "held" => handler[h].rec \in rows) /\ (Fault \/ UNCHANGED faults)
          /\ at = "receiving" => handler[h].rec \notin rows
    BY DEF Lookup, NoRoom
  <1>2. /\ handler[h].at \in Busy
        /\ UNCHANGED <<local, worker, stored, rows, link, altered, overlapped>>
        /\ at \in HandlerPoints \ {"free"} /\ at \in {"receiving", "received", "held", "refused"}
    BY DEF Lookup, HandlerPoints, Busy, past
  <1>3. Moves(h, at, handler[h].content)
    BY <1>1, ToMoves
  <1>4. Kept'
    BY <1>1, <1>2, <1>3, HasContent, StillKept
  <1> QED BY <1>1, <1>2, <1>3, <1>4, HasContent, HandlerStep, FaultLeaves

\* What is received is not in its place yet.
LEMMA ReceiveStep ==
  ASSUME Inv, NEW h \in Handlers, Receive(h)
  PROVE  Inv'
  <1>1. PICK got \in {"intact", "spoiled"} :
          /\ handler' = [handler EXCEPT ![h].at = "received", ![h].content = got]
          /\ altered' = altered \union {r \in {handler[h].rec} : got = "spoiled"}
          /\ Fault \/ UNCHANGED faults
    BY DEF Receive
  <1>2. /\ handler[h].at = "receiving" /\ handler[h].at \in Busy
        /\ UNCHANGED <<local, worker, stored, rows, link, overlapped>>
        /\ "received" \in HandlerPoints \ {"free"} /\ got \in Contents
    BY DEF Receive, HandlerPoints, Busy, Contents
  <1>3. Moves(h, "received", got)
    BY <1>1 DEF Moves
  <1>4. altered \subseteq altered' /\ (got = "spoiled" => handler[h].rec \in altered')
    BY <1>1
  <1>5. Kept'
    BY <1>2, <1>3, <1>4, StillKept
  <1>6. altered' \subseteq Recordings
    BY <1>1, <1>2, <1>3, HasContent, HandlerMoves
  <1> QED BY <1>1, <1>2, <1>3, <1>5, <1>6, HasContent, HandlerStep, FaultLeaves

\* The rename puts a file in place that is what the call received: what is not intact
\* goes over another call's file only where the two have met.
LEMMA MoveIntoPlaceStep ==
  ASSUME Inv, NEW h \in Handlers, MoveIntoPlace(h)
  PROVE  Inv'
  <1>1. /\ handler[h].at = "received" /\ handler[h].at \in Busy
        /\ UNCHANGED <<local, worker, rows, link, altered, overlapped, faults>>
        /\ To(h, "placed") /\ "placed" \in HandlerPoints \ {"free"}
        /\ stored' = [stored EXCEPT ![handler[h].rec] = handler[h].content]
    BY DEF MoveIntoPlace, HandlerPoints, Busy, past
  <1>2. Moves(h, "placed", handler[h].content)
    BY <1>1, ToMoves
  <1>3. /\ handler' \in [Handlers -> HandlerRecord]
        /\ handler'[h].at = "placed" /\ handler'[h].rec = handler[h].rec
        /\ handler'[h].content = handler[h].content /\ handler[h].rec \in Recordings
        /\ \A g \in Handlers \ {h} : handler'[g] = handler[g]
    BY <1>1, <1>2, HandlerMoves, HasContent
  <1>4. /\ stored' \in [Recordings -> Contents] /\ stored'[handler[h].rec] = handler[h].content
        /\ \A r \in Recordings : r # handler[h].rec => stored'[r] = stored[r]
    BY <1>1, <1>3, HasContent
  <1>5. /\ Disputed' = Disputed /\ handler[h].content \in {"intact", "spoiled"}
        /\ handler[h].content = "spoiled" => handler[h].rec \in altered
    BY <1>1, HasContent DEF Disputed, Inv, Kept, Received, Contents
  <1>6. ASSUME handler[h].rec \in overlapped, handler[h].rec \notin Disputed
        PROVE  handler[h].content = "intact"
    BY <1>5, <1>6 DEF Disputed
  <1>7. Received' /\ Late'
    BY <1>1, <1>3 DEF Inv, Kept, Received, Late, Busy
  <1>8. InPlace'
    <2>1. \A r \in rows' : stored'[r] = "intact" \/ r \in Disputed'
      <3> SUFFICES ASSUME NEW r \in rows, r \notin Disputed
                   PROVE  stored'[r] = "intact"
        BY <1>1, <1>5
      <3>1. CASE r = handler[h].rec
        <4>1. r \in overlapped
          BY <1>1, <3>1 DEF Inv, Kept, Late, Busy
        <4> QED BY <1>4, <1>6, <3>1, <4>1
      <3>2. CASE r # handler[h].rec
        BY <1>4, <3>2, HasContent DEF Inv, Kept, InPlace
      <3> QED BY <3>1, <3>2
    <2>2. ASSUME NEW g \in Handlers, handler'[g].at \in {"placed", "verified"},
                 handler'[g].rec \notin Disputed
          PROVE  stored'[handler'[g].rec] = handler'[g].content
      <3>1. CASE g = h
        BY <1>3, <1>4, <3>1
      <3>2. CASE g # h /\ handler[g].rec # handler[h].rec
        BY <1>3, <1>4, <2>2, <3>2 DEF Inv, Kept, InPlace, Holding
      <3>3. CASE g # h /\ handler[g].rec = handler[h].rec
        <4>1. handler'[g] = handler[g]
          BY <1>3, <3>3
        <4>2. AtWork(g, handler[h].rec) /\ AtWork(h, handler[h].rec)
          BY <1>1, <2>2, <3>3, <4>1 DEF AtWork
        <4>3. handler[h].rec \in overlapped
          BY <1>3, <3>3, <4>2 DEF Inv, Together
        <4>4. handler[h].content = "intact"
          BY <1>6, <2>2, <3>3, <4>1, <4>3
        <4>5. handler[g].content = "intact"
          <5>1. handler[g].content # "spoiled"
            BY <2>2, <3>3, <4>1, <4>3, HasContent DEF Disputed
          <5>2. handler[g].content # "none"
            BY <2>2, <4>1 DEF Inv, Kept, Received
          <5> QED BY <5>1, <5>2, HasContent DEF Contents
        <4> QED BY <1>4, <3>3, <4>1, <4>4, <4>5
      <3> QED BY <3>1, <3>2, <3>3
    <2>3. \A g \in Handlers : handler'[g].at = "held" => handler'[g].rec \in rows'
      BY <1>1, <1>3 DEF Inv, Kept, InPlace
    <2> QED BY <1>5, <2>1, <2>2, <2>3 DEF InPlace
  <1>9. Kept'
    BY <1>7, <1>8 DEF Kept
  <1> QED BY <1>1, <1>2, <1>4, <1>9, HasContent, HandlerStep DEF Inv, TypeOK

\* The comparison removes another call's file, or one that has its row, only where the
\* two have met.
LEMMA VerifyStep ==
  ASSUME Inv, NEW h \in Handlers, Verify(h)
  PROVE  Inv'
  <1>1. /\ handler[h].at = "placed" /\ handler[h].at \in Busy
        /\ UNCHANGED <<local, worker, rows, link, altered, overlapped, faults>>
    BY DEF Verify, Busy, past
  <1>2. Disputed' = Disputed /\ handler[h].content \in {"intact", "spoiled"}
    BY <1>1, HasContent DEF Disputed, Inv, Kept, Received, Contents
  <1>3. CASE handler[h].content = "intact"
    <2>1. To(h, "verified") /\ UNCHANGED stored /\ "verified" \in HandlerPoints \ {"free"}
      BY <1>3 DEF Verify, ChecksumAgrees, HandlerPoints
    <2>2. Moves(h, "verified", handler[h].content)
      BY <2>1, ToMoves
    <2>3. /\ handler'[h].at = "verified" /\ handler'[h].rec = handler[h].rec
          /\ handler'[h].content = handler[h].content
          /\ \A g \in Handlers \ {h} : handler'[g] = handler[g]
      BY <1>1, <2>1, <2>2, HandlerMoves, HasContent
    <2>4. Received' /\ Late'
      BY <1>1, <1>3, <2>1, <2>3 DEF Inv, Kept, Received, Late, Busy
    <2>5. InPlace'
      BY <1>1, <1>2, <2>1, <2>3 DEF Inv, Kept, InPlace
    <2>6. Kept'
      BY <2>4, <2>5 DEF Kept
    <2> QED BY <1>1, <2>1, <2>2, <2>6, HasContent, HandlerStep DEF Inv, TypeOK
  <1>4. CASE handler[h].content = "spoiled"
    <2>1. /\ To(h, "refused") /\ "refused" \in HandlerPoints \ {"free"}
          /\ stored' = [stored EXCEPT ![handler[h].rec] = "none"]
      BY <1>4 DEF Verify, ChecksumAgrees, HandlerPoints
    <2>2. Moves(h, "refused", handler[h].content)
      BY <2>1, ToMoves
    <2>3. /\ handler'[h].at = "refused" /\ handler'[h].rec = handler[h].rec
          /\ handler'[h].content = handler[h].content /\ handler[h].rec \in Recordings
          /\ \A g \in Handlers \ {h} : handler'[g] = handler[g]
      BY <1>1, <2>1, <2>2, HandlerMoves, HasContent
    <2>4. /\ stored' \in [Recordings -> Contents]
          /\ \A r \in Recordings : r # handler[h].rec => stored'[r] = stored[r]
      BY <2>1, <2>3, HasContent DEF Contents
    <2>5. handler[h].rec \in altered
      BY <1>4, HasContent
    <2>6. Received' /\ Late'
      BY <1>1, <2>3 DEF Inv, Kept, Received, Late, Busy
    <2>7. InPlace'
      <3>1. \A r \in rows' : stored'[r] = "intact" \/ r \in Disputed'
        <4>1. handler[h].rec \in rows => handler[h].rec \in Disputed
          BY <1>1, <2>5 DEF Inv, Kept, Late, Busy, Disputed
        <4> QED BY <1>1, <1>2, <2>4, <4>1, HasContent DEF Inv, Kept, InPlace
      <3>2. ASSUME NEW g \in Handlers, handler'[g].at \in {"placed", "verified"},
                   handler'[g].rec \notin Disputed
            PROVE  stored'[handler'[g].rec] = handler'[g].content
        <4>1. g # h /\ handler'[g] = handler[g] /\ handler[g].rec \in Recordings
          BY <2>3, <3>2 DEF Inv, Holding
        <4>2. handler[g].rec # handler[h].rec
          <5> SUFFICES ASSUME handler[g].rec = handler[h].rec
                       PROVE  FALSE
            OBVIOUS
          <5>1. AtWork(g, handler[h].rec) /\ AtWork(h, handler[h].rec)
            BY <1>1, <3>2, <4>1 DEF AtWork
          <5>2. handler[h].rec \in overlapped
            BY <2>3, <4>1, <5>1 DEF Inv, Together
          <5> QED BY <2>5, <3>2, <4>1, <5>2 DEF Disputed
        <4> QED BY <2>4, <3>2, <4>1, <4>2 DEF Inv, Kept, InPlace
      <3>3. \A g \in Handlers : handler'[g].at = "held" => handler'[g].rec \in rows'
        BY <1>1, <2>3 DEF Inv, Kept, InPlace
      <3> QED BY <1>2, <3>1, <3>2, <3>3 DEF InPlace
    <2>8. Kept'
      BY <2>6, <2>7 DEF Kept
    <2> QED BY <1>1, <2>1, <2>2, <2>4, <2>8, HasContent, HandlerStep DEF Inv, TypeOK
  <1> QED BY <1>2, <1>3, <1>4

\* The row is inserted for a file that was compared, however often, and whoever is past
\* the lookup by then has met this call.
LEMMA InsertStep ==
  ASSUME Inv, NEW h \in Handlers, Insert(h)
  PROVE  Inv'
  <1>1. /\ handler[h].at = "verified" /\ handler[h].at \in Busy
        /\ UNCHANGED <<local, worker, stored, link, altered, overlapped, faults>>
        /\ To(h, "held") /\ "held" \in HandlerPoints \ {"free"}
        /\ rows' = rows \union {handler[h].rec}
    BY DEF Insert, HandlerPoints, Busy, past
  <1>2. Moves(h, "held", handler[h].content)
    BY <1>1, ToMoves
  <1>3. /\ handler'[h].at = "held" /\ handler'[h].rec = handler[h].rec
        /\ handler'[h].content = handler[h].content /\ handler[h].rec \in Recordings
        /\ \A g \in Handlers \ {h} : handler'[g] = handler[g]
    BY <1>1, <1>2, HandlerMoves, HasContent
  <1>4. Disputed' = Disputed
    BY <1>1 DEF Disputed
  <1>5. Received'
    BY <1>1, <1>3 DEF Inv, Kept, Received
  <1>6. Late'
    <2> SUFFICES ASSUME NEW g \in Handlers, handler'[g].at \in Busy \ {"start"},
                        handler'[g].rec \in rows'
                 PROVE  handler'[g].rec \in overlapped
      BY <1>1 DEF Late
    <2>1. g # h /\ handler'[g] = handler[g]
      BY <1>3 DEF Busy
    <2>2. CASE handler[g].rec \in rows
      BY <2>1, <2>2 DEF Inv, Kept, Late
    <2>3. CASE handler[g].rec = handler[h].rec
      <3>1. AtWork(g, handler[h].rec) /\ AtWork(h, handler[h].rec)
        BY <1>1, <2>1, <2>3 DEF AtWork, Busy
      <3> QED BY <1>3, <2>1, <2>3, <3>1 DEF Inv, Together
    <2> QED BY <1>1, <2>1, <2>2, <2>3
  <1>7. InPlace'
    <2>1. stored[handler[h].rec] = "intact" \/ handler[h].rec \in Disputed
      BY <1>1 DEF Inv, Kept, InPlace, Received
    <2> QED BY <1>1, <1>3, <1>4, <2>1 DEF Inv, Kept, InPlace
  <1>8. Kept'
    BY <1>5, <1>6, <1>7 DEF Kept
  <1> QED BY <1>1, <1>2, <1>3, <1>8, HasContent, HandlerStep DEF Inv, TypeOK

\* A failing insert leaves a file without a row.
LEMMA InsertFailsStep ==
  ASSUME Inv, NEW h \in Handlers, InsertFails(h)
  PROVE  Inv'
  <1>1. /\ handler[h].at \in Busy
        /\ UNCHANGED <<local, worker, stored, rows, link, altered, overlapped>>
        /\ To(h, "refused") /\ "refused" \in HandlerPoints \ {"free"}
        /\ Fault \/ UNCHANGED faults
    BY DEF InsertFails, HandlerPoints, Busy, past
  <1>2. Moves(h, "refused", handler[h].content)
    BY <1>1, ToMoves
  <1>3. Kept'
    BY <1>1, <1>2, HasContent, StillKept
  <1> QED BY <1>1, <1>2, <1>3, HasContent, HandlerStep, FaultLeaves

\* Handlers end or lose their callers, and the worker stays where it is, gives up,
\* or takes an acknowledgement.
LEMMA CallersLeave ==
  ASSUME Inv, UNCHANGED <<disk, table, uploaded, deleted, aged, changed, stored, rows, link>>,
         UNCHANGED <<altered, overlapped>>,
         executor' \in Recordings \union {NoRecording}, faults' \in 0 .. MaxFaults,
         handler' \in [Handlers -> HandlerRecord],
         \A g \in Handlers : \/ handler'[g] = Free
                             \/ /\ handler'[g].at = handler[g].at
                                /\ handler'[g].rec = handler[g].rec
                                /\ handler'[g].content = handler[g].content,
         \/ worker' = worker
         \/ worker' = Resting
         \/ /\ worker' = [worker EXCEPT !.at = "acked", !.call = NoHandler]
            /\ worker.todo # <<>> /\ Head(worker.todo) \in rows,
         Connected'
  PROVE  Inv'
  <1>1. Registered' = Registered
    BY DEF Registered
  <1>2. /\ worker' \in WorkerRecord /\ ToSet(worker'.todo) \subseteq Registered
        /\ worker'.at \in {"calling", "unlinked", "retaining"} => worker' = worker
        /\ worker'.at = "acked" =>
              \/ worker' = worker
              \/ worker'.todo = worker.todo /\ worker.todo # <<>> /\ Head(worker.todo) \in rows
    BY Queues DEF WorkerRecord, WorkerPoints
  <1>3. TypeOK'
    BY <1>1, <1>2 DEF Inv, TypeOK, WorkerRecord, WorkerPoints, Connected
  <1>4. Holding'
    <2>1. \A g \in Handlers : handler'[g].at # "free" => handler'[g].rec \in Recordings
      BY FreeHandler DEF Inv, Holding
    <2>2. worker'.at \in {"calling", "acked", "unlinked"} => worker'.todo # <<>>
      BY <1>2 DEF Inv, Holding
    <2> QED BY <1>1, <1>2, <2>1, <2>2 DEF Holding
  <1>5. Together' /\ Kept'
    BY ServerKeeps DEF Inv
  <1>6. Confirmed' /\ Gone'
    BY <1>2 DEF Inv, Confirmed, Gone
  <1>7. ConfirmedFirst'
    BY <1>2 DEF Inv, ConfirmedFirst
  <1> QED BY <1>3, <1>4, <1>5, <1>6, <1>7 DEF Inv

\* An acknowledgement is given for what has its row.
LEMMA AnswerStep ==
  ASSUME Inv, NEW h \in Handlers, Answer(h)
  PROVE  Inv'
  <1>1. /\ handler[h].at \in {"held", "refused"} /\ handler[h].attached
        /\ handler' = [handler EXCEPT ![h] = Free]
        /\ UNCHANGED <<disk, table, uploaded, deleted, aged, executor, changed, stored, rows, link,
                       altered, overlapped, faults>>
    BY DEF Answer, Freed, local, past
  <1>2. /\ worker.at = "calling" /\ worker.call = h /\ handler[h].rec = Head(worker.todo)
        /\ \A g \in Handlers \ {h} : ~handler[g].attached
    BY <1>1 DEF Inv, Connected
  <1>3. /\ handler' \in [Handlers -> HandlerRecord] /\ handler'[h] = Free
        /\ \A g \in Handlers \ {h} : handler'[g] = handler[g]
    BY <1>1, FreeHandler DEF Inv, Holding
  <1>4. \/ worker' = Resting
        \/ /\ worker' = [worker EXCEPT !.at = "acked", !.call = NoHandler]
           /\ worker.todo # <<>> /\ Head(worker.todo) \in rows
    <2>1. worker.todo # <<>>
      BY <1>2 DEF Inv, Holding
    <2>2. handler[h].at = "held" => Head(worker.todo) \in rows
      BY <1>2 DEF Inv, Kept, InPlace
    <2> QED BY <2>1, <2>2 DEF Answer, Fails
  <1>5. Connected'
    <2>1. worker'.at # "calling"
      BY <1>4, Queues DEF WorkerRecord
    <2>2. \A g \in Handlers : ~handler'[g].attached
      BY <1>2, <1>3, FreeHandler
    <2> QED BY <2>1, <2>2 DEF Connected
  <1>6. executor' \in Recordings \union {NoRecording} /\ faults' \in 0 .. MaxFaults
    BY <1>1 DEF Inv, TypeOK
  <1>7. UNCHANGED <<disk, table, uploaded, deleted, aged, changed, stored, rows, link, altered,
                    overlapped>>
    BY <1>1
  <1>8. \A g \in Handlers : \/ handler'[g] = Free
                            \/ /\ handler'[g].at = handler[g].at
                               /\ handler'[g].rec = handler[g].rec
                               /\ handler'[g].content = handler[g].content
    BY <1>3
  <1> QED BY <1>3, <1>4, <1>5, <1>6, <1>7, <1>8, CallersLeave

\* A handler without a caller ends unnoticed.
LEMMA DropStep ==
  ASSUME Inv, NEW h \in Handlers, Drop(h)
  PROVE  Inv'
  <1>1. /\ ~handler[h].attached /\ worker' = worker
        /\ handler' = [handler EXCEPT ![h] = Free]
        /\ UNCHANGED <<disk, table, uploaded, deleted, aged, executor, changed, stored, rows, link,
                       altered, overlapped, faults>>
    BY DEF Drop, Freed, local, past
  <1>2. /\ handler' \in [Handlers -> HandlerRecord] /\ handler'[h] = Free
        /\ \A g \in Handlers \ {h} : handler'[g] = handler[g]
    BY <1>1, FreeHandler DEF Inv, Holding
  <1>3. Connected'
    BY <1>1, <1>2, FreeHandler DEF Inv, Connected
  <1>4. executor' \in Recordings \union {NoRecording} /\ faults' \in 0 .. MaxFaults
    BY <1>1 DEF Inv, TypeOK
  <1>5. \A g \in Handlers : \/ handler'[g] = Free
                            \/ /\ handler'[g].at = handler[g].at
                               /\ handler'[g].rec = handler[g].rec
                               /\ handler'[g].content = handler[g].content
    BY <1>2
  <1> QED BY <1>1, <1>2, <1>3, <1>4, <1>5, CallersLeave

\* A lost call leaves its handler without a caller.
LEMMA LoseCallStep ==
  ASSUME Inv, LoseCall
  PROVE  Inv'
  <1>1. /\ worker.at = "calling" /\ worker' = Resting
        /\ handler' = [handler EXCEPT ![worker.call].attached = FALSE]
        /\ UNCHANGED <<disk, table, uploaded, deleted, aged, executor, changed, stored, rows, link,
                       altered, overlapped>>
    BY DEF LoseCall, Fails, local, past
  <1>2. worker.call \in Handlers /\ handler \in [Handlers -> HandlerRecord]
        /\ \A g \in Handlers \ {worker.call} : ~handler[g].attached
    BY <1>1 DEF Inv, Connected, Holding
  <1>3. /\ [handler[worker.call] EXCEPT !.attached = FALSE] \in HandlerRecord
        /\ [handler[worker.call] EXCEPT !.attached = FALSE].at = handler[worker.call].at
        /\ [handler[worker.call] EXCEPT !.attached = FALSE].rec = handler[worker.call].rec
        /\ [handler[worker.call] EXCEPT !.attached = FALSE].content = handler[worker.call].content
        /\ ~[handler[worker.call] EXCEPT !.attached = FALSE].attached
    BY <1>2 DEF HandlerRecord
  <1>4. /\ handler' \in [Handlers -> HandlerRecord]
        /\ handler'[worker.call] = [handler[worker.call] EXCEPT !.attached = FALSE]
        /\ \A g \in Handlers \ {worker.call} : handler'[g] = handler[g]
    BY <1>1, <1>2, <1>3
  <1>5. Connected'
    <2>1. worker'.at # "calling"
      BY <1>1, Queues
    <2>2. \A g \in Handlers : ~handler'[g].attached
      BY <1>2, <1>3, <1>4
    <2> QED BY <2>1, <2>2 DEF Connected
  <1>6. executor' \in Recordings \union {NoRecording} /\ faults' \in 0 .. MaxFaults
    BY <1>1, FaultLeaves DEF Inv, TypeOK, LoseCall
  <1>7. \A g \in Handlers : /\ handler'[g].at = handler[g].at /\ handler'[g].rec = handler[g].rec
                            /\ handler'[g].content = handler[g].content
    BY <1>3, <1>4
  <1> QED BY <1>1, <1>4, <1>5, <1>6, <1>7, CallersLeave

\* The worker dies, and its handlers work on.
LEMMA WorkerCrashStep ==
  ASSUME Inv, WorkerCrash
  PROVE  Inv'
  <1>1. /\ worker' = Resting /\ executor' = NoRecording
        /\ handler' = [h \in Handlers |-> [handler[h] EXCEPT !.attached = FALSE]]
        /\ UNCHANGED <<disk, table, uploaded, deleted, aged, changed, stored, rows, link, altered,
                       overlapped>>
    BY DEF WorkerCrash, past
  <1>2. \A h \in Handlers :
          /\ handler'[h] \in HandlerRecord /\ ~handler'[h].attached
          /\ handler'[h].at = handler[h].at /\ handler'[h].rec = handler[h].rec
          /\ handler'[h].content = handler[h].content
    <2> SUFFICES ASSUME NEW h \in Handlers
                 PROVE  /\ handler'[h] \in HandlerRecord /\ ~handler'[h].attached
                        /\ handler'[h].at = handler[h].at /\ handler'[h].rec = handler[h].rec
                        /\ handler'[h].content = handler[h].content
      OBVIOUS
    <2>1. handler[h] \in HandlerRecord /\ handler'[h] = [handler[h] EXCEPT !.attached = FALSE]
      BY <1>1 DEF Inv, Holding
    <2> QED BY <2>1 DEF HandlerRecord
  <1>3. handler' \in [Handlers -> HandlerRecord]
    BY <1>1, <1>2
  <1>4. Connected'
    BY <1>1, <1>2, Queues DEF Connected
  <1>5. faults' \in 0 .. MaxFaults
    BY FaultLeaves DEF WorkerCrash
  <1> QED BY <1>1, <1>2, <1>3, <1>4, <1>5, CallersLeave

\* The server dies, and whoever waits for it gives up.
LEMMA ServerCrashStep ==
  ASSUME Inv, ServerCrash
  PROVE  Inv'
  <1>1. /\ worker' = IF worker.at = "calling" THEN Resting ELSE worker
        /\ handler' = [h \in Handlers |-> Free]
        /\ UNCHANGED <<disk, table, uploaded, deleted, aged, executor, changed, stored, rows, link,
                       altered, overlapped>>
    BY DEF ServerCrash, Fails, local, past
  <1>2. handler' \in [Handlers -> HandlerRecord] /\ \A g \in Handlers : handler'[g] = Free
    BY <1>1, FreeHandler
  <1>3. Connected'
    BY <1>1, <1>2, Queues, FreeHandler DEF Connected
  <1>4. executor' \in Recordings \union {NoRecording} /\ faults' \in 0 .. MaxFaults
    BY <1>1, FaultLeaves DEF Inv, TypeOK, ServerCrash
  <1>5. worker' = worker \/ worker' = Resting
    BY <1>1
  <1> QED BY <1>1, <1>2, <1>3, <1>4, <1>5, CallersLeave

\* The monitor looks at the connection only.
LEMMA MonitorStep ==
  ASSUME Inv, Monitor
  PROVE  Inv'
  <1>1. /\ link' \in {"silent", "offline"}
        /\ UNCHANGED <<disk, table, uploaded, deleted, aged, executor, changed, worker, handler,
                       stored, rows, altered, overlapped, faults>>
    BY DEF Monitor, Silence, MarkStaleOffline, local, past
  <1>2. Registered' = Registered
    BY <1>1 DEF Registered
  <1>3. TypeOK' /\ Holding'
    BY <1>1, <1>2 DEF Inv, TypeOK, Holding
  <1>4. Connected' /\ Together' /\ Kept' /\ Confirmed' /\ Gone'
    BY <1>1, ServerKeeps DEF Inv, Connected, Confirmed, Gone
  <1>5. ConfirmedFirst'
    BY <1>1 DEF Inv, ConfirmedFirst
  <1> QED BY <1>3, <1>4, <1>5 DEF Inv

-----------------------------------------------------------------------------
(* The invariant.                                                          *)

\* Nothing has been recorded yet.
LEMMA InitInv == Init => Inv
  <1> SUFFICES ASSUME Init
               PROVE  Inv
    OBVIOUS
  <1>1. /\ disk = {} /\ table = <<>> /\ uploaded = {} /\ deleted = {} /\ aged = 0
        /\ executor = NoRecording /\ changed = {} /\ worker = Resting /\ rows = {}
        /\ link = "offline" /\ altered = {} /\ overlapped = {}
        /\ faults = 0 /\ handler = [h \in Handlers |-> Free]
        /\ stored = [r \in Recordings |-> "none"]
    BY DEF Init
  <1>2. /\ Resting \in WorkerRecord /\ Resting.at = "idle" /\ Resting.todo = <<>>
        /\ ToSet(Resting.todo) = {}
    BY EmptyQueue DEF Resting, WorkerRecord, WorkerPoints
  <1>3. Registered = {} /\ table \in Seq(Recordings) /\ Len(table) = 0
    BY <1>1, EmptyQueue DEF Registered
  <1>4. TypeOK
    BY <1>1, <1>2, <1>3, RecordingsAssumption DEF TypeOK, WorkerRecord
  <1>5. Holding /\ Connected
    BY <1>1, <1>2, FreeHandler DEF Holding, Connected
  <1>6. Together
    BY <1>1, FreeHandler DEF Together, AtWork
  <1>7. Kept /\ Confirmed /\ Gone /\ ConfirmedFirst
    BY <1>1, <1>2, FreeHandler DEF Kept, Received, Late, InPlace, Busy, Confirmed, Gone,
       ConfirmedFirst
  <1> QED BY <1>4, <1>5, <1>6, <1>7 DEF Inv

\* The invariant is inductive.
LEMMA InvStep == Inv /\ [Next]_vars => Inv'
  <1> SUFFICES ASSUME Inv, [Next]_vars
               PROVE  Inv'
    OBVIOUS
  <1>1. CASE Cycle
    BY <1>1, StartUploadsStep, SkipMissingStep, CallUploadStep, MarkUploadedStep, HeartbeatStep,
       StartRetentionStep, UnlinkStep, MarkDeletedStep, EndCycleStep DEF Cycle
  <1>2. ASSUME NEW h \in Handlers, Handle(h)
        PROVE  Inv'
    BY <1>2, LookupStep, ReceiveStep, MoveIntoPlaceStep, VerifyStep, InsertStep, InsertFailsStep,
       AnswerStep, DropStep DEF Handle
  <1>3. CASE UNCHANGED vars
    <2>1. /\ UNCHANGED <<worker, server, faults, uploaded, deleted, disk, table, aged, executor,
                         changed>>
          /\ changed \subseteq Registered
          /\ table \in Seq(Recordings) /\ disk \subseteq Recordings
          /\ aged \in 0 .. Len(table) /\ executor \in Recordings \union {NoRecording}
      BY <1>3 DEF vars, local, Inv, TypeOK
    <2>2. Registered' = Registered
      BY <2>1 DEF Registered
    <2> QED BY <2>1, <2>2, StationStep
  <1> QED BY <1>1, <1>2, <1>3, PassFinishesStep, RegisterStep, ChangeStep, AgeStep, LoseCallStep,
             HeartbeatStep, MonitorStep, WorkerCrashStep, ServerCrashStep DEF Next

\* The invariant holds throughout.
LEMMA InvAlways == Spec => []Inv
  BY InitInv, InvStep, PTL DEF Spec

\* Every variable holds what its type says.
THEOREM TypeCorrect == Spec => []TypeOK
  <1>1. Inv => TypeOK
    BY DEF Inv
  <1> QED BY <1>1, InvAlways, PTL

\* The server has a row only for a file it holds intact, however many calls there are
\* for a recording, unless two of them overlapped and one received something else than
\* it announced (UploadRecording).
THEOREM RowsStayIntact == Spec => []RowsAreIntact
  <1>1. Inv => RowsAreIntact
    BY DEF Inv, Kept, InPlace, RowsAreIntact
  <1> QED BY <1>1, InvAlways, PTL

\* What the worker takes for confirmed is on the server, whatever answers were lost
\* and whoever crashed (upload_pending, InsertRecordingIfAbsent).
THEOREM ConfirmedStaysStored == Spec => []ConfirmedIsStored
  <1>1. Inv => ConfirmedIsStored
    BY DEF Inv, Confirmed, ConfirmedIsStored
  <1> QED BY <1>1, InvAlways, PTL

\* Whatever a list shows a user, the user is served, intact unless it is disputed, and
\* what a user is served is in some list (handleListRecordings,
\* handleListPassRecordings, handleListPasses, handleGetPass, handleDownloadRecording).
THEOREM ListsAndDownloadsAgree == Spec => []ListedIsServed
  <1>1. Inv => ListedIsServed
    <2> SUFFICES ASSUME Inv, NEW u \in Users, NEW r \in Recordings, NEW scope \in Scopes
                 PROVE  /\ r \in Listed(u, scope) =>
                              /\ Served(u, r) # "not_found"
                              /\ r \notin Disputed => Served(u, r) = "intact"
                              /\ r \in ListedForPass(u, r) \intersect ListedPasses(u, scope)
                              /\ Opened(u, r)
                        /\ Served(u, r) # "not_found" => \E s \in Scopes : r \in Listed(u, s)
      BY DEF ListedIsServed
    <2>1. ASSUME r \in Listed(u, scope)
          PROVE  /\ r \in rows /\ CanViewPass(u, r)
                 /\ scope = "mine" => Owner[r] = u
                 /\ scope = "public" => r \in Public
                 /\ scope = "all" => IsAdmin(u)
      BY <2>1 DEF Listed, CanViewPass, Scopes
    <2>2. ASSUME r \in rows, CanViewPass(u, r)
          PROVE  r \in Listed(u, "mine") \union Listed(u, "public") \union Listed(u, "all")
      BY <2>2 DEF Listed, CanViewPass
    <2>3. /\ r \in rows => stored[r] = "intact" \/ r \in Disputed
          /\ stored[r] # "not_found"
      BY DEF Inv, Kept, InPlace, TypeOK
    <2> QED BY <2>1, <2>2, <2>3 DEF Served, ListedForPass, ListRecordingsForPass, ListedPasses,
               ListPasses, Opened, Scopes
  <1> QED BY <1>1, InvAlways, PTL

\* A local copy the server has not confirmed is removed only under disk pressure, and
\* only after every confirmed copy that can go (select_for_cleanup).
THEOREM UnconfirmedCopiesGoLast == Spec => UnconfirmedGoesLast
  <1>1. Inv /\ [Next]_vars =>
          [\A r \in disk \ disk' : r \notin uploaded =>
              worker.pressure /\ disk \intersect uploaded \subseteq Undeletable]_vars
    <2> SUFFICES ASSUME Inv, [Next]_vars, NEW r \in disk \ disk', r \notin uploaded
                 PROVE  worker.pressure /\ disk \intersect uploaded \subseteq Undeletable
      OBVIOUS
    <2>1. Unlink
      BY DEF Next, Cycle, Monitor, Handle, PassFinishes, RegisterPassOutput, Change, Age,
             StartUploads, SkipMissing, CallUpload, LoseCall, MarkUploaded, Lookup, Receive, MoveIntoPlace, Verify,
             Insert, InsertFails, Answer, Drop, Heartbeat, HeartbeatFails, Silence,
             MarkStaleOffline, StartRetention, MarkDeleted, EndCycle, WorkerCrash, ServerCrash,
             local, vars
    <2>2. worker.at = "retaining" /\ worker.todo # <<>> /\ r = Head(worker.todo)
      BY <2>1 DEF Unlink
    <2>3. r = worker.todo[1] /\ 1 \in DOMAIN worker.todo /\ DOMAIN worker.todo = 1 .. Len(worker.todo)
      BY <2>2, Queues, Queue
    <2>4. /\ worker.pressure
          /\ \A q \in disk \intersect uploaded : q \notin Undeletable =>
                \E i \in DOMAIN worker.todo : i < 1 /\ worker.todo[i] = q
      BY <2>2, <2>3 DEF Inv, ConfirmedFirst
    <2>5. Len(worker.todo) \in Nat /\ \A i \in DOMAIN worker.todo : ~(i < 1)
      BY <2>3, Queues, LenProperties
    <2> QED BY <2>4, <2>5
  <1> QED BY <1>1, InvAlways, PTL DEF Spec, UnconfirmedGoesLast

=============================================================================
