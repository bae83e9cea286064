------------------------------- MODULE Uploads -------------------------------
(***************************************************************************)
(* The way of a recording from the worker's disk to the server: the        *)
(* executor's registration of what a pass produced, the upload in the      *)
(* synchronization cycle, the server's handler with its file and its row,  *)
(* the retention that removes local copies, and what the API then lists    *)
(* and serves.  The heartbeat follows the uploads in the same cycle, so    *)
(* the server's view of the worker, online or offline, hangs on them.      *)
(*                                                                         *)
(* A call that loses its connection leaves its handler running: the next   *)
(* cycle may send the same recording again while the first still stores    *)
(* it.  What a call received need not be what it announced: the file may   *)
(* have changed after its checksum was taken, and a transfer may go wrong. *)
(* Every statement of the server, every file operation and every statement *)
(* of the local store is a step of its own.                                *)
(***************************************************************************)
EXTENDS Integers, Sequences, FiniteSets, SequencesExt

CONSTANTS
    Recordings,     \* the files the passes of the station produce
    Unsettled,      \* those that may still change after their checksum was taken
    Undeletable,    \* those whose local file the system refuses to remove
    Handlers,       \* upload calls the server can be working on
    Users, Role,    \* the users and their roles
    Owner,          \* who requested the pass of a recording
    Public,         \* the recordings of passes with public visibility
    NoRecording, NoHandler,
    MaxFaults       \* bound on lost calls, refusals, failed statements and crashes

ASSUME RecordingsAssumption ==
    /\ Unsettled \subseteq Recordings
    /\ Undeletable \subseteq Recordings
    /\ NoRecording \notin Recordings
    /\ NoHandler \notin Handlers
    /\ MaxFaults \in Nat
ASSUME UsersAssumption ==
    /\ Role \in [Users -> {"root", "admin", "user"}]
    /\ Owner \in [Recordings -> Users]
    /\ Public \subseteq Recordings

VARIABLES
    disk,       \* the recordings whose file is on the worker's disk
    table,      \* the recordings registered locally, oldest finished_at first
    uploaded,   \* the columns of that table: confirmed by the server ...
    deleted,    \* ... and local copy gone
    aged,       \* how many of the table are past the minimum retention
    executor,   \* the recording of a finished pass not registered yet
    changed,    \* the recordings whose file is no longer what was registered
    worker,     \* the synchronization cycle
    handler,    \* handler[h]: an UploadRecording call on the server
    stored,     \* stored[r]: the file on the server
    rows,       \* the recordings in the server's table
    link,       \* the worker's connection_state and how old its last_seen_at is
    altered,    \* history: a call received something else than it announced
    overlapped, \* history: two calls were at work on the recording at once
    faults

local == <<disk, table, uploaded, deleted, aged, executor, changed>>
past == <<altered, overlapped>>
server == <<handler, stored, rows, link, past>>
vars == <<local, worker, server, faults>>

-----------------------------------------------------------------------------
Resting == [at |-> "idle", todo |-> <<>>, pressure |-> FALSE, call |-> NoHandler]
Free == [at |-> "free", rec |-> NoRecording, attached |-> FALSE, content |-> "none"]

Init ==
    /\ disk = {}
    /\ table = <<>>
    /\ uploaded = {}
    /\ deleted = {}
    /\ aged = 0
    /\ executor = NoRecording
    /\ changed = {}
    /\ worker = Resting
    /\ handler = [h \in Handlers |-> Free]
    /\ stored = [r \in Recordings |-> "none"]
    /\ rows = {}
    /\ link = "offline"
    /\ altered = {}
    /\ overlapped = {}
    /\ faults = 0

Fault ==
    /\ faults < MaxFaults
    /\ faults' = faults + 1

Registered == ToSet(table)

-----------------------------------------------------------------------------
(* The executor.                                                           *)

\* A pass ends, with its output on the disk.
PassFinishes(r) ==
    /\ executor = NoRecording
    /\ r \notin disk \union Registered
    /\ executor' = r
    /\ disk' = disk \union {r}
    /\ UNCHANGED <<table, uploaded, deleted, aged, changed, worker, server, faults>>

\* collect and record_recordings, which ignores what is registered already.
RegisterPassOutput ==
    /\ executor # NoRecording
    /\ table' = IF executor \in Registered THEN table ELSE Append(table, executor)
    /\ executor' = NoRecording
    /\ UNCHANGED <<disk, uploaded, deleted, aged, changed, worker, server, faults>>

\* A file that was not complete yet when it was registered: identity and checksum stay.
Change(r) ==
    /\ r \in disk \intersect Registered \intersect Unsettled
    /\ r \notin changed
    /\ changed' = changed \union {r}
    /\ UNCHANGED <<disk, table, uploaded, deleted, aged, executor, worker, server, faults>>

\* Time passes for the oldest recording that is not past its retention.
Age ==
    /\ aged < Len(table)
    /\ aged' = aged + 1
    /\ UNCHANGED <<disk, table, uploaded, deleted, executor, changed, worker, server, faults>>

-----------------------------------------------------------------------------
(* The cycle: uploads.                                                     *)

\* S as a query returns it, ORDER BY finished_at: the one sequence of S in the order
\* of the table.
InOrder(S) ==
    {s \in [1 .. Cardinality(S) -> S] :
        /\ ToSet(s) = S
        /\ \A i, j \in DOMAIN s : i < j =>
              \E k, l \in DOMAIN table : k < l /\ table[k] = s[i] /\ table[l] = s[j]}

\* The queue with the newest first.
NewestFirst == {Reverse(s) : s \in InOrder(Registered \ (uploaded \union deleted))}

PendingUploads == InOrder(Registered \ (uploaded \union deleted))

StartUploads ==
    /\ worker.at = "idle"
    /\ \E todo \in PendingUploads :
          worker' = [worker EXCEPT !.at = "uploading", !.todo = todo]
    /\ UNCHANGED <<local, server, faults>>

Uploading == worker.at = "uploading" /\ worker.todo # <<>>

\* A queued recording that is missing from the disk.
SkipMissing ==
    /\ Uploading
    /\ Head(worker.todo) \notin disk
    /\ deleted' = deleted \union {Head(worker.todo)}
    /\ worker' = [worker EXCEPT !.todo = Tail(@)]
    /\ UNCHANGED <<disk, table, uploaded, aged, executor, changed, server, faults>>

\* The call of h is at work on the recording r, from its lookup to its row.
AtWork(h, r) ==
    /\ handler[h].at \in {"start", "receiving", "received", "placed", "verified"}
    /\ handler[h].rec = r

CallUpload(h) ==
    /\ Uploading
    /\ Head(worker.todo) \in disk
    /\ handler[h] = Free
    /\ handler' = [handler EXCEPT ![h] = [at |-> "start", rec |-> Head(worker.todo),
                                         attached |-> TRUE, content |-> "none"]]
    /\ worker' = [worker EXCEPT !.at = "calling", !.call = h]
    /\ overlapped' = overlapped \union
          {r \in {Head(worker.todo)} : \E g \in Handlers : AtWork(g, r)}
    /\ UNCHANGED <<local, stored, rows, link, altered, faults>>

\* The error of a call taken for its answer.
FailsConfirmed(w) == [w EXCEPT !.at = "acked", !.call = NoHandler]

\* An error of the call ends the cycle: mark_upload_failed keeps the recording
\* queued, and the next cycle starts from the oldest again.
Fails(w) == Resting

\* The connection is lost; the server may not notice.
LoseCall ==
    /\ worker.at = "calling"
    /\ Fault
    /\ handler' = [handler EXCEPT ![worker.call].attached = FALSE]
    /\ worker' = Fails(worker)
    /\ UNCHANGED <<local, stored, rows, link, past>>

\* mark_uploaded.
MarkUploaded ==
    /\ worker.at = "acked"
    /\ uploaded' = uploaded \union {Head(worker.todo)}
    /\ worker' = [worker EXCEPT !.at = "uploading", !.todo = Tail(@)]
    /\ UNCHANGED <<disk, table, deleted, aged, executor, changed, server, faults>>

-----------------------------------------------------------------------------
(* The server's handler.                                                   *)

To(h, at) == handler' = [handler EXCEPT ![h].at = at]

\* EnsureSpaceFor; the disk is full as often as other things go wrong.
NoRoom(h) == To(h, "refused") /\ Fault

\* GetRecording, the space and RecordingFilePath.
Lookup(h) ==
    /\ handler[h].at = "start"
    /\ \/ /\ handler[h].rec \in rows
          /\ To(h, "held") /\ UNCHANGED faults
       \/ /\ handler[h].rec \notin rows
          /\ To(h, "receiving") /\ UNCHANGED faults
       \/ /\ handler[h].rec \notin rows
          /\ NoRoom(h)
    /\ UNCHANGED <<local, worker, stored, rows, link, past>>

\* receiveContent reads to the end of the stream, into a temporary file: the bytes
\* of a file that has changed, or what a transfer that goes wrong makes of others.
Receive(h) ==
    /\ handler[h].at = "receiving"
    /\ handler[h].attached
    /\ \E got \in {"intact", "spoiled"} :
          /\ got = "intact" => handler[h].rec \notin changed
          /\ IF got = "spoiled" /\ handler[h].rec \notin changed THEN Fault ELSE UNCHANGED faults
          /\ handler' = [handler EXCEPT ![h].at = "received", ![h].content = got]
          /\ altered' = altered \union {r \in {handler[h].rec} : got = "spoiled"}
    /\ UNCHANGED <<local, worker, stored, rows, link, overlapped>>

\* The rename of the temporary file to its destination.
MoveIntoPlace(h) ==
    /\ handler[h].at = "received"
    /\ stored' = [stored EXCEPT ![handler[h].rec] = handler[h].content]
    /\ To(h, "placed")
    /\ UNCHANGED <<local, worker, rows, link, past, faults>>

\* A handler that does not compare.
AnyChecksumAgrees(h) == TRUE

\* What this call received is what its metadata announced.
ChecksumAgrees(h) == handler[h].content = "intact"

\* The comparison of checksum and size, of what was received and not of what is in
\* the place by now; a mismatch removes whatever is there.
Verify(h) ==
    /\ handler[h].at = "placed"
    /\ \/ /\ ChecksumAgrees(h)
          /\ To(h, "verified")
          /\ UNCHANGED stored
       \/ /\ ~ChecksumAgrees(h)
          /\ stored' = [stored EXCEPT ![handler[h].rec] = "none"]
          /\ To(h, "refused")
    /\ UNCHANGED <<local, worker, rows, link, past, faults>>

\* InsertRecordingIfAbsent: a second insert does nothing.
Insert(h) ==
    /\ handler[h].at = "verified"
    /\ rows' = rows \union {handler[h].rec}
    /\ To(h, "held")
    /\ UNCHANGED <<local, worker, stored, link, past, faults>>

\* The insert fails, of itself or because the call was cancelled.
InsertFails(h) ==
    /\ handler[h].at = "verified"
    /\ IF handler[h].attached THEN Fault ELSE UNCHANGED faults
    /\ To(h, "refused")
    /\ UNCHANGED <<local, worker, stored, rows, link, past>>

Freed(h) == handler' = [handler EXCEPT ![h] = Free]

\* The answer to a caller who is there: an acknowledgement or an error.
Answer(h) ==
    /\ handler[h].at \in {"held", "refused"}
    /\ handler[h].attached
    /\ worker' = IF handler[h].at = "held"
                 THEN [worker EXCEPT !.at = "acked", !.call = NoHandler] ELSE Fails(worker)
    /\ Freed(h)
    /\ UNCHANGED <<local, stored, rows, link, past, faults>>

\* A handler whose caller is gone ends with its answer, or with its stream.
Drop(h) ==
    /\ handler[h].at \in {"start", "receiving", "held", "refused"}
    /\ ~handler[h].attached
    /\ Freed(h)
    /\ UNCHANGED <<local, worker, stored, rows, link, past, faults>>

Handle(h) ==
    \/ Lookup(h) \/ Receive(h) \/ MoveIntoPlace(h) \/ Verify(h)
    \/ Insert(h) \/ InsertFails(h) \/ Answer(h) \/ Drop(h)

-----------------------------------------------------------------------------
(* The cycle: heartbeat.                                                   *)

Uploaded == worker.at = "uploading" /\ worker.todo = <<>>

\* RecordHeartbeat: last_seen_at and the state.
RecordHeartbeat == link' = "online"

\* A heartbeat that refreshes last_seen_at and leaves the state alone.
HeartbeatOfOnline ==
    /\ Uploaded
    /\ link' = IF link = "offline" THEN "offline" ELSE "online"
    /\ worker' = [worker EXCEPT !.at = "heard"]
    /\ UNCHANGED <<local, handler, stored, rows, past, faults>>

\* Heartbeat, with the plans taken as synchronized.
Heartbeat ==
    /\ Uploaded
    /\ RecordHeartbeat
    /\ worker' = [worker EXCEPT !.at = "heard"]
    /\ UNCHANGED <<local, handler, stored, rows, past, faults>>

\* A heartbeat, recorded or not, or the synchronization after it fails.
HeartbeatFails ==
    /\ Uploaded
    /\ Fault
    /\ UNCHANGED link \/ RecordHeartbeat
    /\ worker' = Resting
    /\ UNCHANGED <<local, handler, stored, rows, past>>

\* StaleAfter has passed since last_seen_at.
Silence ==
    /\ link = "online"
    /\ link' = "silent"
    /\ UNCHANGED <<local, worker, handler, stored, rows, past, faults>>

\* RunStaleWorkerMonitor.
MarkStaleOffline ==
    /\ link = "silent"
    /\ link' = "offline"
    /\ UNCHANGED <<local, worker, handler, stored, rows, past, faults>>

Monitor == Silence \/ MarkStaleOffline

-----------------------------------------------------------------------------
(* The cycle: retention.                                                   *)

Expired == {table[i] : i \in 1 .. aged}

Safe == (uploaded \intersect Expired) \ deleted
Young == uploaded \ (Expired \union deleted)
Unconfirmed == Registered \ (uploaded \union deleted)

\* The last two groups in the wrong order.
UnconfirmedSecond(pressure) ==
    IF pressure
    THEN {s \o t \o u : s \in InOrder(Safe), t \in InOrder(Unconfirmed), u \in InOrder(Young)}
    ELSE InOrder(Safe)

\* select_for_cleanup.
SelectForCleanup(pressure) ==
    IF pressure
    THEN {s \o t \o u : s \in InOrder(Safe), t \in InOrder(Young), u \in InOrder(Unconfirmed)}
    ELSE InOrder(Safe)

\* The disk is measured once.
StartRetention ==
    /\ worker.at = "heard"
    /\ \E pressure \in BOOLEAN : \E todo \in SelectForCleanup(pressure) :
          worker' = [worker EXCEPT !.at = "retaining", !.pressure = pressure, !.todo = todo]
    /\ UNCHANGED <<local, server, faults>>

\* delete_recording: a file that is not there is as good as deleted.
Unlink ==
    /\ worker.at = "retaining"
    /\ worker.todo # <<>>
    /\ IF Head(worker.todo) \in Undeletable
       THEN /\ worker' = [worker EXCEPT !.todo = Tail(@)]
            /\ UNCHANGED disk
       ELSE /\ disk' = disk \ {Head(worker.todo)}
            /\ worker' = [worker EXCEPT !.at = "unlinked"]
    /\ UNCHANGED <<table, uploaded, deleted, aged, executor, changed, server, faults>>

\* mark_deleted; under pressure the loop ends when the pressure is gone.
MarkDeleted ==
    /\ worker.at = "unlinked"
    /\ deleted' = deleted \union {Head(worker.todo)}
    /\ \E rest \in {Tail(worker.todo)} \union {s \in {<<>>} : worker.pressure} :
          worker' = [worker EXCEPT !.at = "retaining", !.todo = rest]
    /\ UNCHANGED <<disk, table, uploaded, aged, executor, changed, server, faults>>

EndCycle ==
    /\ worker.at = "retaining"
    /\ worker.todo = <<>>
    /\ worker' = Resting
    /\ UNCHANGED <<local, server, faults>>

Cycle ==
    \/ StartUploads \/ SkipMissing \/ \E h \in Handlers : CallUpload(h)
    \/ MarkUploaded \/ Heartbeat \/ StartRetention \/ Unlink \/ MarkDeleted \/ EndCycle

-----------------------------------------------------------------------------
(* Faults.                                                                 *)

\* The worker dies: both its threads are gone, its calls unanswered.
WorkerCrash ==
    /\ Fault
    /\ worker' = Resting
    /\ executor' = NoRecording
    /\ handler' = [h \in Handlers |-> [handler[h] EXCEPT !.attached = FALSE]]
    /\ UNCHANGED <<disk, table, uploaded, deleted, aged, changed, stored, rows, link, past>>

\* A server that dies unnoticed: the call is without a deadline, and waits.
ServerCrashUnnoticed ==
    /\ Fault
    /\ handler' = [h \in Handlers |-> Free]
    /\ UNCHANGED <<local, worker, stored, rows, link, past>>

\* The server dies: its handlers are gone, and a waiting call fails.
ServerCrash ==
    /\ Fault
    /\ handler' = [h \in Handlers |-> Free]
    /\ worker' = IF worker.at = "calling" THEN Fails(worker) ELSE worker
    /\ UNCHANGED <<local, stored, rows, link, past>>

Next ==
    \/ \E r \in Recordings : PassFinishes(r)
    \/ RegisterPassOutput
    \/ \E r \in Recordings : Change(r)
    \/ Age
    \/ Cycle
    \/ LoseCall
    \/ HeartbeatFails
    \/ Monitor
    \/ \E h \in Handlers : Handle(h)
    \/ WorkerCrash
    \/ ServerCrash

Spec == Init /\ [][Next]_vars

\* The cycle runs again and again, and so do the server's handlers and monitor.
FairSpec ==
    /\ Spec
    /\ WF_vars(Cycle)
    /\ WF_vars(Monitor)
    /\ \A h \in Handlers : WF_vars(Handle(h))

-----------------------------------------------------------------------------
(* What the API lists and serves.                                          *)

IsAdmin(u) == Role[u] \in {"admin", "root"}

Scopes == {"mine", "public", "all"}

CanViewPass(u, r) == r \in Public \/ Owner[r] = u \/ IsAdmin(u)

\* handleListRecordings when everybody may ask for everything.
ListedToAll(u, scope) ==
    {r \in rows : scope = "mine" => Owner[r] = u}

\* handleListRecordings and the query behind it (the limit of 200 left out).
Listed(u, scope) ==
    CASE scope = "mine" -> {r \in rows : Owner[r] = u}
      [] scope = "public" -> rows \intersect Public
      [] scope = "all" -> IF IsAdmin(u) THEN rows ELSE {}

\* The recordings of a pass, of which there is one here.
ListRecordingsForPass(r) == rows \intersect {r}

\* handleListPassRecordings.
ListedForPass(u, r) == IF CanViewPass(u, r) THEN ListRecordingsForPass(r) ELSE {}

\* ListPasses with the filter of a scope.
ListPasses(u, scope) ==
    {r \in Recordings : /\ scope = "mine" => Owner[r] = u
                       /\ scope = "public" => r \in Public}

\* handleListPasses: the passes of recordings, by the same scopes.
ListedPasses(u, scope) ==
    {r \in ListPasses(u, scope) : CanViewPass(u, r) /\ (scope = "all" => IsAdmin(u))}

\* handleGetPass.
Opened(u, r) == CanViewPass(u, r)

\* handleDownloadRecording; a row without its file ("none") is answered as missing.
Served(u, r) ==
    IF r \in rows /\ CanViewPass(u, r) THEN stored[r] ELSE "not_found"

-----------------------------------------------------------------------------
(* Properties.                                                             *)

\* Every variable holds what its type says, and the call the worker waits for is one
\* the server works on for it.
TypeOK ==
    /\ disk \subseteq Recordings
    /\ table \in Seq(Recordings)
    /\ uploaded \subseteq Registered
    /\ deleted \subseteq Registered
    /\ changed \subseteq Registered
    /\ aged \in 0 .. Len(table)
    /\ executor \in Recordings \union {NoRecording}
    /\ worker.at \in {"idle", "uploading", "calling", "acked", "heard", "retaining", "unlinked"}
    /\ worker.at = "calling" => worker.call \in Handlers /\ handler[worker.call].attached
    /\ worker.todo \in Seq(Recordings)
    /\ stored \in [Recordings -> {"none", "intact", "spoiled"}]
    /\ rows \subseteq Recordings
    /\ link \in {"offline", "online", "silent"}
    /\ altered \subseteq Recordings
    /\ overlapped \subseteq Recordings
    /\ faults \in 0 .. MaxFaults

\* The recordings two calls were at work on at once and of which a call received
\* something else than it announced.
Disputed == altered \intersect overlapped

\* The server has a row only for a recording whose file it holds intact, unless two
\* calls for it overlapped and one of them received something else: one call alone
\* never leaves a row without its file, nor do overlapping calls that all receive what
\* they announced, although UploadRecording renames before it compares, compares what
\* it received with no regard to what is in the place, and removes that on a mismatch.
RowsAreIntact == \A r \in rows : stored[r] = "intact" \/ r \in Disputed

\* What the worker takes for confirmed is on the server, whatever answers were
\* lost and whoever crashed (upload_pending, InsertRecordingIfAbsent).
ConfirmedIsStored == uploaded \subseteq rows

\* Between the worker's disk and the server's files there is a copy of every recording
\* the worker takes for uploaded (uploads.py: "A failed upload never costs a recording:
\* the local copy stays and the attempt is retried later").
FailedUploadCostsNothing == \A r \in uploaded : r \in disk \/ stored[r] # "none"

\* A local copy the server has not confirmed is removed only under disk pressure,
\* and only after every confirmed copy that can go (select_for_cleanup: "the last
\* thing considered, because losing it would lose it for good").
UnconfirmedGoesLast ==
    [][\A r \in disk \ disk' : r \notin uploaded =>
          worker.pressure /\ disk \intersect uploaded \subseteq Undeletable]_vars

\* Whatever a list shows a user, the user is served, intact unless disputed, and what
\* a user is served is in some list: the lists, the pass's own list, the passes' list,
\* the pass and the download decide visibility each for themselves
\* (handleListRecordings, handleListPassRecordings, handleListPasses, handleGetPass,
\* handleDownloadRecording).
ListedIsServed ==
    \A u \in Users, r \in Recordings : \A scope \in Scopes :
        /\ r \in Listed(u, scope) =>
              /\ Served(u, r) # "not_found"
              /\ r \notin Disputed => Served(u, r) = "intact"
              /\ r \in ListedForPass(u, r) \intersect ListedPasses(u, scope)
              /\ Opened(u, r)
        /\ Served(u, r) # "not_found" => \E s \in Scopes : r \in Listed(u, s)

\* The recordings the server will not take: a retry announces the checksum of what is
\* no longer in the file, and only a row makes the server stop comparing.
Hopeless == changed \ (rows \union deleted)

\* A recording arrives, or is given up under disk pressure, as long as no hopeless one
\* is queued up to it (upload_pending takes the oldest first and stops at an error).
Unblocked(r) ==
    \E i \in 1 .. Len(table) : table[i] = r /\ \A j \in 1 .. i : table[j] \notin Hopeless

Arrives ==
    \A r \in Recordings : Unblocked(r) ~> (r \in uploaded \union deleted \/ ~Unblocked(r))

\* A worker that runs comes back online however often it was cut off, unless it
\* holds a recording the server will never take: the uploads come before the
\* heartbeat, and such a recording ends every cycle (_reconcile, upload_pending).
StaysInTouch == []<>(link = "online" \/ Hopeless # {})
=============================================================================
