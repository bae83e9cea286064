# Formal models of the Aagasa ground station

Aagasa lets users book satellite passes on a ground station.  A **server** (Go,
PostgreSQL) takes requests, gives the station's time away and turns approved
passes into executable plans.  A **worker** (Python, SQLite) at the station
fetches the plans, runs them on the hardware whether or not the server can be
reached, reports what happened and uploads recordings.  A Flutter client shows
it all.

This directory models the parts where two programs, several threads and two
databases have to agree: who has the station when, which pass the worker runs,
what a pass is said to have ended as, where its recordings are; and the server's
other records where requests about them overlap: accounts and sessions, the
station's settings and configurations, the satellites and their elements.

## Inventory

| Part | State | Operations | What is hard, and what makes it correct |
|---|---|---|---|
| Scheduling service (`scheduling/service.go`) | rows of `passes` and `pass_plans` | request, root override, approve, reject, cancel | Concurrent HTTP handlers that read, validate and update later. The station is never booked twice, settled passes stay settled, an override evicts what is in its way or nothing. |
| State machine and rules (`statemachine.go`, `rules.go`, `rbac.go`) | none | transitions, reservation windows, lead time, authority | Half-open windows, terminal statuses. |
| Store (`store/*.go`, migrations) | PostgreSQL | conditional updates, exclusion constraint, transaction | The condition of each UPDATE is what makes the handlers' stale reads harmless. |
| Plan generator (`passplan/`) | none | content of the tables to a plan with a generation hash | Called between the check and the approval. |
| Worker API (`workerapi/`) | connection state, inventory of pipelines | register, heartbeat, sync, report, upload, stale monitor | Lost answers, calls made twice, records for passes settled meanwhile. |
| Worker plan store (`planstore.py`) | SQLite: plans, history, recordings | replace the desired state, claim, finish, scan, recover, mark synced | Two threads, lock released between statements, crash between any two. |
| Executor (`executor.py`) | where it is in a tick | recover, tick, execute | Acts on what it read before the sync thread wrote. |
| Sync loop (`main.py`, `sync.py`, `uploads.py`) | where it is in a cycle | report, upload, heartbeat, fetch and apply, retention | Any call may fail; the whole cycle is then repeated. |
| Recordings (`recordings.py`, `uploads.py`, `upload.go`, `filestore/`) | files, rows on both sides | collect, upload, store, delete, list, serve | Lost answers and retries, overlapping uploads of one recording, corrupted transfers. What is confirmed has its row, what is listed is served, intact unless overlapping uploads disagreed, what is unconfirmed is deleted last. |
| Hardware (`pass_execution.py`, `hardware/`) | devices, child processes | track, record, stop | Orderly stop; mostly I/O. |
| Scheduling configuration (`rules.go`, `repository.go`) | versions with an effective time | create, choose, show | A later version may take effect earlier. The version in force only moves on. |
| Setup and settings (`setup_handlers.go`, `root_handlers.go`) | station, bands, hardware | set up, update | Read, merge, write of whole rows by overlapping requests. |
| Accounts and sessions (`auth/`, `user_handlers.go`, `middleware.go`) | `users`, sessions in Redis | bootstrap, log in and out, change password, create, change role, delete | Requests act on a copy of the user; servers start at once. One root, who makes the admins. |
| Catalog and elements (`catalog/`, `tle/`) | `satellites`, `tle_records` | add, refresh, delete | Statements without a transaction, providers that fail or lag. Elements never go back. |
| Pipelines (`pipeline_handlers.go`, `passes.go`) | `satdump_pipelines` | replace the inventory, upload | Deletion against passes that refer to it. |
| HTTP layer, prediction service, client, deployment | none of their own | | Encoding, computation, display. |

`PROJECT.json` lists every part with its status, and every hazard at its line.

## Modules

| Module | Models |
|---|---|
| `StationBooking` | Abstract: the station's time is reserved, taken over by an eviction, or released. |
| `Scheduling` | The scheduling service over the tables, one action per statement of a handler. |
| `SchedulingProofs` | Theorems about `Scheduling`. |
| `PlanStore` | The worker: plan store, executor thread, sync thread. |
| `PlanStoreProofs` | Theorems about `PlanStore`. |
| `GroundStation` | Both together (instances of `Scheduling` and `PlanStore`), meeting in heartbeat, fetch and report. |
| `GroundStationProofs` | Theorems about `GroundStation`, from those about its two sides. |
| `Uploads` | A recording's way from a finished pass to the server and out again, the heartbeat and the stale-worker monitor. |
| `UploadsProofs` | Theorems about `Uploads`. |
| `Station` | First-run setup, the station's settings, the versions of the scheduling configuration. |
| `StationProofs` | Theorems about `Station`. |
| `Accounts` | Users, sessions, and the requests that act under them. |
| `AccountsProofs` | Theorems about `Accounts`. |
| `Catalog` | Satellites, elements, pipelines, and the passes that refer to them. |
| `CatalogProofs` | Theorems about `Catalog`. |
| `MCScheduling`, `MCPlanStore`, `MCGroundStation`, `MCUploads`, `MCStation`, `MCAccounts`, `MCCatalog` | Instances for TLC. |

### Scheduling

`status`, `owner`, `reason` are columns of `passes` (`"none"`: no row), `plan` is
the generation in `pass_plans`, `content` the version of the station data a plan
is generated from, `workerOnline` the worker's connection state.  `handler[h]` is
an HTTP request in progress: the operation, the point it has reached, the pass,
the user, and the plan it has generated but not yet stored.

A handler begins with everything the code reads and checks before its first
write (`BeginRequest`, `BeginOverride`, `BeginApprove`, `BeginReject`,
`BeginCancel`); then come the statements, each with the condition the SQL
carries (`CommitRequest`, `CommitOverride`, `GeneratePlan`, `StorePlan`,
`CommitDecision`, `CommitCancel`).  Any other handler may run between two of
them, and a handler may fail between any two (`Fail`) without undoing what it
wrote.  `CommitOverride` is one action since the code runs it in one transaction
under the exclusion constraint; an insertion that loses to another is rolled
back, which is `Fail`.  The worker is here what it does to the tables:
`SyncPassPlans` and `ReportExecutions`, of any outcome for any pass it was ever
sent; `GroundStation` shows that the real worker does no more.

### PlanStore

`state`, `generation`, `stored`, `history`, `synced` are the SQLite file, the
only thing a `Crash` leaves.  `executor` and `syncer` are the program counters
of the two threads with their local variables: the passes a scan has read and
is marking one by one, the clock the tick has read, the plan `next_due` has
returned, the batch being reported, the set being applied.

Every SQL statement is an action.  `FinishUpdate` and `FinishHistory` are two, as
in `mark_finished`; so are `Claim` and `ClaimHistory`; `ReplaceDesiredState` is
one because it is a transaction.  The sync cycle is report, heartbeat, fetch,
apply; `CycleFails` ends it at any point, with or without the server having
processed some of the records.  By itself the module lets the server want,
regenerate (`Want`) and withdraw (`Withdraw`) plans as it likes.

A hash of a set of plans is modelled by the set (no collisions), a hash of a
plan by a model value.

### GroundStation

The server's tables supply `PlanStore`'s `wanted` (`Wanted`), and the records of
the worker's history supply `Scheduling`'s `ReportExecutions` (`RecordOutcome`).
Both sides read one clock: skew between the machines is not modelled.

### Uploads

`disk`, `table`, `uploaded`, `deleted` are the recordings directory and the
worker's `recordings` table, oldest first; `aged` says how far down the table
the minimum retention has passed.  `executor` is between the end of a pass and
`register_pass_output`, `changed` the files that are no longer what was registered
(`Change`, of an `Unsettled` recording: checksum and identity stay what they were),
`worker` the program counter of the cycle with the batch
it has selected, `stored` and `rows` the server's files and rows.  `handler[h]`
is an `UploadRecording` call: look up, receive, rename into place, compare, insert,
answer.  What a call received is its own (`content`): the file as it is by then, or
what a transfer that goes wrong makes of it (a fault).  `MoveIntoPlace` writes that,
`Verify` compares that with what the call announced, whatever is in the place by now,
and a mismatch removes the file in the place, whoever put it there.  `LoseCall`
leaves the handler running with nobody waiting, so that the
next cycle uploads the same recording beside it; a handler without a caller
still stores what it has received to the end.  The queues of a cycle are given by
what is in them: the one sequence of those recordings in the order of the query
(`InOrder`, `StartRetention`).  A crash of the worker keeps the
files and the table only, a crash of the server the files and the rows.

The heartbeat comes after the uploads, and an error of an upload ends the cycle
before it, so `link` (online, silent for `StaleAfter`, offline) hangs on what
the server accepts.  A file that has changed is announced with its old checksum by
every retry, and the server refuses it every time unless it already has the row
(`Hopeless`): it holds up every recording behind it, the heartbeat and the retention.
`Arrives` and `StaysInTouch` say so by excepting exactly that.

Two calls that overlap can lose a file: one that fails late removes what the other
has stored (finding 4).  The histories `altered` (a call received something else than
it announced) and `overlapped` (two calls were at work on the recording at once)
name the recordings that can happen to: those in both are `Disputed`.
`RowsAreIntact` says that nothing else can lose the file of a row: not a mismatch of
a call by itself, and not overlapping calls that all receive what they announce, in
whatever order they rename, compare and insert.

The lists, the pass and the download decide visibility with code of their own;
`Listed`, `ListedForPass`, `ListedPasses`, `Opened` and `Served` are those decisions, and
`ListedIsServed` says that they agree with each other, and with the files but for
disputed recordings, which are listed and answered as missing or altered.

### Station

`stations` and `versions` are tables in the order of `created_at`, with the rows
of an open transaction in them but seen by nobody (`visible`).  `handleSetup`
checks, begins, commits; all other requests read in one step and write in the
next.  `UpdateStation` writes the whole row without the active band, which has
a statement of its own (`SaveActiveBand`); `SaveBand` writes the whole row of a
band.  `IsEffective` and `IsPending` are the two queries on versions; a version keeps
also what it was compared with and when it was asked for, which only the
properties read.

Two setups at once both commit, each with a station of its own; the older one
is used from then on.  Two updates of one band may lose one's fields.  Nothing
in the repository says otherwise; `PlannableStays` and `BandIsAskedFor` say what
overlapping updates never do beyond that.  `ShorteningIsDelayed` holds of a version
and the one it was compared with.  Two overlapping updates can escape the delay: lead
time 1 is in force and both read it; the first inserts 3, in force at once; the second
inserts 2, longer than what it read, and so in force at once too, although it shortens 3.

### Accounts

`users`, `session` and `owners` are the table of users, the sessions in Redis
and the column `passes.requested_by`.  `request[h]` is what a request holds: the
user as read by `requireAuth`, which every later check uses, and the target as
read by the handler.  `boot[s]` is a server between counting the users and
inserting the root.  The unique indexes, the trigger that protects the root and
the foreign key of passes are part of the statements (`Insertable`,
`SetUserRole`, `DeleteUser`).

### Catalog

`job[j]` is a request or the refresh loop between two statements: a satellite
with the elements fetched for it, the rest of a sweep, a pass about to be
inserted.  Providers answer anything, of any satellite and any epoch, or
nothing; the chain takes the first answer that will do.  Whether a record is a
day old is left open at every visit of the loop.  The loop is never abandoned,
since it keeps nothing: a restarted server sweeps at once.

## Runs

| Run | Result | Bounds | Shows |
|---|---|---|---|
| `scheduling_race` | holds | 2 passes whose buffers overlap, a user and a root, 2 handlers, clock 0..1, 1 edit | types, `NoDoubleBooking`, `OverrideExplained`, `TerminalIsFinal`, `PlanBeforeApproval`, and the refinement of `StationBooking` |
| `planstore` | holds | 2 passes back to back with a post-roll that overlaps, 2 generations, 2 changes of the server's mind, 1 restart, clock 0..3 | `OutcomeIsFinal`, `CancelledNeverStarts`, `HistoryAgrees`, `SyncedWasDelivered` |
| `planstore_live` | holds | 2 passes, 1 generation, 1 restart, clock 0..2, fairness | `EveryPlanIsClosed`, `EverythingIsReported`, and `NeverReplayed` while plans are not regenerated |
| `ground_station` | holds | 1 pass, a user and a root, 1 handler, 1 edit, 1 restart, clock 0..3 | `OutcomesAgree`, `OnlyApprovedPassesAreKnown`, and that the server inside is a `Scheduling` |
| `uploads` | holds | 2 recordings, one that may change, 2 handlers, a user and a root, 1 fault, fairness | `RowsAreIntact`, `ConfirmedIsStored`, `ListedIsServed`, `UnconfirmedGoesLast`, `Arrives`, `StaysInTouch` |
| `station` | holds | 2 requests at a time, 3 in all, 2 names, bands and fields, lead times 1..3, clock 0..2 | `EffectiveNeverReturns`, `PendingIsWhatComes`, `ShorteningIsDelayed`, `BandIsAskedFor`, `PlannableStays` |
| `accounts` | holds | 3 users, 2 sessions, 2 requests, 2 servers | `OneRoot`, `AdminsAreMadeByTheRoot`, `TriggerIsNeverNeeded`, `ActsWithOwnPassword`, `RequestersStay` |
| `catalog` | holds | 2 satellites, 2 epochs, 2 providers, 1 pipeline, 1 pass, 1 request beside the loop, fairness | `RecordsHangTogether`, `CurrentNeverGoesBack`, `ElementsArrive` |
| `replay_after_restart` | violated | 1 pass, 2 handlers, 1 edit, 1 restart | finding 1 |
| `interruption_lost` | violated | 1 pass, 1 handler, 1 restart, post-roll 1 | finding 2 |
| `missed_as_cancelled` | violated | 1 pass, 1 handler | finding 3 |
| `failed_upload_costs` | violated | 1 recording that does not change, 2 handlers, 2 faults | finding 4 |

Why the bounds are enough.  Two handlers suffice for every race of two requests
about one row or one window; the theorems cover any number of them, of passes
and of windows (an override with several victims among them).  Two passes on the worker are needed for a
scan with two entries and for a pass that is late because another one runs; the
clock goes one step beyond the last LOS so that every window closes, post-rolls
end, and the server has dropped the pass.  One restart is enough to lose what is
in memory at any point; the state after it is a state the first run could have
left.  In `replay_after_restart` the clock stops at AOS and the passes begin as
soon as lead time allows, because the scenario needs no more.

`uploads` needs two recordings, one waiting in the queue behind the other, which may
change, or in front of it, and, for retention, one confirmed beside one that is not; and
two handlers for a retry beside the first attempt.  One fault (a lost call, a full
disk, a corrupted transfer, a failed statement, a failed heartbeat or a crash) already
leads to each of those, and a changed file to a mismatch without a fault.  So the run
has calls that disagree about a recording (the first receives it before the change, the
second after it) and rows that lose their file.  A file that cannot be unlinked
(`Undeletable`) is in none of the runs; `UnconfirmedCopiesGoLast` is proved with any.
`failed_upload_costs` needs a second fault, as its file does not change: the transfer
is corrupted and its connection lost.  `station` needs three requests for two
configurations after the setup, of which the later takes effect first when the
lead times are 2 and 1; the clock stops at 2, one step after that.  `accounts`
needs a root and two others, one of whom acts on the other.  In `catalog` the two
jobs overlap at every statement; two requests that add the same satellite at
once are left to the unique index and are not in this instance.

`CHECK_DEADLOCK` stays on but in `station`, whose clock and number of requests are
bounded: after the last request nothing is left to do.  Elsewhere a handler, a
thread or a server can always go on or be woken.

The handlers of `scheduling_race` and `replay_after_restart` are interchangeable,
and so are the requests, names, bands and fields of `station` and the users,
sessions, requests, servers and names but the bootstrap's of `accounts`, hence
the symmetry; none of these runs checks liveness.

### Fairness

Three runs use `FairSpec`.  In `planstore_live` the clock advances (weakly fair).  The
executor thread never waits for anything but time and its handler returns after
the recording at the latest (`WF Execute`); the sync thread starts a new cycle
whatever happened to the last (`Worker.run` catches every exception, `WF
Synchronize`).  That the server answers again and again is strong fairness of
`RecordProcessed`, `ReportAnswered` and `MarkHistorySynced`: the calls may fail
any number of times, not for ever.  `EveryPlanIsClosed` does not need the server;
`EverythingIsReported` does.

In `uploads` the cycle is weakly fair (`Worker.run` again), and so are the server's
handlers, whose steps wait for nothing but a stream that ends or is cut, and the
monitor, a ticker.  Faults are no part of it: they are bounded, so that in the end
a call goes through.  In `catalog` the loop goes on (`WF Sweep`, a ticker and a walk
through a list), and every satellite's turn finds again and again a provider that
answers (`SF LoopFetches`); it may fail any number of times before.  Requests,
registrations and deletions are not fair in any run.

## Findings

1. **A second execution.**  `replace_desired_state` puts a running plan back to
   `received` when its generation has changed.  Two approvals around an edit of
   the station's radio settings, and a restart of the worker before the pass
   ends, start the pass twice, against `executor.py:83`.  Without a new
   generation it never happens (`NeverReplayed` in `planstore_live`).
2. **An interruption that is not recorded.**  The server lists approved passes
   until LOS, the worker records beyond it.  A sync in that time cancels the row
   of the running pass.  Normally `mark_finished` overwrites this, but after a
   restart `recover_interrupted` finds nothing executing: there is no outcome and
   the server shows the pass as approved for ever.
3. **A miss that is not reported.**  For the same reason a plan the executor has
   not reached by LOS, because it runs another pass, sleeps, or has not
   recovered yet, is cancelled by the next sync rather than marked missed.
4. **A failed upload that costs a recording.**  `UploadRecording` renames before it
   compares, and a mismatch removes what is in the place.  A transfer arrives
   corrupted and its connection is lost; the retry finds no row and puts the
   intact file over the first one's; now the first call sees its own mismatch and
   removes the file; the retry, content with what it received itself, inserts its row
   and confirms.  The worker counts the recording as uploaded and retention deletes
   its copy, against `uploads.py:3`: a failed upload never costs a recording.
   Comparing before the rename would be enough.

Findings 2 and 3 are about the same line, `passplans.go:58`.

## Theorems

`SchedulingProofs` proves, for any sets of passes, users and handlers, any
windows and any buffers, from the named assumptions of `Scheduling`
(`WindowAssumption`: LOS after AOS, buffers and lead time not negative;
`UserAssumption`: every user has one of three roles, and the null values are no
users or passes):

- `TypeCorrect`: `TypeOK` is inductive as it stands.  A handler at work knows its
  pass and its user, which every later proof needs.
- `StationNeverDoubleBooked`: `NoDoubleBooking` is inductive relative to `TypeOK`.
  A pass becomes live in two actions only, one of which finds nothing in its way
  and the other removes what is.
- `SettledPassesStaySettled` and `EvictionsAreExplained` need `InsertsAreFresh`: a
  handler that is about to insert a row is alone with its id, and the row does
  not exist.  Without it, an insertion could overwrite a settled pass.
- `ApprovedPassesWerePlanned` needs `ApprovalsArePlanned`: an approval that has
  reached its last statement left its plan in the table, and plans are replaced
  but never removed.
- `SchedulingImplementsBooking`: every step is a step of `StationBooking` under the
  mapping `holding` = live passes, `released` = terminal passes, or leaves both
  alone.  It uses `InsertsAreFresh` and that live and terminal exclude each other.

`AccountsProofs` proves, for any sets of users, sessions, requests and servers, from
`NamesAssumption` (the bootstrap's name is one) and `NoneAssumption` (the null value is
no user and no row), all that the run `accounts` checks.  Two lemmas carry it:
`UsersStep` says what a step can do to the table of users, `RequestStep` what it can do to
a request.

- `TypeCorrect`: `TypeOK` with `Attributed`, that a request at work acts for some user and
  that one about to write acts for the root and makes nobody another one.
- `TheRootIsOne`, `TargetsAreNeverTheRoot` and `OnlyTheRootMakesAdmins` rest on one
  invariant, `RootInv`.  Beside the two properties it says that a request admitted as
  the root's is still the root's (`RootCopies`) and that there is a root where a request
  is at work (`Accompanied`), without which a first user could come before the root.
- `PasswordsAreChangedFirst`: the flag of a user who is there is never set again, and a
  new user has an id that no request knows.
- `RequestersAreKept`: a pass and a deletion meet in the foreign key.

`StationProofs` proves, for any number of requests, names, bands, fields and lead times
and any bounds, from `LeadsAssumption` and `BoundsAssumption`, all that
the run `station` checks.  `VersionsStep`, `StationsStep` and `RequestStep` say what
a step can do to the versions, the stations and the requests.

- `TypeCorrect`: the inductive invariant `Inv` is `TypeOK`, `Sound` of every request (what
  it has read is there, and a configuration it has read applied then and still does)
  and `Timed` of every version (when it takes effect follows from the version it was compared
  with).  A bare `TypeOK` does not say what kind of value a request holds when it writes it.
- `SupersededStaysSuperseded`: versions are only appended and the clock only advances, so
  what applies keeps applying.
- `ShorterLeadTimesWait` needs `Timed`, and `PendingComesNext` needs `Sound` and that a
  non-empty set of versions has a last one (`LastOf`, from the well-founded order of
  the subsets of a finite set).
- `BandsAreAskedFor` and `PlannableBandsStay` follow from the three things a step can do to
  a row (`RowStep`).

`PlanStoreProofs` proves, for any sets of passes and generations, any windows, any number
of restarts and changes, from `WorkerWindowAssumption`, `WorkerValueAssumption` (the null
values are no passes, plans or sets) and `WorkerBoundAssumption`, all the safety
that the runs `planstore` and `planstore_live` check.  There is a lemma for each action.

- `TypeCorrect`, `OneOutcomeEach` and `NothingGoesUnreported` come from one invariant, `Inv`.
  `HistoryAgrees` needs `Closing`: between the two statements of `mark_finished` the
  plan has its outcome and the history none yet, and whatever the executor is about to
  close or to start is there and has no outcome.  `SyncedWasDelivered` needs `Answered`:
  the batch about to be marked was processed.
- `PassStep` says in which five ways a step may change the state of a pass (closed, started,
  accepted, renewed, dropped).  `OutcomesStay` and `CancelledStaysUnstarted` follow from it.
- `StartedPassesAreNotReplayed` is `NeverReplayed` under the hypothesis `PlanIsKept`: no
  resync gives a pass that is being executed another generation.  Its invariant
  `StartedOnce` says that a pass with a start in the history is not pending, and the one
  whose entry is about to be written has none yet.  `OnePlanIsStartedOnce` is the
  case of one generation, in which the hypothesis always holds.  Without it `NeverReplayed`
  is false (finding 1).

`GroundStationProofs` proves, for any number of passes, users and handlers, from
`StationWindowAssumption`, `StationUserAssumption` and `StationBoundAssumption`, all that
the run `ground_station` checks.  It takes what `SchedulingProofs` and `PlanStoreProofs`
prove of a step of either side through the instances `SP` and `WP`: the lemmas
from `ServerWindows` to `WorkerBounds` discharge their assumptions, `SameServer` and
`SameWorker` say that those instances and the ones `GroundStation` itself is built from
are the same formulas.

- The invariant `GInv` is what both sides need by themselves, and how they hang together:
  whatever the worker mentions anywhere (`Mentions`: a plan, an entry, the executor, a set
  being applied) was given to it (`OnlyGivenPassesAreMentioned`), whatever was given had
  been approved, and a final status is backed by the history (`OutcomesAgree`).
- `ServerTellsWhatHappened` and `UnapprovedPassesStayUnknown` are parts of it or follow.
- `SchedulerIsImplemented`: every step is one of `Scheduling` or leaves the server alone.
  The worker's report is the one that has to be shown to be allowed there, by
  `OnlyGivenPassesAreMentioned`.
- `PromisesAreKept`: what the two sides promise by themselves holds in the whole.
- `NothingIsReplayedWithoutAnEdit`: if `content` never changes, every plan anywhere is of
  the same version (`OneVersion`), so `PlanIsKept` holds and no pass is started twice.
  The run `replay_after_restart` shows that one edit is enough to break that.

`UploadsProofs` proves, for any recordings, users, handlers and number of faults, from
`RecordingsAssumption` and `UsersAssumption`, all the safety that the run `uploads` checks.

- The invariant `Inv`: what the worker and each handler hold at each point (`Holding`), that
  the worker waits for the one handler with a caller (`Connected`), that two calls at
  work on one recording have been noted as overlapping (`Together`), how what
  calls received, files and rows hang together (`Kept`), that what is confirmed or
  about to be has its row (`Confirmed`), that what is marked deleted is gone (`Gone`),
  and the order of the retention queue (`ConfirmedFirst`).
- `RowsStayIntact` is part of `Kept`, whose other parts it needs: a call verifies only what
  it received as announced (`Received`), a call that is past its lookup when there is
  a row overlapped the one that inserted it (`Late`), and what a call has put in its place
  is still there when it inserts its row (`InPlace`).  For a recording that is not
  disputed, either no call received anything else, so that whatever renames or removes
  does so with the same intact content or not at all, or no two calls overlapped, so
  that nobody writes after a row.
- `ConfirmedStaysStored` needs `Connected`, since an answer is to the recording
  at the head of the queue only if it comes from that handler.
- `ListsAndDownloadsAgree` rests on `RowsAreIntact` for the content, and on the roles for
  who is listed and served what.
- `UnconfirmedCopiesGoLast` needs `ConfirmedFirst`, and that the head of the queue has nothing
  before it.

`CatalogProofs` proves, for any satellites, epochs, providers, requests and pipelines, from
`NumbersAssumption` (ids, catalog numbers and epochs are naturals, and there is a provider),
all the safety that the run `catalog` checks.

- The operators of the model choose: the least free id, the first provider, the next
  satellite, the newest elements.  That there is one to choose is proved first, from the
  well-founded order of the subsets of a finite set (`SomeIsLeast`, `SomeIsNewest`).
- The invariant `Inv` adds to `TypeOK` and `RecordsHangTogether` that a satellite without a
  row has no elements and every one has finitely many (`Cascaded`), and that what a job
  holds of a satellite that is still there is of that satellite (`Sound`).  `Sound`
  survives since a new satellite has an id that no job knows (`FreeIdsAreUnknown`).
- `CurrentStaysNewest`: the elements of a satellite that stays are only added to, and the
  newest of more elements is at least as new.

Model-checked only: the liveness properties (`EveryPlanIsClosed`, `EverythingIsReported`,
`Arrives`, `StaysInTouch`, `ElementsArrive`), which need fairness and ENABLED, beyond the
proof system's reach; and the violations behind the findings, which are counterexamples.
Every invariant and action property of a passing run is proved.

## Not modelled

- One station, as in `stationAndConfig`, and one worker for it.
- What is left of an approval that fails after `StorePlan`: the plan stays in the table
  although the pass is not approved, and the API serves it, where `pass_handlers.go:342`
  says that only an approved pass has one.  `Scheduling` has the step (`Fail`), and
  `OnlyApprovedPassesAreKnown` says that the worker never gets such a plan; nothing is
  stated of the table itself.
- Which generation of a plan the executor runs when a resync replaces it between
  `next_due` and the claim: it runs the one it has read, and nothing promises otherwise.
- In `Scheduling` the configuration and each pass's window are constants; which
  version a request would use is in `Station`.
- The prediction service, band warnings, audit records.  A station that is moved
  between a request and its approval makes the approval fail, since no predicted
  pass matches any more; the pass then stays pending.
- Registration of the worker itself, its cached identity, back-off.  The stale
  monitor has no clock of its own, and a heartbeat whose handler is so late that it
  stores an older `last_seen_at` is not in `Uploads`.  `in_sync` is what
  `handleListWorkers` makes of the row: a generation and an open connection, not that
  the generation is the current one.
- A file that changes back to what was registered: it changes once.  The batch of ten per cycle and
  the lists' limit of 200 are left out, and so is the branch of `upload_pending`
  for local read errors, which goes on with the next recording.
- `handleUpdateHardwareConfig`, which reads, merges and writes like the bands, and
  the settings that no property tells apart.
- Names, metadata and the schedulable flag of satellites; the files of custom
  pipelines, which remain `pending` when their write fails, with the name taken;
  overlapping registrations of workers.
- Elements are stored once: a record that is a day old and still the provider's
  latest is fetched again every hour, which changes nothing in `Catalog`.
- `ChangePassword` stores the new password whatever became of the old one since
  it was verified; passwords themselves are not in `Accounts`.
- Failing SQLite statements in the executor thread (they end the tick, or in
  `recover` the thread), and plans of an unsupported version, which the worker
  skips.
- Limits on the number of entries sent in one call (200).
- `DeletePassPlan` and `SetPassStatus`, which nothing but tests calls.
- Generated code, the client, deployment scripts, the seeding command.

## Plan

1. A strengthening of `NothingIsReplayedWithoutAnEdit`: edits that reach no pass in
   execution; and `PlanIsKept` from the times at which the server may plan anew.
2. *WorkerConnection*: registration and back-off, with time.
3. *PassExecution*: order of the hardware steps, stop and cleanup.
4. `Scheduling` with the configuration of `Station` in place of the constant.
