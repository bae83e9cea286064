------------------------------- MODULE Catalog -------------------------------
(***************************************************************************)
(* The satellite catalogue, the orbital elements fetched for it from a     *)
(* chain of providers, the inventory of SatDump pipelines, and the passes  *)
(* that refer to all of them.                                              *)
(*                                                                         *)
(* An operator adds and deletes satellites and refreshes all elements; the *)
(* refresh loop does so every hour for the elements that are a day old;    *)
(* the worker reports its pipelines when it registers.  No two statements  *)
(* of these are in one transaction, and each is a step of its own.         *)
(*                                                                         *)
(* An element set is abstracted to its catalog number and epoch: two sets  *)
(* with the same are the same two lines.                                   *)
(***************************************************************************)
EXTENDS Integers, FiniteSets

CONSTANTS
    SatIds,         \* uuids of satellites
    Norads,         \* catalog numbers
    Epochs,         \* epochs of element sets
    Providers,      \* the length of the chain
    PipelineIds,    \* uuids of pipelines
    PipelineNames,  \* their names
    Handlers,       \* concurrent HTTP requests
    Loop,           \* the refresh loop
    MaxPasses,      \* bound on the passes
    None            \* no row, no answer

ASSUME NumbersAssumption ==
    /\ SatIds \subseteq Nat /\ Norads \subseteq Nat \ {0} /\ Epochs \subseteq Nat
    /\ PipelineIds \subseteq Nat
    /\ Providers \in Nat \ {0}
    /\ MaxPasses \in Nat

VARIABLES
    satellites,     \* satellites[id]: the catalog number of a row, or None
    tles,           \* tles[id]: the element sets in tle_records
    pipelines,      \* pipelines[p]: a row of satdump_pipelines, or None
    passes,         \* what the rows of passes refer to
    reported,       \* the names a registration has still to insert
    job             \* job[j]: what a request or the loop holds between two statements

vars == <<satellites, tles, pipelines, passes, reported, job>>

Jobs == Handlers \union {Loop}

-----------------------------------------------------------------------------
(* Element sets and the providers' answers.                                *)

ElementSet == [norad : Norads, epoch : Epochs]

\* What a provider comes back with; None stands for a failed request, a refused
\* one, an empty answer, and lines that Parse finds malformed.
Answer == ElementSet \union {None}

\* A provider trusted to have sent the satellite it was asked for.
AcceptableAlways(answer, norad) == answer # None

Acceptable(answer, norad) == answer # None /\ answer.norad = norad

\* Chain.Fetch: the first provider whose answer will do.
Fetched(answers, norad) ==
    LET good == {i \in 1..Providers : Acceptable(answers[i], norad)} IN
    IF good = {} THEN None ELSE answers[CHOOSE i \in good : \A k \in good : i <= k]

-----------------------------------------------------------------------------
(* The tables.                                                             *)

Known(id) == satellites[id] # None

\* GetPipelineByID finds the pipeline.
PipelineKnown(pipe) == pipelines[pipe] # None

Pass == [sat : SatIds, set : ElementSet, pipe : PipelineIds \union {None}]

PipelineRow == [name : PipelineNames, custom : BOOLEAN]

\* LatestTLERecord: ORDER BY epoch DESC; the satellite has some record.
Latest(id) ==
    CHOOSE set \in tles[id] : \A other \in tles[id] : other.epoch <= set.epoch

\* Elements kept one set per satellite, the one fetched last.
StoreLast(id, set) == tles' = IF Known(id) THEN [tles EXCEPT ![id] = {set}] ELSE tles

\* CreateTLERecord: the foreign key refuses a satellite that is gone.
CreateTLERecord(id, set) ==
    tles' = IF Known(id) THEN [tles EXCEPT ![id] = @ \union {set}] ELSE tles

\* storeTLE: elements that are already there are not stored again.
StoreTLE(id, set) ==
    IF set \in tles[id] THEN UNCHANGED tles ELSE CreateTLERecord(id, set)

\* What the jobs hold in a field.
Held(field) == {job[j][field] : j \in {k \in Jobs : field \in DOMAIN job[k]}}

\* New uuids: nothing knows them, or nothing any more.
FreshIds ==
    {id \in SatIds : ~Known(id) /\ id \notin Held("id") \union {s.id : s \in UNION Held("todo")}}

FreshPipelineIds == {p \in PipelineIds : ~PipelineKnown(p) /\ p \notin Held("pipe")}

\* Which of them it is does not matter.
Least(S) == CHOOSE x \in S : \A y \in S : x <= y

Idle == [op |-> "idle"]

Put(j, state) == job' = [job EXCEPT ![j] = state]

-----------------------------------------------------------------------------
(* AddSatellite.                                                           *)

\* GetSatelliteByNoradID finds no row and the chain finds elements; without these
\* nothing is added.  The name and the metadata are left out.
FetchNew(h, norad, answers) ==
    /\ job[h] = Idle
    /\ \A id \in SatIds : satellites[id] # norad
    /\ Fetched(answers, norad) # None
    /\ Put(h, [op |-> "fetched", set |-> Fetched(answers, norad)])
    /\ UNCHANGED <<satellites, tles, pipelines, passes, reported>>

\* satellites.norad_id is UNIQUE: somebody may have added it since.
CreateSatellite(h) ==
    /\ job[h].op = "fetched"
    /\ LET set == job[h].set IN
       IF \E id \in SatIds : satellites[id] = set.norad
       THEN Put(h, Idle) /\ UNCHANGED satellites
       ELSE /\ FreshIds # {}
            /\ satellites' = [satellites EXCEPT ![Least(FreshIds)] = set.norad]
            /\ Put(h, [op |-> "created", id |-> Least(FreshIds), set |-> set])
    /\ UNCHANGED <<tles, pipelines, passes, reported>>

StoreNew(h) ==
    /\ job[h].op = "created"
    /\ StoreTLE(job[h].id, job[h].set)
    /\ Put(h, Idle)
    /\ UNCHANGED <<satellites, pipelines, passes, reported>>

\* What the providers answer, one after the other.
Answers == [1..Providers -> Answer]

HandleAddSatellite(h) ==
    \/ \E answers \in Answers, norad \in Norads : FetchNew(h, norad, answers)
    \/ CreateSatellite(h)
    \/ StoreNew(h)

-----------------------------------------------------------------------------
(* RefreshAll, by the loop and by handleRefreshTLEs.                       *)

\* ListSatellites.  Only an operator's request is forced.
ListSatellites(j) ==
    /\ job[j] = Idle
    /\ LET all == {id \in SatIds : Known(id)} IN
       /\ all # {}
       /\ Put(j, [op |-> "walk", todo |-> {[id |-> id, norad |-> satellites[id]] : id \in all}])
    /\ UNCHANGED <<satellites, tles, pipelines, passes, reported>>

\* ORDER BY norad_id.
FirstOf(todo) == CHOOSE s \in todo : \A t \in todo : s.norad <= t.norad

\* A satellite without a record counted as one that has nothing to refresh.
NeedsRefreshOfOld(id, dayOld) == tles[id] # {} /\ dayOld

\* needsRefresh: no record, or the current one was fetched a day ago, as it may
\* have been whenever the loop comes by.
NeedsRefresh(id, dayOld) == tles[id] = {} \/ dayOld

\* A walk that does not see its end.
WalkOn(todo) == [op |-> "walk", todo |-> todo]

Walk(todo) == IF todo = {} THEN Idle ELSE [op |-> "walk", todo |-> todo]

\* Refresh of the next satellite up to its elements.  Without elements the last
\* known good stay; needsRefresh's read is one step with the fetch, which changes
\* nothing here.
FetchNext(j, answers, dayOld) ==
    /\ job[j].op = "walk"
    /\ LET s == FirstOf(job[j].todo)
           rest == job[j].todo \ {s}
           set == Fetched(answers, s.norad) IN
       Put(j, IF (j = Loop /\ ~NeedsRefresh(s.id, dayOld)) \/ set = None THEN Walk(rest)
              ELSE [op |-> "refreshed", id |-> s.id, set |-> set, todo |-> rest])
    /\ UNCHANGED <<satellites, tles, pipelines, passes, reported>>

StoreNext(j) ==
    /\ job[j].op = "refreshed"
    /\ StoreTLE(job[j].id, job[j].set)
    /\ Put(j, Walk(job[j].todo))
    /\ UNCHANGED <<satellites, pipelines, passes, reported>>

\* handleRefreshTLEs, whose sweep is forced.
HandleRefreshTLEs(h) ==
    \/ ListSatellites(h)
    \/ \E answers \in Answers : FetchNext(h, answers, TRUE)
    \/ StoreNext(h)

\* RunRefreshLoop sweeps when the server starts and every hour.
Sweep ==
    \/ ListSatellites(Loop)
    \/ \E answers \in Answers, dayOld \in BOOLEAN : FetchNext(Loop, answers, dayOld)
    \/ StoreNext(Loop)

-----------------------------------------------------------------------------
(* The other requests.                                                     *)

\* Nothing keeps a satellite from being deleted.
UsedNever(id) == FALSE

\* passes.satellite_id REFERENCES satellites ON DELETE RESTRICT.
Used(id) == \E pass \in passes : pass.sat = id

\* DeleteSatellite; its tle_records go with it (ON DELETE CASCADE).
DeleteSatellite(id) ==
    /\ ~Used(id)
    /\ satellites' = [satellites EXCEPT ![id] = None]
    /\ tles' = [tles EXCEPT ![id] = {}]

HandleDeleteSatellite(id) ==
    /\ Known(id)
    /\ DeleteSatellite(id)
    /\ UNCHANGED <<pipelines, passes, reported, job>>

\* RequestPass reads the satellite and its current elements, and asks the
\* prediction service, for a pass that names a pipeline or none.
ReadForPass(h, id, pipe) ==
    /\ job[h] = Idle
    /\ Known(id) /\ tles[id] # {}
    /\ pipe # None => PipelineKnown(pipe)
    /\ Cardinality(passes) < MaxPasses
    /\ Put(h, [op |-> "request", id |-> id, set |-> Latest(id), pipe |-> pipe])
    /\ UNCHANGED <<satellites, tles, pipelines, passes, reported>>

\* CreatePass; the foreign keys refuse rows that are gone.
CreatePass(h) ==
    /\ job[h].op = "request"
    /\ LET pass == [sat |-> job[h].id, set |-> job[h].set, pipe |-> job[h].pipe] IN
       passes' = IF /\ Known(pass.sat) /\ pass.set \in tles[pass.sat]
                    /\ pass.pipe # None => PipelineKnown(pass.pipe)
                 THEN passes \union {pass} ELSE passes
    /\ Put(h, Idle)
    /\ UNCHANGED <<satellites, tles, pipelines, reported>>

\* The request ends early: an error, a caller who hung up, a server that dies.
Abandon(h) ==
    /\ job[h] # Idle
    /\ Put(h, Idle)
    /\ UNCHANGED <<satellites, tles, pipelines, passes, reported>>

-----------------------------------------------------------------------------
(* Pipelines.                                                              *)

\* An insert with satdump_pipelines.name UNIQUE.
InsertPipeline(row) ==
    IF \E p \in PipelineIds : PipelineKnown(p) /\ pipelines[p].name = row.name
    THEN UNCHANGED pipelines
    ELSE /\ FreshPipelineIds # {}
         /\ pipelines' = [pipelines EXCEPT ![Least(FreshPipelineIds)] = row]

\* handleCreatePipeline.
CreatePipeline(name) ==
    /\ InsertPipeline([name |-> name, custom |-> TRUE])
    /\ UNCHANGED <<satellites, tles, passes, reported, job>>

\* ReplaceStandardPipelines first deletes the standard ones that are not
\* reported any more and that no pass names; the worker may report names besides
\* these ...
Withdraw(names) ==
    /\ reported = {}
    /\ pipelines' = [p \in PipelineIds |->
           IF /\ PipelineKnown(p)
              /\ ~pipelines[p].custom
              /\ pipelines[p].name \notin names
              /\ \A pass \in passes : pass.pipe # p
           THEN None ELSE pipelines[p]]
    /\ reported' = names
    /\ UNCHANGED <<satellites, tles, passes, job>>

\* ... and inserts the others one by one, ON CONFLICT DO NOTHING; in between the
\* registration may fail.
Report(name) ==
    /\ name \in reported
    /\ \/ InsertPipeline([name |-> name, custom |-> FALSE]) /\ reported' = reported \ {name}
       \/ UNCHANGED pipelines /\ reported' = {}
    /\ UNCHANGED <<satellites, tles, passes, job>>

\* The worker registers with the names of its pipelines.
Register ==
    \/ \E names \in SUBSET PipelineNames : Withdraw(names)
    \/ \E name \in PipelineNames : Report(name)

-----------------------------------------------------------------------------
Init ==
    /\ satellites = [id \in SatIds |-> None]
    /\ tles = [id \in SatIds |-> {}]
    /\ pipelines = [p \in PipelineIds |-> None]
    /\ passes = {}
    /\ reported = {}
    /\ job = [j \in Jobs |-> Idle]

Handle(h) ==
    \/ HandleAddSatellite(h)
    \/ HandleRefreshTLEs(h)
    \/ \E id \in SatIds, pipe \in PipelineIds \union {None} : ReadForPass(h, id, pipe)
    \/ CreatePass(h)
    \/ Abandon(h)

Next ==
    \/ \E h \in Handlers : Handle(h)
    \/ Sweep
    \/ \E id \in SatIds : HandleDeleteSatellite(id)
    \/ \E name \in PipelineNames : CreatePipeline(name)
    \/ Register

Spec == Init /\ [][Next]_vars

\* The loop's turn at a satellite finds a provider that answers.
LoopFetches(id) ==
    /\ job[Loop].op = "walk"
    /\ FirstOf(job[Loop].todo).id = id
    /\ \E answers \in Answers, dayOld \in BOOLEAN :
          /\ Fetched(answers, FirstOf(job[Loop].todo).norad) # None
          /\ FetchNext(Loop, answers, dayOld)

\* The loop goes on, and no satellite is unlucky with its providers for ever.
FairSpec ==
    /\ Spec
    /\ WF_vars(Sweep)
    /\ \A id \in SatIds : SF_vars(LoopFetches(id))

-----------------------------------------------------------------------------
(* Properties.                                                             *)

\* pipelineFor: a pass names no pipeline or one that is there.
PipelineFor(pass) == pass.pipe # None => PipelineKnown(pass.pipe)

Listed == [id : SatIds, norad : Norads]

JobState ==
    {Idle}
    \union [op : {"fetched"}, set : ElementSet]
    \union [op : {"created"}, id : SatIds, set : ElementSet]
    \union [op : {"walk"}, todo : (SUBSET Listed) \ {{}}]
    \union [op : {"refreshed"}, id : SatIds, set : ElementSet, todo : SUBSET Listed]
    \union [op : {"request"}, id : SatIds, set : ElementSet, pipe : PipelineIds \union {None}]

\* Every table and every job holds what its type says.
TypeOK ==
    /\ satellites \in [SatIds -> Norads \union {None}]
    /\ tles \in [SatIds -> SUBSET ElementSet]
    /\ pipelines \in [PipelineIds -> PipelineRow \union {None}]
    /\ passes \in SUBSET Pass
    /\ reported \in SUBSET PipelineNames
    /\ \A j \in Jobs : job[j] \in JobState

\* Elements are of the satellite they are stored for, and the satellite, the elements
\* and the pipeline a plan of a pass is made from are there, however the request of
\* the pass, deletions, the refresh and the worker's report overlap (Refresh,
\* CreatePass, DeleteSatellite, ReplaceStandardPipelines, Generate).
RecordsHangTogether ==
    /\ \A id \in SatIds : \A set \in tles[id] : set.norad = satellites[id]
    /\ \A pass \in passes :
          Known(pass.sat) /\ pass.set \in tles[pass.sat] /\ PipelineFor(pass)

\* The elements a satellite's passes are predicted from are never replaced by
\* older ones, also not when a provider further down the chain answers with those
\* or a slow refresh ends after a later one (storeTLE, LatestTLERecord).
CurrentNeverGoesBack ==
    [][\A id \in SatIds :
          tles[id] # {} /\ Known(id)' => /\ tles'[id] # {}
                                          /\ Latest(id).epoch <= Latest(id)'.epoch]_vars

\* A satellite without elements gets them or is deleted: the loop makes up for a
\* request that ended between its two inserts and that AddSatellite refuses to
\* repeat (needsRefresh).
ElementsArrive ==
    \A id \in SatIds : Known(id) /\ tles[id] = {} ~> ~Known(id) \/ tles[id] # {}
=============================================================================
