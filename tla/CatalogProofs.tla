---------------------------- MODULE CatalogProofs ---------------------------
(***************************************************************************)
(* Theorems about Catalog, for any satellites, providers, requests and     *)
(* pipelines, and any epochs.                                              *)
(***************************************************************************)
EXTENDS Catalog, FiniteSetTheorems, TLAPS

-----------------------------------------------------------------------------
(* What CHOOSE finds.                                                      *)

\* Of some numbers one is the least.
LEMMA SomeIsLeast ==
  ASSUME NEW S \in SUBSET Nat, S # {}
  PROVE  \E x \in S : \A y \in S : x <= y
  <1>1. PICK n \in S : n \in Nat
    OBVIOUS
  <1> DEFINE T == {k \in S : k <= n}
             Upto(k) == 0 .. k
             Prefixes == {Upto(k) : k \in T}
             D == 0 .. n
             Order == StrictSubsetOrdering(D)
  <1>2. IsWellFoundedOn(Order, SUBSET D)
    <2>1. IsFiniteSet(D)
      BY <1>1, FS_Interval
    <2> HIDE DEF D
    <2> QED BY <2>1, FS_StrictSubsetOrderingWellFounded, FS_FiniteSubsetsOfFinite
  <1>3. Prefixes \subseteq SUBSET D /\ Prefixes # {}
    BY <1>1
  <1>4. PICK x \in Prefixes : \A y \in Prefixes : <<y, x>> \notin Order
    <2> HIDE DEF Prefixes, Order, D
    <2> QED BY <1>2, <1>3, WFMin
  <1>5. PICK k \in T : x = Upto(k)
    OBVIOUS
  <1>6. ASSUME NEW j \in S
        PROVE  k <= j
    <2> SUFFICES ASSUME j < k
                 PROVE  FALSE
      BY <1>1
    <2>1. j \in T
      BY <1>1
    <2>2. Upto(j) \subseteq Upto(k) /\ k \in Upto(k) /\ k \notin Upto(j)
      BY <1>1
    <2>3. <<Upto(j), Upto(k)>> \in Order
      BY <1>1, <1>3, <2>1, <2>2 DEF StrictSubsetOrdering
    <2> QED BY <1>4, <1>5, <2>1, <2>3
  <1> QED BY <1>6

\* Of finitely many element sets one is the newest.
LEMMA SomeIsNewest ==
  ASSUME NEW S \in SUBSET ElementSet, IsFiniteSet(S), S # {}
  PROVE  \E x \in S : \A y \in S : y.epoch <= x.epoch
  <1> DEFINE From(k) == {j \in S : k.epoch <= j.epoch}
             Suffixes == {From(k) : k \in S}
             Order == StrictSubsetOrdering(S)
  <1>0. \A k \in S : k.epoch \in Nat
    BY NumbersAssumption DEF ElementSet
  <1>1. IsWellFoundedOn(Order, SUBSET S)
    BY FS_StrictSubsetOrderingWellFounded, FS_FiniteSubsetsOfFinite
  <1>2. Suffixes \subseteq SUBSET S /\ Suffixes # {}
    OBVIOUS
  <1>3. PICK x \in Suffixes : \A y \in Suffixes : <<y, x>> \notin Order
    <2> HIDE DEF Suffixes, Order
    <2> QED BY <1>1, <1>2, WFMin
  <1>4. PICK k \in S : x = From(k)
    BY <1>3 DEF Suffixes
  <1>5. ASSUME NEW j \in S
        PROVE  j.epoch <= k.epoch
    <2> SUFFICES ASSUME k.epoch < j.epoch
                 PROVE  FALSE
      BY <1>0
    <2>1. From(j) \subseteq From(k) /\ k \in From(k) /\ k \notin From(j)
      BY <1>0
    <2>2. <<From(j), From(k)>> \in Order
      BY <2>1 DEF StrictSubsetOrdering
    <2> QED BY <1>3, <1>4, <2>2
  <1> QED BY <1>5

\* A new row has the least of the free ids.
LEMMA LeastIsFree ==
  ASSUME NEW S \in SUBSET Nat, S # {}
  PROVE  Least(S) \in S
  BY SomeIsLeast DEF Least

\* The chain answers with elements of the satellite it was asked for.
LEMMA FetchedIsAcceptable ==
  ASSUME NEW answers \in Answers, NEW norad, Fetched(answers, norad) # None
  PROVE  Fetched(answers, norad) \in ElementSet /\ Fetched(answers, norad).norad = norad
  <1> DEFINE good == {i \in 1..Providers : Acceptable(answers[i], norad)}
             first == CHOOSE i \in good : \A k \in good : i <= k
  <1>1. good # {} /\ good \in SUBSET Nat /\ Fetched(answers, norad) = answers[first]
    BY NumbersAssumption DEF Fetched
  <1>2. first \in good
    <2> HIDE DEF good
    <2> QED BY <1>1, SomeIsLeast
  <1> QED BY <1>1, <1>2 DEF Acceptable, Answers, Answer

\* The walk takes a satellite of its list.
LEMMA FirstIsListed ==
  ASSUME NEW todo \in SUBSET Listed, todo # {}
  PROVE  FirstOf(todo) \in todo
  <1> DEFINE N == {s.norad : s \in todo}
  <1>1. N \in SUBSET Nat /\ N # {}
    BY NumbersAssumption DEF Listed
  <1>2. PICK n \in N : \A m \in N : n <= m
    <2> HIDE DEF N
    <2> QED BY <1>1, SomeIsLeast
  <1>3. PICK s \in todo : s.norad = n
    OBVIOUS
  <1> QED BY <1>2, <1>3 DEF FirstOf

\* The current elements are the newest of the satellite.
LEMMA LatestIsNewest ==
  ASSUME NEW id \in SatIds, tles[id] \in SUBSET ElementSet, IsFiniteSet(tles[id]),
         tles[id] # {}
  PROVE  Latest(id) \in tles[id] /\ \A other \in tles[id] : other.epoch <= Latest(id).epoch
  BY SomeIsNewest DEF Latest

-----------------------------------------------------------------------------
(* The inductive invariant.                                                *)

\* What a job holds of a satellite that is still there is of that satellite.
Sound(r) ==
    /\ r.op \in {"created", "refreshed"} =>
          (Known(r.id) => r.set.norad = satellites[r.id])
    /\ r.op \in {"walk", "refreshed"} =>
          \A s \in r.todo : Known(s.id) => s.norad = satellites[s.id]

\* Elements go with their satellite.
Cascaded == \A id \in SatIds : IsFiniteSet(tles[id]) /\ (~Known(id) => tles[id] = {})

Inv ==
    /\ TypeOK
    /\ job \in [Jobs -> JobState]
    /\ Cascaded
    /\ RecordsHangTogether
    /\ \A j \in Jobs : Sound(job[j])

\* What a job holds, by what it is doing.
LEMMA JobFields ==
  ASSUME NEW r \in JobState
  PROVE  /\ r.op = "fetched" => r.set \in ElementSet
         /\ r.op = "created" => r.id \in SatIds /\ r.set \in ElementSet
         /\ r.op = "walk" => r.todo \in SUBSET Listed /\ r.todo # {}
         /\ r.op = "refreshed" =>
               r.id \in SatIds /\ r.set \in ElementSet /\ r.todo \in SUBSET Listed
         /\ r.op = "request" =>
               /\ r.id \in SatIds /\ r.set \in ElementSet
               /\ r.pipe \in PipelineIds \union {None}
  BY DEF JobState, Idle

\* What a job may go on to hold.
LEMMA JobStates ==
  /\ Idle \in JobState
  /\ \A set \in ElementSet : [op |-> "fetched", set |-> set] \in JobState
  /\ \A id \in SatIds, set \in ElementSet :
        [op |-> "created", id |-> id, set |-> set] \in JobState
  /\ \A todo \in SUBSET Listed : Walk(todo) \in JobState
  /\ \A id \in SatIds, set \in ElementSet, todo \in SUBSET Listed :
        [op |-> "refreshed", id |-> id, set |-> set, todo |-> todo] \in JobState
  /\ \A id \in SatIds, set \in ElementSet, pipe \in PipelineIds \union {None} :
        [op |-> "request", id |-> id, set |-> set, pipe |-> pipe] \in JobState
  BY DEF JobState, Walk

\* A job without a satellite is sound, and one that walks on over the same ones.
LEMMA SoundStates ==
  /\ Sound(Idle)
  /\ \A set : Sound([op |-> "fetched", set |-> set])
  /\ \A id, set, pipe : Sound([op |-> "request", id |-> id, set |-> set, pipe |-> pipe])
  /\ \A todo : (\A s \in todo : Known(s.id) => s.norad = satellites[s.id])
                  => Sound(Walk(todo))
  BY DEF Sound, Idle, Walk

\* A job moves on and the tables stay.
LEMMA PutStep ==
  ASSUME Inv, NEW j \in Jobs, NEW r \in JobState, Put(j, r), Sound(r),
         UNCHANGED <<satellites, tles, pipelines, passes, reported>>
  PROVE  Inv'
  <1>1. job' \in [Jobs -> JobState] /\ \A k \in Jobs : job'[k] = job[k] \/ job'[k] = r
    BY DEF Inv, Put
  <1>2. TypeOK'
    BY <1>1 DEF Inv, TypeOK
  <1>3. Cascaded' /\ RecordsHangTogether'
    BY DEF Inv, Cascaded, RecordsHangTogether, Known, PipelineFor, PipelineKnown
  <1>4. \A k \in Jobs : Sound(job[k])'
    BY <1>1 DEF Inv, Sound, Known
  <1> QED BY <1>1, <1>2, <1>3, <1>4 DEF Inv

-----------------------------------------------------------------------------
(* Satellites come and go.                                                 *)

\* No job knows of an id that is free.
LEMMA FreeIdsAreUnknown ==
  ASSUME Inv, NEW id \in FreshIds, NEW j \in Jobs
  PROVE  /\ ~Known(id)
         /\ job[j].op \in {"created", "refreshed", "request"} => job[j].id # id
         /\ job[j].op \in {"walk", "refreshed"} => \A s \in job[j].todo : s.id # id
  <1>1. /\ ~Known(id) /\ id \notin Held("id")
        /\ \A s \in UNION Held("todo") : s.id # id
    BY DEF FreshIds
  <1>2. job[j] \in JobState
    BY DEF Inv
  <1>3. job[j].op \in {"created", "refreshed", "request"} => job[j].id \in Held("id")
    <2>1. job[j].op \in {"created", "refreshed", "request"} => "id" \in DOMAIN job[j]
      BY <1>2 DEF JobState, Idle
    <2> QED BY <2>1 DEF Held
  <1>4. job[j].op \in {"walk", "refreshed"} => job[j].todo \in Held("todo")
    <2>1. job[j].op \in {"walk", "refreshed"} => "todo" \in DOMAIN job[j]
      BY <1>2 DEF JobState, Idle
    <2> QED BY <2>1 DEF Held
  <1> QED BY <1>1, <1>3, <1>4

\* A satellite is added under an id that nobody knows.
LEMMA CreateSatelliteStep ==
  ASSUME Inv, NEW h \in Handlers, CreateSatellite(h)
  PROVE  Inv'
  <1> DEFINE set == job[h].set
             id == Least(FreshIds)
  <1>0. h \in Jobs /\ job[h] \in JobState /\ set \in ElementSet
    BY JobFields DEF Inv, Jobs, CreateSatellite
  <1>1. CASE Put(h, Idle) /\ UNCHANGED satellites
    BY <1>0, <1>1, PutStep, JobStates, SoundStates DEF CreateSatellite
  <1>2. CASE /\ FreshIds # {}
             /\ satellites' = [satellites EXCEPT ![id] = set.norad]
             /\ Put(h, [op |-> "created", id |-> id, set |-> set])
    <2>1. id \in FreshIds /\ id \in SatIds
      <3>1. FreshIds \in SUBSET Nat
        BY NumbersAssumption DEF FreshIds
      <3>2. id \in FreshIds
        BY <1>2, <3>1, LeastIsFree
      <3> QED BY <3>2 DEF FreshIds
    <2> HIDE DEF id, set
    <2>2. UNCHANGED <<tles, pipelines, passes, reported>>
      BY DEF CreateSatellite
    <2>3. /\ satellites' \in [SatIds -> Norads \union {None}]
          /\ satellites'[id] = set.norad
          /\ \A k \in SatIds \ {id} : satellites'[k] = satellites[k]
      BY <1>0, <1>2, <2>1 DEF Inv, TypeOK, ElementSet
    <2>4. /\ job' \in [Jobs -> JobState]
          /\ job'[h] = [op |-> "created", id |-> id, set |-> set]
          /\ \A k \in Jobs \ {h} : job'[k] = job[k]
      BY <1>0, <1>2, <2>1, JobStates DEF Inv, Put
    <2>5. TypeOK'
      BY <2>2, <2>3, <2>4 DEF Inv, TypeOK
    <2>6. ~Known(id) /\ tles[id] = {}
      BY <1>0, <2>1, FreeIdsAreUnknown DEF Inv, Cascaded
    <2>7. \A k \in SatIds : Known(k) => k # id /\ Known(k)' /\ satellites'[k] = satellites[k]
      BY <2>3, <2>6 DEF Known
    <2>8. Cascaded'
      BY <2>2, <2>3, <2>6, <2>7 DEF Inv, Cascaded, Known
    <2>9. RecordsHangTogether'
      <3>1. \A k \in SatIds : \A e \in tles'[k] : e.norad = satellites'[k]
        BY <2>2, <2>3, <2>6 DEF Inv, RecordsHangTogether
      <3>2. \A pass \in passes : pass.sat \in SatIds
        BY DEF Inv, TypeOK, Pass
      <3> QED BY <2>2, <2>7, <3>1, <3>2
              DEF Inv, RecordsHangTogether, PipelineFor, PipelineKnown
    <2>10. ASSUME NEW k \in Jobs
           PROVE  Sound(job[k])'
      <3>1. CASE k = h
        BY <2>3, <2>4, <3>1 DEF Sound, Known
      <3>2. CASE k # h
        <4>1. Sound(job[k]) /\ job[k] \in JobState /\ job'[k] = job[k]
          BY <2>4, <3>2 DEF Inv
        <4>2. /\ job[k].op \in {"created", "refreshed"} => job[k].id \in SatIds \ {id}
              /\ job[k].op \in {"walk", "refreshed"} =>
                    \A s \in job[k].todo : s.id \in SatIds \ {id}
          BY <2>1, <4>1, JobFields, FreeIdsAreUnknown DEF Listed
        <4> QED BY <2>3, <4>1, <4>2 DEF Sound, Known
      <3> QED BY <3>1, <3>2
    <2> QED BY <2>4, <2>5, <2>8, <2>9, <2>10 DEF Inv
  <1> QED BY <1>1, <1>2 DEF CreateSatellite

\* A satellite that no pass uses goes with its elements.
LEMMA DeleteSatelliteStep ==
  ASSUME Inv, NEW id \in SatIds, HandleDeleteSatellite(id)
  PROVE  Inv'
  <1>1. /\ ~Used(id) /\ UNCHANGED <<pipelines, passes, reported, job>>
        /\ satellites' = [satellites EXCEPT ![id] = None]
        /\ tles' = [tles EXCEPT ![id] = {}]
    BY DEF HandleDeleteSatellite, DeleteSatellite
  <1>2. /\ satellites'[id] = None /\ tles'[id] = {}
        /\ \A k \in SatIds \ {id} : satellites'[k] = satellites[k] /\ tles'[k] = tles[k]
    BY <1>1 DEF Inv, TypeOK
  <1>3. TypeOK'
    BY <1>1 DEF Inv, TypeOK
  <1>4. Cascaded'
    BY <1>2, FS_EmptySet DEF Inv, Cascaded, Known
  <1>5. RecordsHangTogether'
    <2>1. \A pass \in passes : pass.sat \in SatIds \ {id}
      BY <1>1 DEF Used, Inv, TypeOK, Pass
    <2> QED BY <1>1, <1>2, <2>1
            DEF Inv, RecordsHangTogether, Known, PipelineFor, PipelineKnown
  <1>6. ASSUME NEW k \in Jobs
        PROVE  Sound(job[k])'
    <2>1. Sound(job[k]) /\ job[k] \in JobState /\ job'[k] = job[k]
      BY <1>1 DEF Inv
    <2>2. /\ job[k].op \in {"created", "refreshed"} => job[k].id \in SatIds
          /\ job[k].op \in {"walk", "refreshed"} => \A s \in job[k].todo : s.id \in SatIds
      BY <2>1, JobFields DEF Listed
    <2> QED BY <1>2, <2>1, <2>2 DEF Sound, Known
  <1> QED BY <1>1, <1>3, <1>4, <1>5, <1>6 DEF Inv


-----------------------------------------------------------------------------
(* Elements are fetched and stored.                                        *)

\* Elements of the satellite, if it is still there, are stored, and the job moves on.
LEMMA StoreStep ==
  ASSUME Inv, NEW j \in Jobs, NEW id \in SatIds, NEW set \in ElementSet,
         Known(id) => set.norad = satellites[id], StoreTLE(id, set),
         NEW r \in JobState, Put(j, r), Sound(r),
         UNCHANGED <<satellites, pipelines, passes, reported>>
  PROVE  Inv'
  <1>1. /\ tles' \in [SatIds -> SUBSET ElementSet]
        /\ \A k \in SatIds : \/ tles'[k] = tles[k]
                             \/ k = id /\ Known(id) /\ tles'[k] = tles[k] \union {set}
    BY DEF Inv, TypeOK, StoreTLE, CreateTLERecord
  <1>2. job' \in [Jobs -> JobState] /\ \A k \in Jobs : job'[k] = job[k] \/ job'[k] = r
    BY DEF Inv, Put
  <1>3. TypeOK'
    BY <1>1, <1>2 DEF Inv, TypeOK
  <1>4. Cascaded'
    <2> SUFFICES ASSUME NEW k \in SatIds
                 PROVE  IsFiniteSet(tles'[k]) /\ (~Known(k) => tles'[k] = {})
      BY DEF Cascaded, Known
    <2>1. IsFiniteSet(tles[k]) /\ (~Known(k) => tles[k] = {})
      BY DEF Inv, Cascaded
    <2>2. IsFiniteSet(tles[k] \union {set})
      BY <2>1, FS_AddElement
    <2> QED BY <1>1, <2>1, <2>2
  <1>5. RecordsHangTogether'
    <2>1. \A k \in SatIds : \A e \in tles'[k] : e.norad = satellites'[k]
      BY <1>1 DEF Inv, RecordsHangTogether
    <2>2. \A k \in SatIds : tles[k] \subseteq tles'[k]
      BY <1>1
    <2>3. \A pass \in passes : pass.sat \in SatIds
      BY DEF Inv, TypeOK, Pass
    <2> QED BY <2>1, <2>2, <2>3
            DEF Inv, RecordsHangTogether, Known, PipelineFor, PipelineKnown
  <1>6. \A k \in Jobs : Sound(job[k])'
    BY <1>2 DEF Inv, Sound, Known
  <1> QED BY <1>2, <1>3, <1>4, <1>5, <1>6 DEF Inv

\* The first elements of a satellite are of that satellite, unless it is gone.
LEMMA StoreNewStep ==
  ASSUME Inv, NEW h \in Handlers, StoreNew(h)
  PROVE  Inv'
  <1>1. h \in Jobs /\ job[h] \in JobState /\ Sound(job[h]) /\ job[h].op = "created"
    BY DEF Inv, Jobs, StoreNew
  <1>2. job[h].id \in SatIds /\ job[h].set \in ElementSet
    BY <1>1, JobFields
  <1>3. Known(job[h].id) => job[h].set.norad = satellites[job[h].id]
    BY <1>1 DEF Sound
  <1> QED BY <1>1, <1>2, <1>3, StoreStep, JobStates, SoundStates DEF StoreNew

\* An operator's request has fetched elements.
LEMMA FetchNewStep ==
  ASSUME Inv, NEW h \in Handlers, NEW answers \in Answers, NEW norad \in Norads,
         FetchNew(h, norad, answers)
  PROVE  Inv'
  <1> DEFINE set == Fetched(answers, norad)
  <1>1. set \in ElementSet
    BY FetchedIsAcceptable DEF FetchNew
  <1>2. h \in Jobs /\ Put(h, [op |-> "fetched", set |-> set])
    BY DEF Jobs, FetchNew
  <1> HIDE DEF set
  <1> QED BY <1>1, <1>2, PutStep, JobStates, SoundStates DEF FetchNew

\* A refresh starts with the satellites there are.
LEMMA ListSatellitesStep ==
  ASSUME Inv, NEW j \in Jobs, ListSatellites(j)
  PROVE  Inv'
  <1> DEFINE all == {id \in SatIds : Known(id)}
             todo == {[id |-> id, norad |-> satellites[id]] : id \in all}
  <1>1. todo \in SUBSET Listed /\ todo # {}
    <2>1. \A id \in all : id \in SatIds /\ satellites[id] \in Norads
      BY DEF Inv, TypeOK, Known
    <2>2. all # {}
      BY DEF ListSatellites
    <2>3. \A id \in all : [id |-> id, norad |-> satellites[id]] \in Listed
      BY <2>1 DEF Listed
    <2>4. todo \subseteq Listed
      BY <2>3
    <2> HIDE DEF all
    <2> QED BY <2>2, <2>4
  <1>2. \A s \in todo : s.norad = satellites[s.id]
    OBVIOUS
  <1>3. Put(j, [op |-> "walk", todo |-> todo])
    BY DEF ListSatellites
  <1> HIDE DEF todo
  <1>4. Put(j, Walk(todo))
    BY <1>1, <1>3 DEF Walk
  <1>5. Walk(todo) \in JobState /\ Sound(Walk(todo))
    BY <1>1, <1>2, JobStates, SoundStates
  <1> QED BY <1>4, <1>5, PutStep DEF ListSatellites

\* The refresh takes its next satellite, and skips it or has elements of it.
LEMMA FetchNextStep ==
  ASSUME Inv, NEW j \in Jobs, NEW answers \in Answers, NEW dayOld \in BOOLEAN,
         FetchNext(j, answers, dayOld)
  PROVE  Inv'
  <1> DEFINE s == FirstOf(job[j].todo)
             rest == job[j].todo \ {s}
             set == Fetched(answers, s.norad)
             found == [op |-> "refreshed", id |-> s.id, set |-> set, todo |-> rest]
  <1>1. job[j] \in JobState /\ Sound(job[j]) /\ job[j].op = "walk"
    BY DEF Inv, FetchNext
  <1>2. job[j].todo \in SUBSET Listed /\ s \in job[j].todo /\ rest \in SUBSET Listed
    BY <1>1, JobFields, FirstIsListed
  <1>3. \A t \in job[j].todo : Known(t.id) => t.norad = satellites[t.id]
    BY <1>1 DEF Sound
  <1>4. /\ \/ Put(j, Walk(rest))
           \/ set # None /\ Put(j, found)
        /\ UNCHANGED <<satellites, tles, pipelines, passes, reported>>
    BY DEF FetchNext
  <1>5. Walk(rest) \in JobState /\ Sound(Walk(rest))
    BY <1>2, <1>3, JobStates, SoundStates
  <1>6. ASSUME set # None
        PROVE  found \in JobState /\ Sound(found)
    <2>1. set \in ElementSet /\ set.norad = s.norad
      BY <1>6, FetchedIsAcceptable
    <2>2. s.id \in SatIds
      BY <1>2 DEF Listed
    <2>3. \A t \in rest : Known(t.id) => t.norad = satellites[t.id]
      BY <1>3
    <2>4. Known(s.id) => set.norad = satellites[s.id]
      BY <1>2, <1>3, <2>1
    <2> HIDE DEF s, rest, set
    <2> QED BY <1>2, <2>1, <2>2, <2>3, <2>4, JobStates DEF Sound
  <1> HIDE DEF s, rest, set, found
  <1> QED BY <1>4, <1>5, <1>6, PutStep

\* The refresh stores what it has.
LEMMA StoreNextStep ==
  ASSUME Inv, NEW j \in Jobs, StoreNext(j)
  PROVE  Inv'
  <1>1. job[j] \in JobState /\ Sound(job[j]) /\ job[j].op = "refreshed"
    BY DEF Inv, StoreNext
  <1>2. job[j].id \in SatIds /\ job[j].set \in ElementSet /\ job[j].todo \in SUBSET Listed
    BY <1>1, JobFields
  <1>3. Known(job[j].id) => job[j].set.norad = satellites[job[j].id]
    BY <1>1 DEF Sound
  <1>4. Walk(job[j].todo) \in JobState /\ Sound(Walk(job[j].todo))
    BY <1>1, <1>2, JobStates, SoundStates DEF Sound
  <1> QED BY <1>2, <1>3, <1>4, StoreStep DEF StoreNext

-----------------------------------------------------------------------------
(* Passes and pipelines.                                                   *)

\* A request reads its satellite and the current elements.
LEMMA ReadForPassStep ==
  ASSUME Inv, NEW h \in Handlers, NEW id \in SatIds, NEW pipe \in PipelineIds \union {None},
         ReadForPass(h, id, pipe)
  PROVE  Inv'
  <1> DEFINE set == Latest(id)
  <1>1. set \in ElementSet
    <2>1. tles[id] \in SUBSET ElementSet /\ IsFiniteSet(tles[id]) /\ tles[id] # {}
      BY DEF Inv, TypeOK, Cascaded, ReadForPass
    <2> QED BY <2>1, LatestIsNewest
  <1>2. h \in Jobs /\ Put(h, [op |-> "request", id |-> id, set |-> set, pipe |-> pipe])
    BY DEF Jobs, ReadForPass
  <1> HIDE DEF set
  <1> QED BY <1>1, <1>2, PutStep, JobStates, SoundStates DEF ReadForPass

\* A pass is created whose satellite, elements and pipeline are still there.
LEMMA CreatePassStep ==
  ASSUME Inv, NEW h \in Handlers, CreatePass(h)
  PROVE  Inv'
  <1> DEFINE pass == [sat |-> job[h].id, set |-> job[h].set, pipe |-> job[h].pipe]
  <1>1. h \in Jobs /\ job[h] \in JobState /\ job[h].op = "request"
    BY DEF Inv, Jobs, CreatePass
  <1>2. pass \in Pass
    BY <1>1, JobFields DEF Pass
  <1>3. /\ \/ passes' = passes
           \/ /\ passes' = passes \union {pass}
              /\ Known(pass.sat) /\ pass.set \in tles[pass.sat] /\ PipelineFor(pass)
        /\ UNCHANGED <<satellites, tles, pipelines, reported>>
    BY DEF CreatePass, PipelineFor
  <1> HIDE DEF pass
  <1>4. /\ job' \in [Jobs -> JobState]
        /\ \A k \in Jobs : job'[k] = job[k] \/ job'[k] = Idle
    BY JobStates DEF Inv, Put, CreatePass
  <1>5. TypeOK'
    BY <1>2, <1>3, <1>4 DEF Inv, TypeOK
  <1>6. Cascaded'
    BY <1>3 DEF Inv, Cascaded, Known
  <1>7. RecordsHangTogether'
    BY <1>3 DEF Inv, RecordsHangTogether, Known, PipelineFor, PipelineKnown
  <1>8. \A k \in Jobs : Sound(job[k])'
    BY <1>3, <1>4 DEF Inv, Sound, Known, Idle
  <1> QED BY <1>4, <1>5, <1>6, <1>7, <1>8 DEF Inv

\* A request may end at any time.
LEMMA AbandonStep ==
  ASSUME Inv, NEW h \in Handlers, Abandon(h)
  PROVE  Inv'
  BY PutStep, JobStates, SoundStates DEF Jobs, Abandon

\* Pipelines may change as long as those that passes name stay.
LEMMA PipelinesStep ==
  ASSUME Inv, pipelines' \in [PipelineIds -> PipelineRow \union {None}],
         reported' \in SUBSET PipelineNames,
         \A pass \in passes : pass.pipe # None /\ PipelineKnown(pass.pipe)
                                 => pipelines'[pass.pipe] # None,
         UNCHANGED <<satellites, tles, passes, job>>
  PROVE  Inv'
  <1>1. TypeOK'
    BY DEF Inv, TypeOK
  <1>2. Cascaded' /\ RecordsHangTogether'
    BY DEF Inv, Cascaded, RecordsHangTogether, Known, PipelineFor, PipelineKnown
  <1>3. \A k \in Jobs : Sound(job[k])'
    BY DEF Inv, Sound, Known
  <1> QED BY <1>1, <1>2, <1>3 DEF Inv

\* A pipeline is added under an id that is free.
LEMMA InsertedUnderFreeId ==
  ASSUME Inv, NEW row \in PipelineRow, InsertPipeline(row)
  PROVE  /\ pipelines' \in [PipelineIds -> PipelineRow \union {None}]
         /\ \A pass \in passes : pass.pipe # None /\ PipelineKnown(pass.pipe)
                                    => pipelines'[pass.pipe] # None
  <1>1. CASE UNCHANGED pipelines
    BY <1>1 DEF Inv, TypeOK, PipelineKnown
  <1>2. CASE /\ FreshPipelineIds # {}
             /\ pipelines' = [pipelines EXCEPT ![Least(FreshPipelineIds)] = row]
    <2>1. FreshPipelineIds \in SUBSET Nat
      BY NumbersAssumption DEF FreshPipelineIds
    <2>2. Least(FreshPipelineIds) \in FreshPipelineIds
      BY <1>2, <2>1, LeastIsFree
    <2>3. Least(FreshPipelineIds) \in PipelineIds /\ ~PipelineKnown(Least(FreshPipelineIds))
      BY <2>2 DEF FreshPipelineIds
    <2>4. \A pass \in passes : pass.pipe # None => pass.pipe \in PipelineIds
      BY DEF Inv, TypeOK, Pass
    <2> QED BY <1>2, <2>3, <2>4 DEF Inv, TypeOK, PipelineKnown
  <1> QED BY <1>1, <1>2 DEF InsertPipeline

\* A root adds a pipeline.
LEMMA CreatePipelineStep ==
  ASSUME Inv, NEW name \in PipelineNames, CreatePipeline(name)
  PROVE  Inv'
  <1>1. [name |-> name, custom |-> TRUE] \in PipelineRow
    BY DEF PipelineRow
  <1>2. reported' \in SUBSET PipelineNames
    BY DEF Inv, TypeOK, CreatePipeline
  <1> QED BY <1>1, <1>2, InsertedUnderFreeId, PipelinesStep DEF CreatePipeline

\* A registration withdraws no pipeline that a pass names ...
LEMMA WithdrawStep ==
  ASSUME Inv, NEW names \in SUBSET PipelineNames, Withdraw(names)
  PROVE  Inv'
  <1>1. pipelines' \in [PipelineIds -> PipelineRow \union {None}]
    BY DEF Inv, TypeOK, Withdraw
  <1>2. \A pass \in passes : pass.pipe # None => pass.pipe \in PipelineIds
    BY DEF Inv, TypeOK, Pass
  <1>3. \A pass \in passes : pass.pipe # None /\ PipelineKnown(pass.pipe)
                                => pipelines'[pass.pipe] # None
    BY <1>2 DEF Withdraw, PipelineKnown
  <1> QED BY <1>1, <1>3, PipelinesStep DEF Withdraw

\* ... and adds those that are new.
LEMMA ReportStep ==
  ASSUME Inv, NEW name \in PipelineNames, Report(name)
  PROVE  Inv'
  <1>1. [name |-> name, custom |-> FALSE] \in PipelineRow
    BY DEF PipelineRow
  <1>2. /\ reported' \in SUBSET PipelineNames
        /\ UNCHANGED <<satellites, tles, passes, job>>
    BY DEF Inv, TypeOK, Report
  <1>3. CASE InsertPipeline([name |-> name, custom |-> FALSE])
    BY <1>1, <1>2, <1>3, InsertedUnderFreeId, PipelinesStep
  <1>4. CASE UNCHANGED pipelines
    BY <1>2, <1>4, PipelinesStep DEF Inv, TypeOK, PipelineKnown
  <1> QED BY <1>3, <1>4 DEF Report

-----------------------------------------------------------------------------
(* The theorems.                                                           *)

\* No satellite, no job.
LEMMA InitInv == Init => Inv
  <1> SUFFICES ASSUME Init
               PROVE  Inv
    OBVIOUS
  <1>1. TypeOK /\ job \in [Jobs -> JobState]
    BY JobStates DEF Init, TypeOK
  <1>2. Cascaded /\ RecordsHangTogether
    BY FS_EmptySet DEF Init, Cascaded, RecordsHangTogether, Known
  <1>3. \A j \in Jobs : Sound(job[j])
    BY SoundStates DEF Init
  <1> QED BY <1>1, <1>2, <1>3 DEF Inv

\* Every statement of every request, of the loop and of a registration.
LEMMA InvStep == Inv /\ [Next]_vars => Inv'
  <1> SUFFICES ASSUME Inv, [Next]_vars
               PROVE  Inv'
    OBVIOUS
  <1>1. ASSUME NEW h \in Handlers, Handle(h)
        PROVE  Inv'
    <2>1. h \in Jobs /\ TRUE \in BOOLEAN
      BY DEF Jobs
    <2>2. CASE HandleAddSatellite(h)
      BY <2>2, FetchNewStep, CreateSatelliteStep, StoreNewStep DEF HandleAddSatellite
    <2>3. CASE HandleRefreshTLEs(h)
      BY <2>1, <2>3, ListSatellitesStep, FetchNextStep, StoreNextStep DEF HandleRefreshTLEs
    <2>4. CASE \E id \in SatIds, pipe \in PipelineIds \union {None} : ReadForPass(h, id, pipe)
      BY <2>4, ReadForPassStep
    <2>5. CASE CreatePass(h)
      BY <2>5, CreatePassStep
    <2>6. CASE Abandon(h)
      BY <2>6, AbandonStep
    <2> QED BY <1>1, <2>2, <2>3, <2>4, <2>5, <2>6 DEF Handle
  <1>2. CASE Sweep
    <2>1. Loop \in Jobs
      BY DEF Jobs
    <2> QED BY <1>2, <2>1, ListSatellitesStep, FetchNextStep, StoreNextStep DEF Sweep
  <1>3. CASE \E id \in SatIds : HandleDeleteSatellite(id)
    BY <1>3, DeleteSatelliteStep
  <1>4. CASE \E name \in PipelineNames : CreatePipeline(name)
    BY <1>4, CreatePipelineStep
  <1>5. CASE Register
    BY <1>5, WithdrawStep, ReportStep DEF Register
  <1>6. CASE UNCHANGED vars
    BY <1>6 DEF vars, Inv, TypeOK, Cascaded, RecordsHangTogether, Sound, Known,
                PipelineFor, PipelineKnown
  <1> QED BY <1>1, <1>2, <1>3, <1>4, <1>5, <1>6 DEF Next

\* The invariant holds throughout.
LEMMA InvAlways == Spec => []Inv
  BY InitInv, InvStep, PTL DEF Spec

\* Every table holds rows of its kind, and every request and the loop hold what
\* they have read (AddSatellite, Refresh, RequestPass, ReplaceStandardPipelines).
THEOREM TypeCorrect == Spec => []TypeOK
  <1>1. Inv => TypeOK
    BY DEF Inv
  <1> QED BY <1>1, InvAlways, PTL

\* No overlap of requests, deletions, refreshes and registrations leaves elements
\* with a satellite they are not of, or a pass without what its plan is made from
\* (CreateTLERecord, CreatePass, DeleteSatellite, ReplaceStandardPipelines).
THEOREM RecordsStayTogether == Spec => []RecordsHangTogether
  <1>1. Inv => RecordsHangTogether
    BY DEF Inv
  <1> QED BY <1>1, InvAlways, PTL

\* The elements of a satellite that stays are only ever added to.
LEMMA ElementsAreKept ==
  ASSUME Inv, [Next]_vars, NEW id \in SatIds, Known(id)'
  PROVE  tles[id] \subseteq tles'[id]
  <1>1. ASSUME NEW k, NEW set, StoreTLE(k, set)
        PROVE  tles[id] \subseteq tles'[id]
    BY <1>1 DEF Inv, TypeOK, StoreTLE, CreateTLERecord
  <1>2. ASSUME NEW k \in SatIds, HandleDeleteSatellite(k)
        PROVE  tles[id] \subseteq tles'[id]
    BY <1>2 DEF Inv, TypeOK, HandleDeleteSatellite, DeleteSatellite, Known
  <1>3. CASE Sweep
    BY <1>1, <1>3 DEF Sweep, ListSatellites, FetchNext, StoreNext
  <1>4. ASSUME NEW h \in Handlers, Handle(h)
        PROVE  tles[id] \subseteq tles'[id]
    <2>1. \/ UNCHANGED tles
          \/ StoreTLE(job[h].id, job[h].set)
      BY <1>4 DEF Handle, HandleAddSatellite, FetchNew, CreateSatellite, StoreNew,
                  HandleRefreshTLEs, ListSatellites, FetchNext, StoreNext, ReadForPass,
                  CreatePass, Abandon
    <2> QED BY <1>1, <2>1
  <1>5. CASE Register \/ \E name \in PipelineNames : CreatePipeline(name)
    BY <1>5 DEF Register, Withdraw, Report, CreatePipeline
  <1> QED BY <1>2, <1>3, <1>4, <1>5 DEF Next, vars

\* The current elements of a satellite that stays are never replaced by older ones,
\* in whatever order refreshes and requests store what they fetched (storeTLE,
\* LatestTLERecord).
THEOREM CurrentStaysNewest == Spec => CurrentNeverGoesBack
  <1>1. Inv /\ Inv' /\ [Next]_vars =>
          [\A id \in SatIds :
             tles[id] # {} /\ Known(id)' => /\ tles'[id] # {}
                                             /\ Latest(id).epoch <= Latest(id)'.epoch]_vars
    <2> SUFFICES ASSUME Inv, Inv', [Next]_vars, NEW id \in SatIds, tles[id] # {}, Known(id)'
                 PROVE  tles'[id] # {} /\ Latest(id).epoch <= Latest(id)'.epoch
      OBVIOUS
    <2>1. tles[id] \subseteq tles'[id]
      BY ElementsAreKept
    <2>2. tles[id] \in SUBSET ElementSet /\ IsFiniteSet(tles[id])
      BY DEF Inv, TypeOK, Cascaded
    <2>3. tles'[id] \in SUBSET ElementSet /\ IsFiniteSet(tles'[id]) /\ tles'[id] # {}
      BY <2>1 DEF Inv, TypeOK, Cascaded
    <2>4. Latest(id) \in tles[id]
      BY <2>2, LatestIsNewest
    <2>5. \A other \in tles'[id] : other.epoch <= Latest(id)'.epoch
      BY <2>3, SomeIsNewest DEF Latest
    <2> QED BY <2>1, <2>3, <2>4, <2>5
  <1> QED BY <1>1, InvAlways, InvStep, PTL DEF Spec, CurrentNeverGoesBack

=============================================================================
