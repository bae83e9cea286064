------------------------------- MODULE Station -------------------------------
(***************************************************************************)
(* The station's own records: first-run setup, the settings of the station *)
(* and of its bands, and the versions of the scheduling configuration.     *)
(*                                                                         *)
(* Every request reads, checks and writes in separate statements, so that  *)
(* requests interleave between them, and time passes; setup's statements   *)
(* are one transaction, whose rows are seen from its commit on.            *)
(*                                                                         *)
(* A station's row keeps what the properties tell apart: its name (which   *)
(* stands for the place as well), the active band, and for every band the  *)
(* required fields that are set.                                           *)
(***************************************************************************)
EXTENDS Integers, Sequences

CONSTANTS
    Requests,       \* requests of the root the server can be working on
    Names,          \* names of stations
    Bands,          \* "vhf" and "uhf"
    Fields,         \* a band's fields without which there is no plan
    Leads,          \* the lead times configured
    None,           \* a field the request leaves out
    MaxTime,        \* bound on the clock
    MaxRequests     \* bound on the requests made

ASSUME LeadsAssumption == Leads \subseteq Nat
ASSUME NoneAssumption == None \notin Names \union Bands
ASSUME BoundsAssumption == MaxTime \in Nat /\ MaxRequests \in Nat

VARIABLES
    now,            \* the clock
    initialized,    \* system_state.initialized_at is set
    stations,       \* the stations by created_at, the uncommitted ones too
    versions,       \* the scheduling configurations by created_at
    request,        \* request[q]: what a handler holds between its statements
    asked           \* the number of requests made

vars == <<now, initialized, stations, versions, request, asked>>

-----------------------------------------------------------------------------
(* The records.                                                            *)

Row == [name : Names, band : Bands, set : [Bands -> SUBSET Fields], visible : BOOLEAN]

Version ==
    [station : Nat, lead : Leads, effective : Nat,
     base : Nat,    \* the version it was compared with, 0 for the first
     asked : Nat]   \* when its request was made

Idle == [op |-> "idle", at |-> "idle", station |-> 0, seen |-> 0, lead |-> 0, stamp |-> 0,
         name |-> None, band |-> None, old |-> None, set |-> {}, given |-> {}]

Request ==
    [op : {"idle", "setup", "schedule", "show", "station", "band"},
     at : {"idle", "checked", "open", "read", "saved"},
     station : Nat, seen : Nat, lead : Leads \union {0}, stamp : Nat,
     name : Names \union {None}, band : Bands \union {None}, old : Bands \union {None},
     set : SUBSET Fields, given : SUBSET Fields]

\* ListStations.
Visible == {s \in DOMAIN stations : stations[s].visible}

\* primaryStation: the first of them by created_at.
IsPrimary(s) == s \in Visible /\ \A t \in Visible : s <= t

\* stations.name is UNIQUE.
Taken(name, s) == \E t \in Visible \ {s} : stations[t].name = name

\* CreateStation, seen by nobody else before its transaction commits.
CreateStation(name, band, given) ==
    stations' = Append(stations, [name |-> name, band |-> band, visible |-> FALSE,
                                  set |-> [b \in Bands |-> given]])

\* The row of a band in GetStationBandConfigs.
BandConfig(s, band) == stations[s].set[band]

-----------------------------------------------------------------------------
(* The versions of the scheduling configuration.                           *)

Applying(s) == {i \in DOMAIN versions : versions[i].station = s /\ versions[i].effective <= now}
Waiting(s) == {i \in DOMAIN versions : versions[i].station = s /\ versions[i].effective > now}

\* ORDER BY effective_from in place of created_at.
EffectiveByDate(s, i) ==
    /\ i \in Applying(s)
    /\ \A j \in Applying(s) : versions[j].effective <= versions[i].effective

\* LatestEffectiveSchedulingConfig: the last created of those that apply.
IsEffective(s, i) == i \in Applying(s) /\ \A j \in Applying(s) : j <= i

\* The last created of those that do not apply yet, superseded or not.
LastWaiting(s, i) == i \in Waiting(s) /\ \A j \in Waiting(s) : j <= i

\* PendingSchedulingConfig: it must be created after all those that apply.
IsPending(s, i) ==
    /\ i \in Waiting(s)
    /\ \A j \in Applying(s) : j < i
    /\ \A j \in Waiting(s) : j <= i

\* A new version that applies at once, whatever it changes.
EffectiveAtOnce(at, current, lead) == at

\* EffectiveFromForNewConfig.
EffectiveFrom(at, current, lead) == IF lead < current THEN at + lead ELSE at

CreateSchedulingConfig(version) == versions' = Append(versions, version)

-----------------------------------------------------------------------------
(* Requests.                                                               *)

Ask(q, r) ==
    /\ request[q] = Idle
    /\ asked < MaxRequests
    /\ asked' = asked + 1
    /\ request' = [request EXCEPT ![q] = r]

Put(q, r) == request' = [request EXCEPT ![q] = r] /\ UNCHANGED asked

At(q, op, at) == request[q].op = op /\ request[q].at = at

\* handleSetup reads initialized_at, and refuses when it is set.
SetupCheck(q) ==
    /\ ~initialized
    /\ Ask(q, [Idle EXCEPT !.op = "setup", !.at = "checked"])
    /\ UNCHANGED <<now, initialized, stations, versions>>

\* The transaction begins, which is what created_at says.  Its bands are all
\* given the same fields.
SetupBegin(q, name, band, given) ==
    /\ At(q, "setup", "checked")
    /\ CreateStation(name, band, given)
    /\ Put(q, [request[q] EXCEPT !.at = "open", !.station = Len(stations) + 1, !.stamp = now])
    /\ UNCHANGED <<now, initialized, versions>>

\* The transaction commits: the station with its bands, its hardware, its first
\* scheduling configuration and its worker, and the mark, which a second setup
\* leaves as it is.
SetupCommit(q, lead) ==
    LET s == request[q].station IN
    /\ At(q, "setup", "open")
    /\ ~Taken(stations[s].name, s)
    /\ stations' = [stations EXCEPT ![s].visible = TRUE]
    /\ CreateSchedulingConfig([station |-> s, lead |-> lead, base |-> 0,
                               effective |-> request[q].stamp, asked |-> request[q].stamp])
    /\ initialized' = TRUE
    /\ Put(q, Idle)
    /\ UNCHANGED now

\* stationAndConfig: the station and its configuration in force.
StationAndConfig(s, i) == IsPrimary(s) /\ IsEffective(s, i)

\* An update that goes on with nothing when there is no configuration to be read.
ReadConfigUnchecked(q, lead) ==
    /\ Ask(q, [Idle EXCEPT !.op = "schedule", !.at = "read", !.lead = lead, !.stamp = now])
    /\ UNCHANGED <<now, initialized, stations, versions>>

\* UpdateSchedulingConfig reads them and the clock.
ReadConfig(q, lead) ==
    \E s \in DOMAIN stations, i \in DOMAIN versions :
        /\ StationAndConfig(s, i)
        /\ Ask(q, [Idle EXCEPT !.op = "schedule", !.at = "read", !.station = s,
                               !.seen = i, !.lead = lead, !.stamp = now])
        /\ UNCHANGED <<now, initialized, stations, versions>>

InsertConfig(q) ==
    LET r == request[q] IN
    /\ At(q, "schedule", "read")
    /\ CreateSchedulingConfig(
           [station |-> r.station, lead |-> r.lead, base |-> r.seen, asked |-> r.stamp,
            effective |-> EffectiveFrom(r.stamp, versions[r.seen].lead, r.lead)])
    /\ Put(q, Idle)
    /\ UNCHANGED <<now, initialized, stations>>

HandleUpdateSchedulingConfig(q) == InsertConfig(q) \/ \E lead \in Leads : ReadConfig(q, lead)

\* handleGetSchedulingConfig reads the configuration in force, and the pending one
\* with a statement and a clock of its own; it answers with both.
ReadShown(q) ==
    \E s \in DOMAIN stations, i \in DOMAIN versions :
        /\ StationAndConfig(s, i)
        /\ Ask(q, [Idle EXCEPT !.op = "show", !.at = "read", !.station = s, !.seen = i])
        /\ UNCHANGED <<now, initialized, stations, versions>>

Show(q) ==
    /\ At(q, "show", "read")
    /\ Put(q, Idle)
    /\ UNCHANGED <<now, initialized, stations, versions>>

\* handleUpdateStation reads the row and puts the request's fields into it.
ReadStation(q, name, band) ==
    \E s \in DOMAIN stations :
        /\ IsPrimary(s)
        /\ Ask(q, [Idle EXCEPT !.op = "station", !.at = "read", !.station = s, !.band = band,
                               !.name = IF name = None THEN stations[s].name ELSE name,
                               !.old = stations[s].band])
        /\ UNCHANGED <<now, initialized, stations, versions>>

\* What is left to do when the row is saved.
AfterSaving(r) ==
    IF r.band \in Bands /\ r.band # r.old THEN [r EXCEPT !.at = "saved"] ELSE Idle

\* UpdateStation as one statement for the whole row as it was read.
SaveRow(q) ==
    LET r == request[q] IN
    /\ At(q, "station", "read")
    /\ ~Taken(r.name, r.station)
    /\ stations' = [stations EXCEPT ![r.station].name = r.name, ![r.station].band = r.old]
    /\ Put(q, AfterSaving(r))
    /\ UNCHANGED <<now, initialized, versions>>

\* UpdateStation, which leaves the active band alone.
SaveStation(q) ==
    LET r == request[q] IN
    /\ At(q, "station", "read")
    /\ ~Taken(r.name, r.station)
    /\ stations' = [stations EXCEPT ![r.station].name = r.name]
    /\ Put(q, AfterSaving(r))
    /\ UNCHANGED <<now, initialized, versions>>

\* SetStationActiveBand.
SaveActiveBand(q) ==
    LET r == request[q] IN
    /\ At(q, "station", "saved")
    /\ stations' = [stations EXCEPT ![r.station].band = r.band]
    /\ Put(q, Idle)
    /\ UNCHANGED <<now, initialized, versions>>

\* The row to be written has only what the request gave.
MergedNothing(old, given) == given

\* The fields of the request put into the row that was read.
Merged(old, given) == old \union given

\* handleUpdateBandConfig reads the row.
ReadBand(q, band, given) ==
    \E s \in DOMAIN stations :
        /\ IsPrimary(s)
        /\ Ask(q, [Idle EXCEPT !.op = "band", !.at = "read", !.station = s, !.band = band,
                               !.set = BandConfig(s, band), !.given = given])
        /\ UNCHANGED <<now, initialized, stations, versions>>

\* UpsertStationBandConfig writes the whole row.
SaveBand(q) ==
    LET r == request[q] IN
    /\ At(q, "band", "read")
    /\ stations' = [stations EXCEPT ![r.station].set[r.band] = Merged(r.set, r.given)]
    /\ Put(q, Idle)
    /\ UNCHANGED <<now, initialized, versions>>

\* A statement fails, a name is taken or the process dies; an open transaction
\* is rolled back.
Abandon(q) ==
    /\ request[q] # Idle
    /\ Put(q, Idle)
    /\ UNCHANGED <<now, initialized, stations, versions>>

Tick ==
    /\ now < MaxTime
    /\ now' = now + 1
    /\ UNCHANGED <<initialized, stations, versions, request, asked>>

-----------------------------------------------------------------------------
Init ==
    /\ now = 0
    /\ initialized = FALSE
    /\ stations = <<>>
    /\ versions = <<>>
    /\ request = [q \in Requests |-> Idle]
    /\ asked = 0

Handle(q) ==
    \/ SetupCheck(q)
    \/ \E name \in Names, band \in Bands, given \in SUBSET Fields :
          SetupBegin(q, name, band, given)
    \/ \E lead \in Leads : SetupCommit(q, lead)
    \/ HandleUpdateSchedulingConfig(q)
    \/ ReadShown(q) \/ Show(q)
    \/ \E name \in Names \union {None}, band \in Bands \union {None} : ReadStation(q, name, band)
    \/ SaveStation(q)
    \/ SaveActiveBand(q)
    \/ \E band \in Bands, given \in SUBSET Fields : ReadBand(q, band, given)
    \/ SaveBand(q)
    \/ Abandon(q)

Next == Tick \/ \E q \in Requests : Handle(q)

Spec == Init /\ [][Next]_vars

-----------------------------------------------------------------------------
(* Properties.                                                             *)

\* Every record holds what its type says, and names records that exist.
TypeOK ==
    /\ now \in 0 .. MaxTime
    /\ initialized \in BOOLEAN
    /\ stations \in Seq(Row)
    /\ versions \in Seq(Version)
    /\ request \in [Requests -> Request]
    /\ asked \in 0 .. MaxRequests
    /\ \A i \in DOMAIN versions : versions[i].station \in DOMAIN stations
    /\ \A q \in Requests :
          /\ request[q].at \in {"open", "read", "saved"} => request[q].station \in DOMAIN stations
          /\ request[q].op \in {"schedule", "show"} => request[q].seen \in DOMAIN versions

\* The scheduling configuration in force is never followed by one created before
\* it, whatever becomes effective later (LatestEffectiveSchedulingConfig; the test
\* TestASupersededConfigurationDoesNotReturn).
EffectiveNeverReturns ==
    [][\A s \in DOMAIN stations : \A i \in DOMAIN versions, j \in DOMAIN versions' :
          IsEffective(s, i) /\ IsEffective(s, j)' => i <= j]_vars

\* A pending configuration is newer than the one in force, also than one that was
\* read before, and time alone puts nothing in force when none is pending and
\* nothing newer than the one that is (PendingSchedulingConfig,
\* handleGetSchedulingConfig, whose answer shows the two next to each other).
PendingIsWhatComes ==
    [][/\ \A q \in Requests, k \in DOMAIN versions :
             At(q, "show", "read") /\ IsPending(request[q].station, k) => request[q].seen < k
       /\ \A s \in DOMAIN stations : \A i \in DOMAIN versions : IsEffective(s, i) =>
             /\ \A k \in DOMAIN versions : IsPending(s, k) => i < k
             /\ now' # now => \A j \in DOMAIN versions' : IsEffective(s, j)' /\ j # i =>
                   \E k \in DOMAIN versions : IsPending(s, k) /\ j <= k]_vars

\* A configuration that shortens the lead time comes into force only when its own
\* lead time has passed since it was asked for, unless another one came into force
\* while its request was running (UpdateSchedulingConfig).
ShorteningIsDelayed ==
    [][\A s \in DOMAIN stations : \A i \in DOMAIN versions, j \in DOMAIN versions' :
          /\ IsEffective(s, i)
          /\ IsEffective(s, j)'
          /\ versions'[j].lead < versions[i].lead
          => \/ now' >= versions'[j].asked + versions'[j].lead
             \/ versions'[j].base # i]_vars

\* The active band changes only to what a request asks for: an update of the name
\* or the place that read the row before does not set it back (handleUpdateStation).
BandIsAskedFor ==
    [][\A s \in DOMAIN stations : stations'[s].band # stations[s].band =>
          \E q \in Requests : /\ request[q].op = "station"
                              /\ request[q].station = s
                              /\ request[q].band = stations'[s].band]_vars

\* radioFor finds a frequency and a sample rate for the band.
Plannable(s, band) == BandConfig(s, band) = Fields

\* A band for which plans can be made stays so, unless a request overwrites it that
\* read it before it was (handleUpdateBandConfig, radioFor).
PlannableStays ==
    [][\A s \in DOMAIN stations, band \in Bands : Plannable(s, band) /\ ~Plannable(s, band)' =>
          \E q \in Requests : request[q].op = "band" /\ request[q] # request'[q]
                              /\ request[q].set # Fields]_vars
=============================================================================
