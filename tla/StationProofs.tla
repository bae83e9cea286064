---------------------------- MODULE StationProofs ----------------------------
(***************************************************************************)
(* Theorems about Station, for any number of requests, bands, fields and   *)
(* lead times, and any bounds.                                             *)
(*                                                                         *)
(* Three lemmas say what a step can do: VersionsStep to the versions of    *)
(* the scheduling configuration, StationsStep to the stations, RequestStep *)
(* to the requests.                                                        *)
(***************************************************************************)
EXTENDS Station, SequenceTheorems, FiniteSetTheorems, TLAPS

-----------------------------------------------------------------------------
(* The inductive invariant.                                                *)

\* What a request holds: a configuration it has read applied then and still does.
Sound(r) ==
    /\ r \in Request
    /\ r.at \in {"open", "read", "saved"} => r.station \in DOMAIN stations
    /\ r.op \in {"schedule", "show"} => r.seen \in Applying(r.station)
    /\ r.op = "schedule" => r.lead \in Leads
    /\ r.op = "station" => r.name \in Names /\ r.old \in Bands
    /\ r.at = "saved" => r.band \in Bands

\* The rule by which a version takes effect, compared with an older one; the first
\* of a station is compared with none.
Timed(version) ==
    \/ version.base = 0
    \/ /\ version.base \in DOMAIN versions
       /\ version.effective =
             EffectiveFrom(version.asked, versions[version.base].lead, version.lead)

Inv ==
    /\ TypeOK
    /\ \A q \in Requests : Sound(request[q])
    /\ \A i \in DOMAIN versions : Timed(versions[i])

LEMMA InitInv == Init => Inv
  <1> SUFFICES ASSUME Init
               PROVE  Inv
    OBVIOUS
  <1>1. Idle \in Request
    BY DEF Idle, Request
  <1>2. Sound(Idle)
    BY <1>1 DEF Sound, Idle
  <1>3. stations \in Seq(Row) /\ versions \in Seq(Version) /\ DOMAIN versions = {}
    BY DEF Init
  <1>4. TypeOK
    <2>1. now \in 0 .. MaxTime /\ asked \in 0 .. MaxRequests
      BY BoundsAssumption DEF Init
    <2>4. initialized \in BOOLEAN
      BY DEF Init
    <2>2. request \in [Requests -> Request] /\ \A q \in Requests : request[q] = Idle
      BY <1>1 DEF Init
    <2>3. \A i \in DOMAIN versions : versions[i].station \in DOMAIN stations
      BY <1>3
    <2> QED BY <1>3, <2>1, <2>2, <2>3, <2>4 DEF TypeOK, Idle
  <1> QED BY <1>2, <1>3, <1>4 DEF Init, Inv

-----------------------------------------------------------------------------
(* What a step does.                                                       *)

VersionsChange ==
    \/ UNCHANGED <<versions, now>>
    \/ UNCHANGED versions /\ now' = now + 1
    \/ /\ UNCHANGED now
       /\ \E version \in Version : /\ versions' = Append(versions, version)
                                   /\ version.station \in DOMAIN stations
                                   /\ Timed(version)

LEMMA VersionsStep ==
  ASSUME Inv, [Next]_vars
  PROVE  VersionsChange
  <1>1. ASSUME NEW q \in Requests, NEW lead \in Leads, SetupCommit(q, lead)
        PROVE  VersionsChange
    <2> DEFINE v == [station |-> request[q].station, lead |-> lead, base |-> 0,
                     effective |-> request[q].stamp, asked |-> request[q].stamp]
    <2>1. request[q] \in Request /\ request[q].station \in DOMAIN stations
      BY <1>1 DEF SetupCommit, At, Inv, Sound
    <2>2. v \in Version /\ Timed(v) /\ v.station = request[q].station
      BY <2>1 DEF Request, Version, Timed
    <2>3. versions' = Append(versions, v) /\ UNCHANGED now
      BY <1>1 DEF SetupCommit, CreateSchedulingConfig
    <2> HIDE DEF v
    <2> QED BY <2>1, <2>2, <2>3 DEF VersionsChange
  <1>2. ASSUME NEW q \in Requests, InsertConfig(q)
        PROVE  VersionsChange
    <2> DEFINE r == request[q]
               v == [station |-> r.station, lead |-> r.lead, base |-> r.seen, asked |-> r.stamp,
                     effective |-> EffectiveFrom(r.stamp, versions[r.seen].lead, r.lead)]
    <2>1. /\ r \in Request /\ r.station \in DOMAIN stations /\ r.lead \in Leads
          /\ r.seen \in DOMAIN versions
      BY <1>2 DEF InsertConfig, At, Inv, Sound, Applying
    <2>2. EffectiveFrom(r.stamp, versions[r.seen].lead, r.lead) \in Nat
      <3>1. r.stamp \in Nat /\ r.lead \in Nat
        BY <2>1, LeadsAssumption DEF Request
      <3> HIDE DEF r
      <3> QED BY <3>1 DEF EffectiveFrom
    <2>3. v \in Version
      BY <2>1, <2>2 DEF Request, Version
    <2>4. Timed(v) /\ v.station = r.station
      BY <2>1 DEF Timed
    <2>5. versions' = Append(versions, v) /\ UNCHANGED now
      BY <1>2 DEF InsertConfig, CreateSchedulingConfig
    <2> HIDE DEF v
    <2> QED BY <2>1, <2>3, <2>4, <2>5 DEF VersionsChange
  <1>3. CASE Tick
    BY <1>3 DEF Tick, VersionsChange
  <1>4. ASSUME NEW q \in Requests, Handle(q),
               ~InsertConfig(q), \A lead \in Leads : ~SetupCommit(q, lead)
        PROVE  VersionsChange
    <2>1. UNCHANGED <<versions, now>>
      BY <1>4 DEF Handle, SetupCheck, SetupBegin, HandleUpdateSchedulingConfig, ReadConfig,
                  ReadShown, Show, ReadStation, SaveStation, SaveActiveBand, ReadBand,
                  SaveBand, Abandon
    <2> QED BY <2>1 DEF VersionsChange
  <1>5. CASE UNCHANGED vars
    BY <1>5 DEF vars, VersionsChange
  <1> QED BY <1>1, <1>2, <1>3, <1>4, <1>5 DEF Next

\* The versions are a log, and a version that applies goes on applying.
LEMMA LogGrows ==
  ASSUME Inv, [Next]_vars
  PROVE  /\ versions' \in Seq(Version) /\ now' \in Nat
         /\ DOMAIN versions \subseteq DOMAIN versions'
         /\ \A i \in DOMAIN versions : versions'[i] = versions[i]
         /\ \A s \in Nat : Applying(s) \subseteq Applying(s)'
         /\ \A i \in DOMAIN versions' : Timed(versions[i])'
  <1>1. versions \in Seq(Version) /\ now \in Nat
    BY DEF Inv, TypeOK
  <1>2. /\ versions' \in Seq(Version) /\ now' \in Nat /\ now <= now'
        /\ DOMAIN versions \subseteq DOMAIN versions'
        /\ \A i \in DOMAIN versions : versions'[i] = versions[i]
        /\ \A i \in DOMAIN versions' \ DOMAIN versions : Timed(versions'[i])
    <2>1. CASE UNCHANGED versions
      BY <1>1, <2>1, VersionsStep DEF VersionsChange
    <2>2. ASSUME UNCHANGED now, NEW v \in Version, versions' = Append(versions, v), Timed(v)
          PROVE  /\ versions' \in Seq(Version) /\ now' \in Nat /\ now <= now'
                 /\ DOMAIN versions \subseteq DOMAIN versions'
                 /\ \A i \in DOMAIN versions : versions'[i] = versions[i]
                 /\ \A i \in DOMAIN versions' \ DOMAIN versions : Timed(versions'[i])
      <3>1. /\ versions' \in Seq(Version) /\ Len(versions') = Len(versions) + 1
            /\ \A i \in 1 .. Len(versions) : versions'[i] = versions[i]
            /\ versions'[Len(versions) + 1] = v
        BY <1>1, <2>2, AppendProperties
      <3> QED BY <1>1, <2>2, <3>1
    <2> QED BY VersionsStep, <2>1, <2>2 DEF VersionsChange
  <1>3. \A s \in Nat : Applying(s) \subseteq Applying(s)'
    <2>1. \A i \in DOMAIN versions : versions[i] \in Version
      BY <1>1
    <2>2. \A i \in DOMAIN versions : versions[i].effective \in Nat
      BY <2>1 DEF Version
    <2> QED BY <1>1, <1>2, <2>2 DEF Applying
  <1>4. ASSUME NEW i \in DOMAIN versions'
        PROVE  Timed(versions[i])'
    <2>1. Timed(versions'[i])
      BY <1>2 DEF Inv
    <2> QED BY <1>2, <2>1 DEF Timed
  <1> QED BY <1>2, <1>3, <1>4

\* The one row of a station that a step rewrites.
NameSaved(s, row) == row.band = stations[s].band /\ row.set = stations[s].set

BandSaved(s, row) ==
    \E q \in Requests : /\ request[q].op = "station" /\ request[q].station = s
                        /\ row.band = request[q].band
                        /\ row.set = stations[s].set

FieldsSaved(s, row) ==
    /\ row.band = stations[s].band
    /\ \E q \in Requests :
          /\ request[q].op = "band" /\ request'[q] = Idle
          /\ \A band \in Bands : \/ row.set[band] = stations[s].set[band]
                                \/ row.set[band] = Merged(request[q].set, request[q].given)

StationsChange ==
    \/ UNCHANGED stations
    \/ \E row \in Row : stations' = Append(stations, row)
    \/ \E s \in DOMAIN stations, row \in Row :
          /\ stations' = [stations EXCEPT ![s] = row]
          /\ NameSaved(s, row) \/ BandSaved(s, row) \/ FieldsSaved(s, row)

LEMMA StationsStep ==
  ASSUME Inv, [Next]_vars
  PROVE  StationsChange
  <1>0. /\ stations \in Seq(Row)
        /\ \A s \in DOMAIN stations : stations[s] \in Row
        /\ request \in [Requests -> Request]
    BY DEF Inv, TypeOK
  <1>1. ASSUME NEW q \in Requests, NEW name \in Names, NEW band \in Bands,
               NEW given \in SUBSET Fields, SetupBegin(q, name, band, given)
        PROVE  StationsChange
    BY <1>1 DEF SetupBegin, CreateStation, Row, StationsChange
  <1>2. ASSUME NEW q \in Requests, NEW lead \in Leads, SetupCommit(q, lead)
        PROVE  StationsChange
    <2> DEFINE s == request[q].station
               row == [stations[s] EXCEPT !.visible = TRUE]
    <2>1. s \in DOMAIN stations
      BY <1>2 DEF SetupCommit, At, Inv, Sound
    <2>2. row \in Row /\ NameSaved(s, row)
      BY <1>0, <2>1 DEF Row, NameSaved
    <2>3. stations' = [stations EXCEPT ![s] = row]
      BY <1>2 DEF SetupCommit
    <2> QED BY <2>1, <2>2, <2>3 DEF StationsChange
  <1>3. ASSUME NEW q \in Requests, SaveStation(q)
        PROVE  StationsChange
    <2> DEFINE s == request[q].station
               row == [stations[s] EXCEPT !.name = request[q].name]
    <2>1. s \in DOMAIN stations /\ request[q].name \in Names
      BY <1>3 DEF SaveStation, At, Inv, Sound
    <2>2. row \in Row /\ NameSaved(s, row)
      BY <1>0, <2>1 DEF Row, NameSaved
    <2>3. stations' = [stations EXCEPT ![s] = row]
      BY <1>3 DEF SaveStation
    <2> QED BY <2>1, <2>2, <2>3 DEF StationsChange
  <1>4. ASSUME NEW q \in Requests, SaveActiveBand(q)
        PROVE  StationsChange
    <2> DEFINE s == request[q].station
               row == [stations[s] EXCEPT !.band = request[q].band]
    <2>1. s \in DOMAIN stations /\ request[q].band \in Bands /\ request[q].op = "station"
      BY <1>4 DEF SaveActiveBand, At, Inv, Sound
    <2>2. row \in Row /\ BandSaved(s, row)
      BY <1>0, <2>1 DEF Row, BandSaved
    <2>3. stations' = [stations EXCEPT ![s] = row]
      BY <1>4 DEF SaveActiveBand
    <2> QED BY <2>1, <2>2, <2>3 DEF StationsChange
  <1>5. ASSUME NEW q \in Requests, SaveBand(q)
        PROVE  StationsChange
    <2> DEFINE r == request[q]
               s == r.station
               row == [stations[s] EXCEPT !.set[r.band] = Merged(r.set, r.given)]
    <2>1. s \in DOMAIN stations /\ r.op = "band" /\ request'[q] = Idle
      BY <1>0, <1>5 DEF SaveBand, At, Put, Inv, Sound
    <2>2. Merged(r.set, r.given) \in SUBSET Fields
      BY <1>0 DEF Merged, Request
    <2>3. stations[s].set \in [Bands -> SUBSET Fields]
      BY <1>0, <2>1 DEF Row
    <2>4. row.set \in [Bands -> SUBSET Fields]
      BY <1>0, <2>1, <2>2, <2>3 DEF Row
    <2>5. row \in Row
      BY <1>0, <2>1, <2>4 DEF Row
    <2>6. FieldsSaved(s, row)
      BY <1>0, <2>1, <2>3 DEF Row, FieldsSaved
    <2>7. stations' = [stations EXCEPT ![s] = row]
      BY <1>5 DEF SaveBand
    <2> QED BY <2>1, <2>5, <2>6, <2>7 DEF StationsChange
  <1>6. ASSUME NEW q \in Requests,
               \/ SetupCheck(q) \/ HandleUpdateSchedulingConfig(q) \/ ReadShown(q) \/ Show(q)
               \/ \E name \in Names \union {None}, band \in Bands \union {None} :
                     ReadStation(q, name, band)
               \/ \E band \in Bands, given \in SUBSET Fields : ReadBand(q, band, given)
               \/ Abandon(q)
        PROVE  StationsChange
    BY <1>6 DEF SetupCheck, HandleUpdateSchedulingConfig, ReadConfig, InsertConfig, ReadShown,
                Show, ReadStation, ReadBand, Abandon, StationsChange
  <1>7. CASE Tick \/ UNCHANGED vars
    BY <1>7 DEF Tick, vars, StationsChange
  <1> QED BY <1>1, <1>2, <1>3, <1>4, <1>5, <1>6, <1>7 DEF Next, Handle

\* Stations stay, and keep their types.
LEMMA StationsStay ==
  ASSUME Inv, [Next]_vars
  PROVE  stations' \in Seq(Row) /\ DOMAIN stations \subseteq DOMAIN stations'
  <1>1. stations \in Seq(Row)
    BY DEF Inv, TypeOK
  <1>2. ASSUME NEW row \in Row, stations' = Append(stations, row)
        PROVE  stations' \in Seq(Row) /\ DOMAIN stations \subseteq DOMAIN stations'
    BY <1>1, <1>2, AppendProperties
  <1>3. ASSUME NEW s \in DOMAIN stations, NEW row \in Row, stations' = [stations EXCEPT ![s] = row]
        PROVE  stations' \in Seq(Row) /\ DOMAIN stations \subseteq DOMAIN stations'
    BY <1>1, <1>3, ExceptSeq
  <1> QED BY <1>1, <1>2, <1>3, StationsStep DEF StationsChange

\* A request that is left alone stays sound.
LEMMA SoundStays ==
  ASSUME Inv, [Next]_vars, NEW r, Sound(r)
  PROVE  Sound(r)'
  <1>1. r.station \in Nat
    BY DEF Sound, Request
  <1> QED BY <1>1, LogGrows, StationsStay DEF Sound

LEMMA RequestStep ==
  ASSUME Inv, [Next]_vars
  PROVE  request' \in [Requests -> Request] /\ \A q \in Requests : Sound(request[q])'
  <1> DEFINE Goal == /\ request' \in [Requests -> Request]
                     /\ \A q \in Requests : Sound(request[q])'
  <1>0. request \in [Requests -> Request] /\ \A q \in Requests : Sound(request[q])
    BY DEF Inv, TypeOK
  <1>1. ASSUME UNCHANGED request
        PROVE  Goal
    BY <1>0, <1>1, SoundStays
  <1>2. ASSUME NEW q \in Requests, NEW r, Sound(r)', request' = [request EXCEPT ![q] = r]
        PROVE  Goal
    <2>1. r \in Request
      BY <1>2 DEF Sound
    <2>2. request' \in [Requests -> Request]
      BY <1>0, <1>2, <2>1
    <2>3. ASSUME NEW k \in Requests
          PROVE  Sound(request[k])'
      <3>1. CASE k = q
        <4>1. request'[k] = r
          BY <1>0, <1>2, <3>1
        <4> QED BY <1>2, <4>1 DEF Sound
      <3>2. CASE k # q
        <4>1. request'[k] = request[k]
          BY <1>0, <1>2, <3>2
        <4>2. Sound(request[k])
          BY <1>0
        <4>3. ASSUME NEW c, c = request[k]
              PROVE  Sound(c)'
          BY <4>2, <4>3, SoundStays
        <4> QED BY <4>1, <4>3 DEF Sound
      <3> QED BY <3>1, <3>2
    <2> QED BY <2>2, <2>3
  <1>3. ASSUME NEW q \in Requests, NEW r, Sound(r), request' = [request EXCEPT ![q] = r]
        PROVE  Goal
    BY <1>2, <1>3, SoundStays
  <1>4. Sound(Idle)
    BY DEF Sound, Idle, Request
  <1>5. ASSUME NEW q \in Requests, Put(q, Idle)
        PROVE  Goal
    BY <1>3, <1>4, <1>5 DEF Put
  <1>6. \A s : IsPrimary(s) => s \in DOMAIN stations /\ s \in Nat /\ stations[s] \in Row
    BY DEF Inv, TypeOK, IsPrimary, Visible
  <1> USE DEF Ask, Put, At
  <1>7. ASSUME NEW q \in Requests, Handle(q)
        PROVE  Goal
    <2>0. request[q] \in Request /\ Sound(request[q])
      BY <1>0
    <2>1. CASE SetupCheck(q)
      <3> DEFINE r == [Idle EXCEPT !.op = "setup", !.at = "checked"]
      <3>1. Sound(r)
        BY DEF Sound, Idle, Request
      <3> QED BY <1>3, <2>1, <3>1 DEF SetupCheck
    <2>2. ASSUME NEW name \in Names, NEW band \in Bands, NEW given \in SUBSET Fields,
                 SetupBegin(q, name, band, given)
          PROVE  Goal
      <3> DEFINE r == [request[q] EXCEPT !.at = "open", !.station = Len(stations) + 1, !.stamp = now]
                 row == [name |-> name, band |-> band, visible |-> FALSE,
                         set |-> [b \in Bands |-> given]]
      <3>1. /\ row \in Row /\ stations' = Append(stations, row)
            /\ stations \in Seq(Row) /\ now \in Nat
        BY <2>2 DEF SetupBegin, CreateStation, Row, Inv, TypeOK
      <3>2. Len(stations) + 1 \in DOMAIN stations' /\ Len(stations) + 1 \in Nat
        BY <3>1, AppendProperties
      <3>3. r \in Request /\ r.op = "setup" /\ r.at = "open" /\ r.station = Len(stations) + 1
        BY <2>0, <2>2, <3>1, <3>2 DEF SetupBegin, Request
      <3>4. PICK c : c = r
        OBVIOUS
      <3>5. Sound(c)'
        BY <3>2, <3>3, <3>4 DEF Sound
      <3>6. request' = [request EXCEPT ![q] = c]
        BY <2>2, <3>4 DEF SetupBegin
      <3> QED BY <1>2, <3>5, <3>6
    <2>3. CASE \E lead \in Leads : SetupCommit(q, lead)
      BY <1>5, <2>3 DEF SetupCommit
    <2>4. ASSUME NEW lead \in Leads, ReadConfig(q, lead)
          PROVE  Goal
      <3>1. PICK s \in DOMAIN stations, i \in DOMAIN versions :
                /\ StationAndConfig(s, i)
                /\ request' = [request EXCEPT ![q] =
                       [Idle EXCEPT !.op = "schedule", !.at = "read", !.station = s,
                                    !.seen = i, !.lead = lead, !.stamp = now]]
        BY <2>4 DEF ReadConfig
      <3> DEFINE r == [Idle EXCEPT !.op = "schedule", !.at = "read", !.station = s,
                                   !.seen = i, !.lead = lead, !.stamp = now]
      <3>2. s \in Nat /\ i \in Nat /\ i \in Applying(s) /\ now \in Nat
        BY <3>1 DEF StationAndConfig, IsEffective, Inv, TypeOK
      <3>3. Sound(r)
        BY <3>2 DEF Sound, Idle, Request
      <3> QED BY <1>3, <3>1, <3>3
    <2>5. CASE InsertConfig(q)
      BY <1>5, <2>5 DEF InsertConfig
    <2>6. CASE ReadShown(q)
      <3>1. PICK s \in DOMAIN stations, i \in DOMAIN versions :
                /\ StationAndConfig(s, i)
                /\ request' = [request EXCEPT ![q] =
                       [Idle EXCEPT !.op = "show", !.at = "read", !.station = s, !.seen = i]]
        BY <2>6 DEF ReadShown
      <3> DEFINE r == [Idle EXCEPT !.op = "show", !.at = "read", !.station = s, !.seen = i]
      <3>2. s \in Nat /\ i \in Nat /\ i \in Applying(s)
        BY <3>1 DEF StationAndConfig, IsEffective, Inv, TypeOK
      <3>3. Sound(r)
        BY <3>2 DEF Sound, Idle, Request
      <3> QED BY <1>3, <3>1, <3>3
    <2>7. CASE Show(q)
      BY <1>5, <2>7 DEF Show
    <2>8. ASSUME NEW name \in Names \union {None}, NEW band \in Bands \union {None},
                 ReadStation(q, name, band)
          PROVE  Goal
      <3>1. PICK s \in DOMAIN stations :
                /\ IsPrimary(s)
                /\ request' = [request EXCEPT ![q] =
                       [Idle EXCEPT !.op = "station", !.at = "read", !.station = s, !.band = band,
                                    !.name = IF name = None THEN stations[s].name ELSE name,
                                    !.old = stations[s].band]]
        BY <2>8 DEF ReadStation
      <3> DEFINE r == [Idle EXCEPT !.op = "station", !.at = "read", !.station = s, !.band = band,
                                   !.name = IF name = None THEN stations[s].name ELSE name,
                                   !.old = stations[s].band]
      <3>2. s \in Nat /\ stations[s].name \in Names /\ stations[s].band \in Bands
        BY <1>6, <3>1 DEF Row
      <3>3. Sound(r)
        BY <3>2 DEF Sound, Idle, Request
      <3> QED BY <1>3, <3>1, <3>3
    <2>9. CASE SaveStation(q)
      <3> DEFINE r == AfterSaving(request[q])
      <3>1. Sound(r)
        BY <1>4, <2>0, <2>9 DEF SaveStation, AfterSaving, Sound, Request
      <3> QED BY <1>3, <2>9, <3>1 DEF SaveStation
    <2>10. CASE SaveActiveBand(q)
      BY <1>5, <2>10 DEF SaveActiveBand
    <2>11. ASSUME NEW band \in Bands, NEW given \in SUBSET Fields, ReadBand(q, band, given)
           PROVE  Goal
      <3>1. PICK s \in DOMAIN stations :
                /\ IsPrimary(s)
                /\ request' = [request EXCEPT ![q] =
                       [Idle EXCEPT !.op = "band", !.at = "read", !.station = s, !.band = band,
                                    !.set = BandConfig(s, band), !.given = given]]
        BY <2>11 DEF ReadBand
      <3> DEFINE r == [Idle EXCEPT !.op = "band", !.at = "read", !.station = s, !.band = band,
                                   !.set = BandConfig(s, band), !.given = given]
      <3>2. s \in Nat /\ BandConfig(s, band) \in SUBSET Fields
        BY <1>6, <3>1 DEF Row, BandConfig
      <3>3. Sound(r)
        BY <3>2 DEF Sound, Idle, Request
      <3> QED BY <1>3, <3>1, <3>3
    <2>12. CASE SaveBand(q)
      BY <1>5, <2>12 DEF SaveBand
    <2>13. CASE Abandon(q)
      BY <1>5, <2>13 DEF Abandon
    <2> QED BY <1>7, <2>1, <2>2, <2>3, <2>4, <2>5, <2>6, <2>7, <2>8, <2>9, <2>10, <2>11, <2>12,
               <2>13 DEF Handle, HandleUpdateSchedulingConfig
  <1>8. CASE Tick \/ UNCHANGED vars
    BY <1>1, <1>8 DEF Tick, vars
  <1> QED BY <1>7, <1>8 DEF Next

LEMMA InvStep == Inv /\ [Next]_vars => Inv'
  <1> SUFFICES ASSUME Inv, [Next]_vars
               PROVE  Inv'
    OBVIOUS
  <1>1. now' \in 0 .. MaxTime
    <2>1. UNCHANGED now \/ (now < MaxTime /\ now' = now + 1)
      BY DEF Next, Tick, Handle, SetupCheck, SetupBegin, SetupCommit, HandleUpdateSchedulingConfig,
             ReadConfig, InsertConfig, ReadShown, Show, ReadStation, SaveStation, SaveActiveBand,
             ReadBand, SaveBand, Abandon, vars
    <2> QED BY <2>1, BoundsAssumption DEF Inv, TypeOK
  <1>2. asked' \in 0 .. MaxRequests
    <2>1. UNCHANGED asked \/ (asked < MaxRequests /\ asked' = asked + 1)
      BY DEF Next, Tick, Handle, SetupCheck, SetupBegin, SetupCommit, HandleUpdateSchedulingConfig,
             ReadConfig, InsertConfig, ReadShown, Show, ReadStation, SaveStation, SaveActiveBand,
             ReadBand, SaveBand, Abandon, vars, Ask, Put
    <2> QED BY <2>1, BoundsAssumption DEF Inv, TypeOK
  <1>3. initialized' \in BOOLEAN
    <2>1. UNCHANGED initialized \/ initialized' = TRUE
      BY DEF Next, Tick, Handle, SetupCheck, SetupBegin, SetupCommit, HandleUpdateSchedulingConfig,
             ReadConfig, InsertConfig, ReadShown, Show, ReadStation, SaveStation, SaveActiveBand,
             ReadBand, SaveBand, Abandon, vars
    <2> QED BY <2>1 DEF Inv, TypeOK
  <1>4. stations' \in Seq(Row) /\ DOMAIN stations \subseteq DOMAIN stations'
    BY StationsStay
  <1>5. versions' \in Seq(Version) /\ \A i \in DOMAIN versions' : Timed(versions[i])'
    BY LogGrows
  <1>6. request' \in [Requests -> Request] /\ \A q \in Requests : Sound(request[q])'
    BY RequestStep
  <1>7. \A i \in DOMAIN versions' : versions'[i].station \in DOMAIN stations'
    <2>1. versions \in Seq(Version) /\ \A i \in DOMAIN versions : versions[i].station \in DOMAIN stations
      BY DEF Inv, TypeOK
    <2>2. ASSUME NEW v \in Version, versions' = Append(versions, v), v.station \in DOMAIN stations
          PROVE  \A i \in DOMAIN versions' : versions'[i].station \in DOMAIN stations'
      <3>1. \A i \in DOMAIN versions' : versions'[i] = v \/ (i \in DOMAIN versions /\ versions'[i] = versions[i])
        BY <1>5, <2>1, <2>2, AppendProperties
      <3> QED BY <1>4, <2>1, <2>2, <3>1
    <2> QED BY <1>4, <2>1, <2>2, VersionsStep DEF VersionsChange
  <1>8. \A q \in Requests :
           /\ request'[q].at \in {"open", "read", "saved"} => request'[q].station \in DOMAIN stations'
           /\ request'[q].op \in {"schedule", "show"} => request'[q].seen \in DOMAIN versions'
    BY <1>6 DEF Sound, Applying
  <1>9. TypeOK'
    BY <1>1, <1>2, <1>3, <1>4, <1>5, <1>6, <1>7, <1>8 DEF TypeOK
  <1> QED BY <1>5, <1>6, <1>9 DEF Inv

LEMMA InvAlways == Spec => []Inv
  BY InitInv, InvStep, PTL DEF Spec

-----------------------------------------------------------------------------
(* What follows.                                                           *)

\* The records keep their types and name records that exist.
THEOREM TypeCorrect == Spec => []TypeOK
  <1>1. Inv => TypeOK
    BY DEF Inv
  <1> QED BY <1>1, InvAlways, PTL

\* A configuration that was superseded does not return, whatever the order in
\* which versions take effect (LatestEffectiveSchedulingConfig).
THEOREM SupersededStaysSuperseded == Spec => EffectiveNeverReturns
  <1>1. Inv /\ [Next]_vars =>
          [\A s \in DOMAIN stations : \A i \in DOMAIN versions, j \in DOMAIN versions' :
              IsEffective(s, i) /\ IsEffective(s, j)' => i <= j]_vars
    <2> SUFFICES ASSUME Inv, [Next]_vars, NEW s \in DOMAIN stations,
                        NEW i \in DOMAIN versions, NEW j \in DOMAIN versions',
                        IsEffective(s, i), IsEffective(s, j)'
                 PROVE  i <= j
      OBVIOUS
    <2>1. s \in Nat /\ i \in Applying(s)
      BY DEF IsEffective, Inv, TypeOK
    <2> QED BY <2>1, LogGrows DEF IsEffective
  <1> QED BY <1>1, InvAlways, PTL DEF Spec, EffectiveNeverReturns

\* A shorter lead time applies when it has itself passed since it was asked for,
\* or was compared with a version that is no longer in force (UpdateSchedulingConfig).
THEOREM ShorterLeadTimesWait == Spec => ShorteningIsDelayed
  <1>1. Inv /\ [Next]_vars =>
          [\A s \in DOMAIN stations : \A i \in DOMAIN versions, j \in DOMAIN versions' :
              /\ IsEffective(s, i)
              /\ IsEffective(s, j)'
              /\ versions'[j].lead < versions[i].lead
              => \/ now' >= versions'[j].asked + versions'[j].lead
                 \/ versions'[j].base # i]_vars
    <2> SUFFICES ASSUME Inv, [Next]_vars, NEW s \in DOMAIN stations,
                        NEW i \in DOMAIN versions, NEW j \in DOMAIN versions',
                        IsEffective(s, j)', versions'[j].lead < versions[i].lead,
                        versions'[j].base = i
                 PROVE  now' >= versions'[j].asked + versions'[j].lead
      OBVIOUS
    <2>1. versions \in Seq(Version) /\ i # 0
      BY DEF Inv, TypeOK
    <2>2. /\ versions'[j] \in Version /\ versions'[i] = versions[i] /\ now' \in Nat
          /\ versions'[j].effective =
                EffectiveFrom(versions'[j].asked, versions'[i].lead, versions'[j].lead)
      BY <2>1, LogGrows DEF Timed
    <2>3. versions'[j].effective <= now'
      BY DEF IsEffective, Applying
    <2> QED BY <2>2, <2>3, LeadsAssumption DEF EffectiveFrom, Version
  <1> QED BY <1>1, InvAlways, PTL DEF Spec, ShorteningIsDelayed

\* What a step changes in a station's row.
LEMMA RowStep ==
  ASSUME Inv, [Next]_vars, NEW s \in DOMAIN stations
  PROVE  \/ stations'[s].band = stations[s].band /\ stations'[s].set = stations[s].set
         \/ BandSaved(s, stations'[s])
         \/ FieldsSaved(s, stations'[s])
  <1> DEFINE Goal == \/ stations'[s].band = stations[s].band /\ stations'[s].set = stations[s].set
                     \/ BandSaved(s, stations'[s])
                     \/ FieldsSaved(s, stations'[s])
  <1>1. stations \in Seq(Row)
    BY DEF Inv, TypeOK
  <1>2. ASSUME UNCHANGED stations
        PROVE  Goal
    BY <1>2
  <1>3. ASSUME NEW row \in Row, stations' = Append(stations, row)
        PROVE  Goal
    <2>1. stations'[s] = stations[s]
      BY <1>1, <1>3, AppendProperties
    <2> QED BY <2>1
  <1>4. ASSUME NEW k \in DOMAIN stations, NEW row \in Row, stations' = [stations EXCEPT ![k] = row],
               NameSaved(k, row) \/ BandSaved(k, row) \/ FieldsSaved(k, row)
        PROVE  Goal
    <2>1. CASE k = s
      <3>1. stations'[s] = row
        BY <1>1, <1>4, <2>1
      <3> QED BY <1>4, <2>1, <3>1 DEF NameSaved
    <2>2. CASE k # s
      <3>1. stations'[s] = stations[s]
        BY <1>1, <1>4, <2>2
      <3> QED BY <3>1
    <2> QED BY <2>1, <2>2
  <1> HIDE DEF Goal
  <1>5. Goal
    BY <1>2, <1>3, <1>4, StationsStep DEF StationsChange
  <1> QED BY <1>5 DEF Goal

\* An update that read the station before does not set the active band back
\* (handleUpdateStation, UpdateStation, SetStationActiveBand).
THEOREM BandsAreAskedFor == Spec => BandIsAskedFor
  <1>1. Inv /\ [Next]_vars =>
          [\A s \in DOMAIN stations : stations'[s].band # stations[s].band =>
              \E q \in Requests : /\ request[q].op = "station"
                                  /\ request[q].station = s
                                  /\ request[q].band = stations'[s].band]_vars
    BY RowStep DEF BandSaved, FieldsSaved
  <1> QED BY <1>1, InvAlways, PTL DEF Spec, BandIsAskedFor

\* A band loses a field that plans need only to a request that read it without
\* (handleUpdateBandConfig).
THEOREM PlannableBandsStay == Spec => PlannableStays
  <1>1. Inv /\ [Next]_vars =>
          [\A s \in DOMAIN stations, band \in Bands : Plannable(s, band) /\ ~Plannable(s, band)' =>
              \E q \in Requests : request[q].op = "band" /\ request[q] # request'[q]
                                  /\ request[q].set # Fields]_vars
    <2> SUFFICES ASSUME Inv, [Next]_vars, NEW s \in DOMAIN stations, NEW band \in Bands,
                        stations[s].set[band] = Fields, stations'[s].set[band] # Fields
                 PROVE  \E q \in Requests : request[q].op = "band" /\ request[q] # request'[q]
                                             /\ request[q].set # Fields
      BY DEF Plannable, BandConfig
    <2>1. FieldsSaved(s, stations'[s])
      BY RowStep DEF BandSaved
    <2>2. PICK q \in Requests :
              /\ request[q].op = "band" /\ request'[q] = Idle
              /\ stations'[s].set[band] = Merged(request[q].set, request[q].given)
      BY <2>1 DEF FieldsSaved
    <2>3. request[q].set \subseteq Fields /\ request[q].given \subseteq Fields
      BY DEF Inv, TypeOK, Request
    <2>4. request[q].set # Fields
      BY <2>2, <2>3 DEF Merged
    <2> QED BY <2>2, <2>4 DEF Idle
  <1> QED BY <1>1, InvAlways, PTL DEF Spec, PlannableStays

\* Of versions some of which are of a kind, one is the last of that kind.
LEMMA LastOf ==
  ASSUME Inv, NEW S \in SUBSET DOMAIN versions, S # {}
  PROVE  \E k \in S : \A j \in S : j <= k
  <1> DEFINE D == DOMAIN versions
             From(k) == k .. Len(versions)
             Suffixes == {From(k) : k \in S}
             Order == StrictSubsetOrdering(D)
  <1>1. D = 1 .. Len(versions) /\ Len(versions) \in Nat
    BY DEF Inv, TypeOK
  <1>2. IsWellFoundedOn(Order, SUBSET D)
    <2>1. IsFiniteSet(D)
      BY <1>1, FS_Interval
    <2> QED BY <2>1, FS_StrictSubsetOrderingWellFounded, FS_FiniteSubsetsOfFinite
  <1>3. Suffixes \subseteq SUBSET D /\ Suffixes # {}
    BY <1>1
  <1>4. PICK x \in Suffixes : \A y \in Suffixes : <<y, x>> \notin Order
    <2> HIDE DEF Suffixes, Order, D
    <2> QED BY <1>2, <1>3, WFMin
  <1>5. PICK k \in S : x = From(k)
    OBVIOUS
  <1>6. ASSUME NEW j \in S
        PROVE  j <= k
    <2> SUFFICES ASSUME k < j
                 PROVE  FALSE
      BY <1>1
    <2>1. From(j) \subseteq From(k) /\ k \in From(k) /\ k \notin From(j)
      BY <1>1
    <2>2. <<From(j), From(k)>> \in Order
      BY <1>1, <1>3, <2>1 DEF StrictSubsetOrdering
    <2> QED BY <1>4, <1>5, <2>2
  <1> QED BY <1>6

\* What is shown as pending comes after what is shown as in force, and time puts
\* nothing in force that comes after the pending one (handleGetSchedulingConfig).
THEOREM PendingComesNext == Spec => PendingIsWhatComes
  <1>1. Inv /\ [Next]_vars =>
          [/\ \A q \in Requests, k \in DOMAIN versions :
                 At(q, "show", "read") /\ IsPending(request[q].station, k) => request[q].seen < k
           /\ \A s \in DOMAIN stations : \A i \in DOMAIN versions : IsEffective(s, i) =>
                 /\ \A k \in DOMAIN versions : IsPending(s, k) => i < k
                 /\ now' # now => \A j \in DOMAIN versions' : IsEffective(s, j)' /\ j # i =>
                       \E k \in DOMAIN versions : IsPending(s, k) /\ j <= k]_vars
    <2> SUFFICES ASSUME Inv, [Next]_vars
                 PROVE  /\ \A q \in Requests, k \in DOMAIN versions :
                               At(q, "show", "read") /\ IsPending(request[q].station, k) =>
                                   request[q].seen < k
                        /\ \A s \in DOMAIN stations : \A i \in DOMAIN versions : IsEffective(s, i) =>
                               /\ \A k \in DOMAIN versions : IsPending(s, k) => i < k
                               /\ now' # now => \A j \in DOMAIN versions' :
                                     IsEffective(s, j)' /\ j # i =>
                                         \E k \in DOMAIN versions : IsPending(s, k) /\ j <= k
      OBVIOUS
    <2>1. ASSUME NEW q \in Requests, NEW k \in DOMAIN versions, At(q, "show", "read"),
                 IsPending(request[q].station, k)
          PROVE  request[q].seen < k
      BY <2>1 DEF At, IsPending, Inv, Sound
    <2>2. ASSUME NEW s \in DOMAIN stations, NEW i \in DOMAIN versions, IsEffective(s, i),
                 NEW k \in DOMAIN versions, IsPending(s, k)
          PROVE  i < k
      BY <2>2 DEF IsEffective, IsPending
    <2>3. ASSUME NEW s \in DOMAIN stations, NEW i \in DOMAIN versions, IsEffective(s, i),
                 now' # now, NEW j \in DOMAIN versions', IsEffective(s, j)', j # i
          PROVE  \E k \in DOMAIN versions : IsPending(s, k) /\ j <= k
      <3>1. /\ UNCHANGED versions /\ now \in Nat /\ versions \in Seq(Version)
            /\ DOMAIN versions \subseteq Nat /\ DOMAIN versions' = DOMAIN versions
        BY <2>3, VersionsStep DEF VersionsChange, Inv, TypeOK
      <3>2. i <= j /\ s \in Nat
        BY <2>3, LogGrows DEF IsEffective, Inv, TypeOK
      <3>3. j \notin Applying(s)
        BY <2>3, <3>1, <3>2 DEF IsEffective
      <3>4. \A m \in DOMAIN versions : versions[m].effective \in Nat
        <4>1. \A m \in DOMAIN versions : versions[m] \in Version
          BY <3>1
        <4> QED BY <4>1 DEF Version
      <3>5. j \in Waiting(s)
        BY <2>3, <3>1, <3>3, <3>4 DEF Waiting, Applying, IsEffective
      <3>6. PICK k \in Waiting(s) : \A m \in Waiting(s) : m <= k
        BY <3>5, LastOf DEF Waiting
      <3>7. k \in DOMAIN versions /\ j <= k /\ \A m \in Applying(s) : m < k
        <4>1. k \in DOMAIN versions /\ j <= k /\ i < k
          BY <2>3, <3>1, <3>2, <3>5, <3>6 DEF Waiting
        <4>2. \A m \in Applying(s) : m <= i /\ m \in DOMAIN versions
          BY <2>3 DEF IsEffective, Applying
        <4> QED BY <3>1, <4>1, <4>2
      <3> QED BY <3>6, <3>7 DEF IsPending
    <2> QED BY <2>1, <2>2, <2>3
  <1> QED BY <1>1, InvAlways, PTL DEF Spec, PendingIsWhatComes
=============================================================================
