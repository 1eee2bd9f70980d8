------------------------------ MODULE Pipelines ------------------------------
(***************************************************************************)
(* The scheduled pipelines (src/apps/pipelines): the load of the           *)
(* analytical store, the ingestion of uploaded map data, and the refreshes *)
(* of boundaries and of hazard zones.  They share no state: each has its   *)
(* own Init, Next and Spec.                                                *)
(*                                                                         *)
(* The scheduler runs one instance of a pipeline at a time                 *)
(* (max_active_runs=1), runs a failed task again from its start, and gives *)
(* the run up after some attempts; a worker may die at any point.          *)
(***************************************************************************)
EXTENDS Naturals, FiniteSets, FiniteSetsExt

(***************************************************************************)
(* The incremental load of the analytical store                            *)
(* (plugins/coescd/loaders/analytics_loader.py, dags/analytics_etl_dag.py) *)
(*                                                                         *)
(* A row gets the time its transaction began at, and is seen when that     *)
(* commits.  A run reads the rows behind the watermark page by page, each  *)
(* page a query of its own with an OFFSET.  Incidents and deployments are  *)
(* loaded alike; one of the two is modelled.                               *)
(*                                                                         *)
(* late: rows whose transaction committed behind the watermark.            *)
(* skipped: rows left behind by a run whose pages did not fit together,    *)
(* because something committed while it ran (disturbed) or a page ended    *)
(* between rows of the same time.                                          *)
(***************************************************************************)
CONSTANTS
  EtlRows,
  BATCH_SIZE,
  MaxClock,      \* bound: times
  MaxEtlWrites   \* bound: transactions

ASSUME EtlAssumption == IsFiniteSet(EtlRows) /\ BATCH_SIZE \in Nat \ {0} /\ MaxClock \in Nat \ {0} /\ MaxEtlWrites \in Nat

VARIABLES
  original,   \* row -> [version, stamp] in the operational store; version 0 is no row
  writing,    \* transactions under way: [row, stamp]
  clock,
  etlWrites,  \* transactions so far
  etl,        \* the run: [pc, high, offset, page, disturbed]
  store,      \* row -> version in the analytical store
  watermark,
  late, skipped

etlVars == <<original, writing, clock, etlWrites, etl, store, watermark, late, skipped>>

Stamps == 1..MaxClock
EtlIdle == [pc |-> "idle", high |-> 0, offset |-> 0, page |-> <<>>, disturbed |-> FALSE]

EtlTypeOK ==
  /\ original \in [EtlRows -> [version: Nat, stamp: 0..MaxClock]]
  /\ writing \subseteq [row: EtlRows, stamp: Stamps]
  /\ clock \in Stamps /\ etlWrites \in 0..MaxEtlWrites
  /\ etl.pc \in {"idle", "read", "write", "finish"} /\ etl.high \in 0..MaxClock
  /\ etl.offset \in Nat /\ etl.disturbed \in BOOLEAN
  /\ etl.pc = "write" => DOMAIN etl.page \subseteq EtlRows /\ \A r \in DOMAIN etl.page : etl.page[r] \in Nat
  /\ store \in [EtlRows -> Nat] /\ watermark \in 0..MaxClock
  /\ late \cup skipped \subseteq EtlRows

EtlInit ==
  /\ original = [r \in EtlRows |-> [version |-> 0, stamp |-> 0]]
  /\ writing = {} /\ clock = 1 /\ etlWrites = 0
  /\ etl = EtlIdle /\ store = [r \in EtlRows |-> 0] /\ watermark = 0
  /\ late = {} /\ skipped = {}

-----------------------------------------------------------------------------
Tick ==
  /\ clock < MaxClock /\ clock' = clock + 1
  /\ UNCHANGED <<original, writing, etlWrites, etl, store, watermark, late, skipped>>

BeginWrite(r) ==
  /\ etlWrites < MaxEtlWrites
  /\ writing' = writing \cup {[row |-> r, stamp |-> clock]} /\ writing' # writing
  /\ etlWrites' = etlWrites + 1
  /\ UNCHANGED <<original, clock, etl, store, watermark, late, skipped>>

CommitWrite(t) ==
  LET r == t.row
  IN  /\ writing' = writing \ {t}
      /\ original' = [original EXCEPT ![r] = [version |-> original[r].version + 1, stamp |-> t.stamp]]
      /\ late' = IF t.stamp <= watermark THEN late \cup {r} ELSE late \ {r}
      /\ skipped' = skipped \ {r}
      /\ etl' = IF etl.pc = "idle" THEN etl ELSE [etl EXCEPT !.disturbed = TRUE]
      /\ UNCHANGED <<clock, etlWrites, store, watermark>>

\* run_incident_etl: the watermark ...
StartEtl ==
  /\ etl.pc = "idle"
  /\ etl' = [EtlIdle EXCEPT !.pc = "read", !.high = watermark]
  /\ UNCHANGED <<original, writing, clock, etlWrites, store, watermark, late, skipped>>

\* _read_incidents_since: the rows the query is about, and n of them in its order.
ReadSince == {r \in EtlRows : original[r].stamp > watermark}

FirstRows(n) ==
  {S \in SUBSET ReadSince :
    /\ Cardinality(S) = (IF n < Cardinality(ReadSince) THEN n ELSE Cardinality(ReadSince))
    /\ \A r \in S, q \in ReadSince \ S : original[r].stamp <= original[q].stamp}

\* The page ends between rows of the same time: their order is the database's choice.
EndsInTie(S) == \E r \in S, q \in ReadSince \ S : original[r].stamp = original[q].stamp

\* ... _batch_read: one page, LIMIT BATCH_SIZE OFFSET offset ...
BatchRead ==
  /\ etl.pc = "read"
  /\ \E before \in FirstRows(etl.offset), through \in FirstRows(etl.offset + BATCH_SIZE) :
       LET page == through \ before
       IN  /\ before \subseteq through
           /\ \/ page = {} /\ etl' = [etl EXCEPT !.pc = "finish"]
              \/ \E last \in page :
                   /\ \A r \in page : original[r].stamp <= original[last].stamp
                   /\ etl' = [pc |-> "write", offset |-> etl.offset + BATCH_SIZE,
                              high |-> IF original[last].stamp > etl.high THEN original[last].stamp ELSE etl.high,
                              page |-> [r \in page |-> original[r].version],
                              disturbed |-> etl.disturbed \/ EndsInTie(through)]
           /\ late' = late \ page /\ skipped' = skipped \ page
  /\ UNCHANGED <<original, writing, clock, etlWrites, store, watermark>>

\* ... _write_to_analytical_store: an upsert, and on while pages are full ...
WriteBatch ==
  /\ etl.pc = "write"
  /\ store' = [r \in EtlRows |-> IF r \in DOMAIN etl.page THEN etl.page[r] ELSE store[r]]
  /\ etl' = [etl EXCEPT !.pc = IF Cardinality(DOMAIN etl.page) < BATCH_SIZE THEN "finish" ELSE "read", !.page = <<>>]
  /\ UNCHANGED <<original, writing, clock, etlWrites, watermark, late, skipped>>

\* ... and _set_watermark.
LeftBehind(w) == {r \in EtlRows : original[r].stamp \in 1..w /\ store[r] # original[r].version}

SetWatermark ==
  /\ etl.pc = "finish"
  /\ watermark' = etl.high
  /\ skipped' = IF etl.disturbed THEN skipped \cup LeftBehind(etl.high) ELSE skipped
  /\ etl' = EtlIdle
  /\ UNCHANGED <<original, writing, clock, etlWrites, store, late>>

EtlFails ==
  /\ etl.pc # "idle" /\ etl' = EtlIdle
  /\ UNCHANGED <<original, writing, clock, etlWrites, store, watermark, late, skipped>>

EtlNext ==
  \/ Tick \/ \E r \in EtlRows : BeginWrite(r)
  \/ \E t \in writing : CommitWrite(t)
  \/ StartEtl \/ BatchRead \/ WriteBatch \/ SetWatermark \/ EtlFails

EtlSpec == EtlInit /\ [][EtlNext]_etlVars

\* Everything at or before the watermark is in the analytical store in its last version,
\* but for rows that committed late or that pages of a disturbed run skipped: no failure
\* of a run, no retry and no upsert of an older copy loses one
\* (analytics_loader.py:53-77, 281-293).
StoreFollowsTheWatermark ==
  \A r \in EtlRows :
    original[r].stamp \in 1..watermark => store[r] = original[r].version \/ r \in late \cup skipped

-----------------------------------------------------------------------------
(***************************************************************************)
(* The ingestion of uploaded map data (dags/spatial_ingest_dag.py)         *)
(*                                                                         *)
(* A job is a file of features.  A run takes the pending jobs in order;    *)
(* what a file has wrong is set aside for the data steward, the rest is    *)
(* loaded, and the backend is told.  The first job to fail ends the        *)
(* attempt, and the next attempt starts again with the first job of the    *)
(* same list.  The backend's side of it does not exist yet: its rows are   *)
(* modelled from the calls.                                                *)
(*                                                                         *)
(* Wrong: features the validators always refuse.  Early: features dated    *)
(* in the future, refused until their time comes.                          *)
(***************************************************************************)
CONSTANTS
  MaxJobs,       \* bound: jobs, taken in the order of their numbers
  FileOf,        \* job -> the features of its file
  Wrong, Early,
  RETRIES        \* DEFAULT_ARGS.retries

IngestJobs == 1..MaxJobs
Features == UNION {FileOf[j] : j \in IngestJobs}

ASSUME IngestAssumption ==
  MaxJobs \in Nat /\ DOMAIN FileOf = IngestJobs /\ RETRIES \in Nat

VARIABLES
  jobStatus,   \* job -> the backend's row
  ingest,      \* the run: [pc, list, job, tries, refused]
  loaded,      \* features in the tables of the map
  recorded,    \* <<job, feature>> in the quarantine table
  unrecorded,  \* <<job, feature>> whose quarantine row could not be written
  arrived      \* early features whose time has come

ingestVars == <<jobStatus, ingest, loaded, recorded, unrecorded, arrived>>

IngestIdle == [pc |-> "idle", list |-> {}, job |-> 0, tries |-> 0, refused |-> {}]

IngestTypeOK ==
  /\ jobStatus \in [IngestJobs -> {"absent", "pending", "complete", "failed"}]
  /\ ingest \in [pc: {"idle", "fetch", "quarantine", "load", "mark", "announce", "failing"},
                 list: SUBSET IngestJobs, job: 0..MaxJobs, tries: 0..RETRIES, refused: SUBSET Features]
  /\ loaded \subseteq Features /\ arrived \subseteq Early
  /\ recorded \cup unrecorded \subseteq IngestJobs \X Features

IngestInit ==
  /\ jobStatus = [j \in IngestJobs |-> "absent"]
  /\ ingest = IngestIdle
  /\ loaded = {} /\ recorded = {} /\ unrecorded = {} /\ arrived = {}

Upload(j) ==
  /\ jobStatus[j] = "absent"
  /\ jobStatus' = [jobStatus EXCEPT ![j] = "pending"]
  /\ UNCHANGED <<ingest, loaded, recorded, unrecorded, arrived>>

TimeComes(f) ==
  /\ f \in Early \ arrived /\ arrived' = arrived \cup {f}
  /\ UNCHANGED <<jobStatus, ingest, loaded, recorded, unrecorded>>

\* poll_ingestion_jobs: an empty queue ends the run.
PollIngestionJobs ==
  LET pending == {j \in IngestJobs : jobStatus[j] = "pending"}
  IN  /\ ingest.pc = "idle" /\ pending # {}
      /\ ingest' = [IngestIdle EXCEPT !.pc = "fetch", !.list = pending, !.job = Min(pending)]
      /\ UNCHANGED <<jobStatus, loaded, recorded, unrecorded, arrived>>

\* process_ingestion_job, per job: the file is fetched, normalised and validated ...
Refused(j) == FileOf[j] \cap (Wrong \cup (Early \ arrived))

ProcessFile ==
  /\ ingest.pc = "fetch"
  /\ ingest' = [ingest EXCEPT !.refused = Refused(ingest.job),
                              !.pc = IF Refused(ingest.job) = {} THEN "load" ELSE "quarantine"]
  /\ UNCHANGED <<jobStatus, loaded, recorded, unrecorded, arrived>>

\* ... what was refused is recorded, and a failure to do so is swallowed ...
WriteQuarantineRecords ==
  LET rows == {ingest.job} \X ingest.refused
  IN  /\ ingest.pc = "quarantine"
      /\ \/ recorded' = recorded \cup rows /\ UNCHANGED unrecorded
         \/ unrecorded' = unrecorded \cup rows /\ UNCHANGED recorded
      /\ ingest' = [ingest EXCEPT !.pc = "load"]
      /\ UNCHANGED <<jobStatus, loaded, arrived>>

\* ... the rest is upserted in one transaction ...
UpsertFeatures ==
  /\ ingest.pc = "load"
  /\ loaded' = loaded \cup (FileOf[ingest.job] \ ingest.refused)
  /\ ingest' = [ingest EXCEPT !.pc = "mark"]
  /\ UNCHANGED <<jobStatus, recorded, unrecorded, arrived>>

\* ... the backend marks the job, though its answer may be lost ...
MarkComplete ==
  /\ ingest.pc = "mark"
  /\ jobStatus' = [jobStatus EXCEPT ![ingest.job] = "complete"]
  /\ \E next \in {"announce", "failing"} : ingest' = [ingest EXCEPT !.pc = next]
  /\ UNCHANGED <<loaded, recorded, unrecorded, arrived>>

\* ... and hears of it; on with the next job.
PublishComplete ==
  LET rest == {j \in ingest.list : ingest.job < j}
  IN  /\ ingest.pc = "announce"
      /\ ingest' = IF rest = {} THEN IngestIdle
                   ELSE [ingest EXCEPT !.pc = "fetch", !.job = Min(rest), !.refused = {}]
      /\ UNCHANGED <<jobStatus, loaded, recorded, unrecorded, arrived>>

\* Any step but the record of the refused may raise.
JobRaises ==
  /\ ingest.pc \in {"fetch", "load", "mark", "announce"}
  /\ ingest' = [ingest EXCEPT !.pc = "failing"]
  /\ UNCHANGED <<jobStatus, loaded, recorded, unrecorded, arrived>>

\* The attempt is over: the next one starts with the first job of the list.
NextAttempt ==
  IF ingest.tries < RETRIES
  THEN [ingest EXCEPT !.pc = "fetch", !.tries = ingest.tries + 1, !.job = Min(ingest.list), !.refused = {}]
  ELSE IngestIdle

\* The job is marked as failed, if the backend can be reached, and the exception goes on.
MarkFailed ==
  /\ ingest.pc = "failing"
  /\ \/ jobStatus' = [jobStatus EXCEPT ![ingest.job] = "failed"]
     \/ UNCHANGED jobStatus
  /\ ingest' = NextAttempt
  /\ UNCHANGED <<loaded, recorded, unrecorded, arrived>>

\* The worker dies.
IngestWorkerDies ==
  /\ ingest.pc # "idle"
  /\ ingest' = NextAttempt
  /\ UNCHANGED <<jobStatus, loaded, recorded, unrecorded, arrived>>

IngestNext ==
  \/ \E j \in IngestJobs : Upload(j)
  \/ \E f \in Early : TimeComes(f)
  \/ PollIngestionJobs \/ ProcessFile \/ WriteQuarantineRecords \/ UpsertFeatures
  \/ MarkComplete \/ PublishComplete \/ JobRaises \/ MarkFailed \/ IngestWorkerDies

IngestSpec == IngestInit /\ [][IngestNext]_ingestVars

\* Whatever fails and is tried again, a complete job has each feature of its file on the
\* map or with the data steward, unless the record of it was lost; nothing on the map
\* is wrong, and what both the map and the steward have was only early
\* (spatial_ingest_dag.py:125-180, 262-279).
FilesAreAccounted ==
  /\ \A j \in IngestJobs : jobStatus[j] = "complete" =>
       \A f \in FileOf[j] : f \in loaded \/ <<j, f>> \in recorded \cup unrecorded
  /\ loaded \cap Wrong = {}
  /\ \A j \in IngestJobs, f \in Features : <<j, f>> \in recorded /\ f \in loaded => f \in Early

-----------------------------------------------------------------------------
(***************************************************************************)
(* The refresh of administrative boundaries                                *)
(* (dags/boundary_refresh_dag.py)                                          *)
(*                                                                         *)
(* A run fetches the whole dataset and refuses it if anything in it is     *)
(* wrong; else it upserts what differs from the table, and rebuilds the    *)
(* statistics.  Ingestion and people write the same table.  A task that    *)
(* fails is run again, its predecessors are not; how often is left open.   *)
(*                                                                         *)
(* touched: units others wrote since the run compared them.  unseen: units *)
(* others wrote since the statistics were rebuilt.  owed: a run loaded and *)
(* never came to rebuild them.                                             *)
(***************************************************************************)
CONSTANTS
  Units,        \* administrative units
  Shapes,       \* a unit's geometry and attributes
  BadShapes,    \* those the validators refuse
  NoShape       \* the unit is not in the dataset, or not in the table

ASSUME BoundaryAssumption == BadShapes \subseteq Shapes /\ NoShape \notin Shapes

VARIABLES
  dataset,       \* unit -> shape in the dataset
  boundary,     \* unit -> shape in the table
  statistics,   \* unit -> shape the materialized view was built from
  refresh,      \* the run: [pc, got, changed]
  touched, unseen, owed

boundaryVars == <<dataset, boundary, statistics, refresh, touched, unseen, owed>>

NoUnits == [u \in Units |-> NoShape]
RefreshIdle == [pc |-> "idle", got |-> NoUnits, changed |-> {}]

BoundariesTypeOK ==
  /\ {dataset, boundary, statistics} \subseteq [Units -> Shapes \cup {NoShape}]
  /\ refresh \in [pc: {"idle", "validate", "detect", "load", "refresh"},
                  got: [Units -> Shapes \cup {NoShape}], changed: SUBSET Units]
  /\ touched \cup unseen \subseteq Units /\ owed \in BOOLEAN

BoundariesInit ==
  /\ dataset = NoUnits /\ boundary = NoUnits /\ statistics = NoUnits
  /\ refresh = RefreshIdle /\ touched = {} /\ unseen = {} /\ owed = FALSE

SourceChanges(u) ==
  /\ dataset' \in {[dataset EXCEPT ![u] = s] : s \in (Shapes \cup {NoShape}) \ {dataset[u]}}
  /\ UNCHANGED <<boundary, statistics, refresh, touched, unseen, owed>>

\* Ingestion, or a person, writes a unit.
OthersWrite(u) ==
  /\ boundary' \in {[boundary EXCEPT ![u] = s] : s \in Shapes \ (BadShapes \cup {boundary[u]})}
  /\ touched' = touched \cup {u} /\ unseen' = unseen \cup {u}
  /\ UNCHANGED <<dataset, statistics, refresh, owed>>

FetchBoundarySource ==
  /\ refresh.pc = "idle"
  /\ refresh' = [pc |-> "validate", got |-> dataset, changed |-> {}]
  /\ UNCHANGED <<dataset, boundary, statistics, touched, unseen, owed>>

\* One error, and nothing is refreshed.
ValidateBoundaries ==
  /\ refresh.pc = "validate"
  /\ refresh' = IF \E u \in Units : refresh.got[u] \in BadShapes
                THEN RefreshIdle ELSE [refresh EXCEPT !.pc = "detect"]
  /\ UNCHANGED <<dataset, boundary, statistics, touched, unseen, owed>>

\* What differs; the two sides hash their own rendering of a geometry, so a unit that is
\* the same may be taken for changed.
DetectChanges ==
  LET known == {u \in Units : refresh.got[u] # NoShape}
      differs == {u \in known : refresh.got[u] # boundary[u]}
  IN  /\ refresh.pc = "detect"
      /\ \E changed \in SUBSET known :
           /\ differs \subseteq changed
           /\ refresh' = [refresh EXCEPT !.pc = "load", !.changed = changed]
      /\ touched' = {}
      /\ UNCHANGED <<dataset, boundary, statistics, unseen, owed>>

\* The upsert; no unit is ever deleted.  The worker may die after it and run it again.
LoadBoundaries ==
  /\ refresh.pc = "load"
  /\ boundary' = [u \in Units |-> IF u \in refresh.changed THEN refresh.got[u] ELSE boundary[u]]
  /\ \E next \in {"load", "refresh"} : refresh' = [refresh EXCEPT !.pc = next]
  /\ touched' = touched \ refresh.changed
  /\ owed' = (owed \/ refresh.changed # {})
  /\ UNCHANGED <<dataset, statistics, unseen>>

RefreshSpatialViews ==
  /\ refresh.pc = "refresh"
  /\ statistics' = boundary
  /\ unseen' = {} /\ owed' = FALSE
  /\ refresh' = RefreshIdle
  /\ UNCHANGED <<dataset, boundary, touched>>

\* The attempts are used up.
RefreshFails ==
  /\ refresh.pc # "idle" /\ refresh' = RefreshIdle
  /\ UNCHANGED <<dataset, boundary, statistics, touched, unseen, owed>>

BoundariesNext ==
  \/ \E u \in Units : SourceChanges(u) \/ OthersWrite(u)
  \/ FetchBoundarySource \/ ValidateBoundaries \/ DetectChanges \/ LoadBoundaries
  \/ RefreshSpatialViews \/ RefreshFails

BoundariesSpec == BoundariesInit /\ [][BoundariesNext]_boundaryVars

\* No refused shape gets into the table; after the load the table has the dataset but for
\* what others wrote meanwhile; and the statistics are those of the table but for what
\* others wrote since and for a run that loaded and never rebuilt them
\* (boundary_refresh_dag.py:83-117, 120-218).
BoundariesFollowTheSource ==
  /\ \A u \in Units : boundary[u] \notin BadShapes
  /\ refresh.pc = "refresh" =>
       \A u \in Units : refresh.got[u] \in {NoShape, boundary[u]} \/ u \in touched
  /\ ~owed => \A u \in Units : statistics[u] = boundary[u] \/ u \in unseen

-----------------------------------------------------------------------------
(***************************************************************************)
(* The hourly refresh of hazard zones (dags/hazard_zone_refresh_dag.py)    *)
(*                                                                         *)
(* A class of hazard that cannot be fetched is left out; the others are    *)
(* loaded one after the other, and map clients are told if anything was    *)
(* loaded.  A load that fails starts again with the first class.           *)
(*                                                                         *)
(* untold: a run loaded a class and never came to tell.                    *)
(***************************************************************************)
CONSTANTS
  MaxClass,     \* HAZARD_CLASSES, by their place
  MaxAnalyses   \* bound: versions of the zones of a class

Classes == 1..MaxClass

ASSUME ZoneAssumption == MaxClass \in Nat \ {0} /\ MaxAnalyses \in Nat

VARIABLES
  analysis,   \* class -> version of its zones in the backend
  zones,      \* class -> version in hazard_zones; 0 is none
  shown,      \* class -> version map clients read when last told to
  zoneRun,    \* the run: [pc, at, got]
  untold

zoneVars == <<analysis, zones, shown, zoneRun, untold>>

NoZones == [k \in Classes |-> 0]
ZonesIdle == [pc |-> "idle", at |-> 1, got |-> NoZones]

ZonesTypeOK ==
  /\ {analysis, zones, shown} \subseteq [Classes -> 0..MaxAnalyses]
  /\ zoneRun \in [pc: {"idle", "fetch", "load", "publish"}, at: 1..(MaxClass + 1),
                  got: [Classes -> 0..MaxAnalyses]]
  /\ untold \in BOOLEAN

ZonesInit ==
  /\ analysis = NoZones /\ zones = NoZones /\ shown = NoZones
  /\ zoneRun = ZonesIdle /\ untold = FALSE

Analyse(k) ==
  /\ analysis[k] < MaxAnalyses
  /\ analysis' = [analysis EXCEPT ![k] = analysis[k] + 1]
  /\ UNCHANGED <<zones, shown, zoneRun, untold>>

StartZones ==
  /\ zoneRun.pc = "idle" /\ zoneRun' = [ZonesIdle EXCEPT !.pc = "fetch"]
  /\ UNCHANGED <<analysis, zones, shown, untold>>

\* fetch_hazard_zones, class by class: it is skipped when the call fails, when there is
\* nothing to fetch, and in effect when the validator refuses all its zones.
FetchHazardZones ==
  LET k == zoneRun.at
  IN  /\ zoneRun.pc = "fetch"
      /\ \/ /\ k \in Classes
            /\ \E version \in {0, analysis[k]} :
                 zoneRun' = [zoneRun EXCEPT !.got[k] = version, !.at = k + 1]
         \/ k = MaxClass + 1 /\ zoneRun' = [zoneRun EXCEPT !.pc = "load", !.at = 1]
      /\ UNCHANGED <<analysis, zones, shown, untold>>

\* load_hazard_zones, class by class.
LoadHazardZones ==
  LET k == zoneRun.at
  IN  /\ zoneRun.pc = "load"
      /\ \/ /\ k \in Classes
            /\ zones' = IF zoneRun.got[k] > 0 THEN [zones EXCEPT ![k] = zoneRun.got[k]] ELSE zones
            /\ untold' = (untold \/ zoneRun.got[k] > 0)
            /\ zoneRun' = [zoneRun EXCEPT !.at = k + 1]
         \/ /\ k = MaxClass + 1
            /\ zoneRun' = [zoneRun EXCEPT !.pc = "publish"]
            /\ UNCHANGED <<zones, untold>>
      /\ UNCHANGED <<analysis, shown>>

RetryLoad ==
  /\ zoneRun.pc = "load" /\ zoneRun' = [zoneRun EXCEPT !.at = 1]
  /\ UNCHANGED <<analysis, zones, shown, untold>>

\* publish_hazard_update_event: clients read the layer again, unless nothing was loaded.
PublishHazardUpdate ==
  LET total == {k \in Classes : zoneRun.got[k] > 0}
  IN  /\ zoneRun.pc = "publish"
      /\ IF total = {} THEN UNCHANGED <<shown, untold>> ELSE shown' = zones /\ untold' = FALSE
      /\ zoneRun' = ZonesIdle
      /\ UNCHANGED <<analysis, zones>>

ZonesFail ==
  /\ zoneRun.pc # "idle" /\ zoneRun' = ZonesIdle
  /\ UNCHANGED <<analysis, zones, shown, untold>>

ZonesNext ==
  \/ \E k \in Classes : Analyse(k)
  \/ StartZones \/ FetchHazardZones \/ LoadHazardZones \/ RetryLoad
  \/ PublishHazardUpdate \/ ZonesFail

ZonesSpec == ZonesInit /\ [][ZonesNext]_zoneVars

\* A retry never takes a class back to older zones, and clients see the zones in the
\* table but for a run that loaded some and never came to tell them
\* (hazard_zone_refresh_dag.py:151-233).
ClientsSeeTheZones ==
  /\ \A k \in Classes : shown[k] <= zones[k] /\ zones[k] <= analysis[k]
  /\ \A k \in Classes : zoneRun.got[k] > 0 => zones[k] <= zoneRun.got[k]
  /\ ~untold => shown = zones

=============================================================================
