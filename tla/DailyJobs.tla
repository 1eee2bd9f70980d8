----------------------------- MODULE DailyJobs ------------------------------
(***************************************************************************)
(* The jobs every replica of the backend runs by the clock: the archiving of*)
(* the audit trail (siem-export.service.ts) and the scheduled reports      *)
(* (reporting.service.ts).                                                 *)
(***************************************************************************)
EXTENDS Naturals, FiniteSets, FiniteSetsExt

(***************************************************************************)
(* Audit events from their emission to the archive                         *)
(* (src/apps/backend/src/modules/audit/services/audit.service.ts and       *)
(* siem-export.service.ts).                                                *)
(*                                                                         *)
(* Every replica runs the daily archiving: it reads a batch of old events, *)
(* stores the copies and deletes the events, in three statements without a *)
(* transaction.  Events are numbered by their age, the oldest first.       *)
(*                                                                         *)
(* entangled: a job stopped half-way, or two jobs worked on one event.     *)
(***************************************************************************)
CONSTANTS
  Archivers,       \* replicas that run the cron jobs
  MaxEvents,       \* bound: events emitted
  ArchiveBatch,    \* events that one job takes (10 000 in the code)
  MaxAuditCrashes  \* bound: crashes of a replica

ASSUME AuditTrailAssumption == MaxEvents \in Nat /\ ArchiveBatch \in Nat \ {0} /\ MaxAuditCrashes \in Nat

AuditEvents == 1..MaxEvents

VARIABLES
  emitted,      \* number of events emitted
  hot,          \* audit.audit_events
  archiveRows,  \* event -> rows in audit.audit_archives, which have no unique key
  stored,       \* events whose INSERT succeeded
  aged,         \* number of events older than 90 days
  expired,      \* number of events older than seven years
  purged,       \* events deleted from the archive
  archiver,     \* replica -> its job
  entangled, auditCrashes

auditVars == <<emitted, hot, archiveRows, stored, aged, expired, purged, archiver, entangled, auditCrashes>>

ArchiverStates == [pc: {"idle", "read", "copied"}, ids: SUBSET AuditEvents]
IdleArchiver == [pc |-> "idle", ids |-> {}]

AuditTrailTypeOK ==
  /\ emitted \in 0..MaxEvents /\ aged \in 0..emitted /\ expired \in 0..aged
  /\ hot \subseteq stored /\ stored \subseteq 1..emitted /\ purged \subseteq 1..expired
  /\ archiveRows \in [AuditEvents -> Nat]
  /\ archiver \in [Archivers -> ArchiverStates]
  /\ \A r \in Archivers : archiver[r].ids \subseteq 1..aged /\ Cardinality(archiver[r].ids) <= ArchiveBatch
  /\ entangled \in BOOLEAN /\ auditCrashes \in 0..MaxAuditCrashes

AuditTrailInit ==
  /\ emitted = 0 /\ hot = {} /\ stored = {} /\ aged = 0 /\ expired = 0 /\ purged = {}
  /\ archiveRows = [e \in AuditEvents |-> 0]
  /\ archiver = [r \in Archivers |-> IdleArchiver]
  /\ entangled = FALSE /\ auditCrashes = 0

-----------------------------------------------------------------------------
\* emit: a failure to store the event is logged and swallowed.
EmitAudit ==
  /\ emitted < MaxEvents
  /\ emitted' = emitted + 1
  /\ \E saved \in SUBSET {emitted + 1} : hot' = hot \cup saved /\ stored' = stored \cup saved
  /\ UNCHANGED <<archiveRows, aged, expired, purged, archiver, entangled, auditCrashes>>

\* Time passes: the next event is older than 90 days, or than seven years.
AgeEvent ==
  /\ aged < emitted
  /\ aged' = aged + 1
  /\ UNCHANGED <<emitted, hot, archiveRows, stored, expired, purged, archiver, entangled, auditCrashes>>

ExpireEvent ==
  /\ expired < aged
  /\ expired' = expired + 1
  /\ UNCHANGED <<emitted, hot, archiveRows, stored, aged, purged, archiver, entangled, auditCrashes>>

-----------------------------------------------------------------------------
\* archiveOldEvents: the oldest events past the cutoff, one batch ...
OldEvents == hot \cap 1..aged
Batch == {e \in OldEvents : Cardinality({d \in OldEvents : d < e}) < ArchiveBatch}

ReadOldEvents(r) ==
  /\ archiver[r].pc = "idle" /\ OldEvents # {}
  /\ archiver' = [archiver EXCEPT ![r] = [pc |-> "read", ids |-> Batch]]
  /\ entangled' = (entangled \/ \E q \in Archivers : archiver[q].ids \cap Batch # {})
  /\ UNCHANGED <<emitted, hot, archiveRows, stored, aged, expired, purged, auditCrashes>>

\* ... copied to the archive (TypeORM saves the batch in one transaction) ...
CopyToArchive(r) ==
  /\ archiver[r].pc = "read"
  /\ archiveRows' = [e \in AuditEvents |-> archiveRows[e] + (IF e \in archiver[r].ids THEN 1 ELSE 0)]
  /\ archiver' = [archiver EXCEPT ![r].pc = "copied"]
  /\ UNCHANGED <<emitted, hot, stored, aged, expired, purged, entangled, auditCrashes>>

\* ... and deleted by their ids.
DeletedByAge(r) == OldEvents
Deleted(r) == archiver[r].ids

DeleteArchived(r) ==
  /\ archiver[r].pc = "copied"
  /\ hot' = hot \ Deleted(r)
  /\ archiver' = [archiver EXCEPT ![r] = IdleArchiver]
  /\ UNCHANGED <<emitted, archiveRows, stored, aged, expired, purged, entangled, auditCrashes>>

\* purgeExpiredArchives, once a month.
PurgeArchives ==
  /\ \E e \in 1..expired : archiveRows[e] > 0
  /\ archiveRows' = [e \in AuditEvents |-> IF e <= expired THEN 0 ELSE archiveRows[e]]
  /\ purged' = purged \cup {e \in 1..expired : archiveRows[e] > 0}
  /\ UNCHANGED <<emitted, hot, stored, aged, expired, archiver, entangled, auditCrashes>>

CrashOfArchiver(r) ==
  /\ auditCrashes < MaxAuditCrashes
  /\ auditCrashes' = auditCrashes + 1
  /\ entangled' = (entangled \/ archiver[r].pc = "copied")
  /\ archiver' = [archiver EXCEPT ![r] = IdleArchiver]
  /\ UNCHANGED <<emitted, hot, archiveRows, stored, aged, expired, purged>>

ArchiverStep(r) == ReadOldEvents(r) \/ CopyToArchive(r) \/ DeleteArchived(r)

AuditTrailNext ==
  \/ EmitAudit \/ AgeEvent \/ ExpireEvent
  \/ \E r \in Archivers : ReadOldEvents(r) \/ CopyToArchive(r) \/ DeleteArchived(r) \/ CrashOfArchiver(r)
  \/ PurgeArchives

AuditTrailSpec == AuditTrailInit /\ [][AuditTrailNext]_auditVars /\ \A r \in Archivers : WF_auditVars(ArchiverStep(r))

-----------------------------------------------------------------------------
\* An event that was stored is found among the events or in the archive until
\* its seven years are over (siem-export.service.ts:165-222), whatever jobs
\* overlap and wherever they stop.
NothingIsLost == \A e \in stored : e \in hot \/ archiveRows[e] > 0 \/ e \in purged

\* It is archived once, and is not found in both places between jobs
\* (siem-export.service.ts:206-213), unless jobs overlapped or one stopped
\* half-way.
ArchivedOnce ==
  \/ entangled
  \/ \A e \in stored :
       /\ archiveRows[e] <= 1
       /\ archiveRows[e] = 1 /\ e \in hot => \E r \in Archivers : archiver[r].pc = "copied" /\ e \in archiver[r].ids

\* Old events leave the table of current events, however many there are
\* (siem-export.service.ts:165-222): the batches work the backlog off.
Backlog == {e \in hot : e <= aged}
OldEventsAreArchived == Backlog = {}

-----------------------------------------------------------------------------
(***************************************************************************)
(* Executions of reports: on demand and by the scheduler of every replica  *)
(* (src/apps/backend/src/modules/reporting/services/reporting.service.ts,  *)
(* and requestReport of analytics/services/analytics.service.ts).          *)
(*                                                                         *)
(* Every five minutes each replica looks for definitions that are due; the *)
(* execution itself runs in the memory of the replica.  Time is the number *)
(* of five-minute slots since midnight of the first day; the definition is *)
(* due in the first slot of a day (of SlotsPerDay, 288 in the code).       *)
(*                                                                         *)
(* excused: days on whose slot some replica did not tick, or the           *)
(* definition was not active throughout.  interrupted: executions that     *)
(* were in the memory of a replica that stopped.                           *)
(***************************************************************************)
CONSTANTS
  ReportReplicas,   \* replicas of the backend
  MaxExecutions,    \* bound: executions stored
  MaxSlots,         \* bound: slots that pass
  SlotsPerDay,
  MaxReportCrashes  \* bound: replicas that stop

NoReplica == "none"

ASSUME ReportRunsAssumption ==
  /\ IsFiniteSet(ReportReplicas) /\ ReportReplicas # {} /\ NoReplica \notin ReportReplicas
  /\ MaxExecutions \in Nat /\ MaxSlots \in Nat /\ SlotsPerDay \in Nat \ {0, 1}
  /\ MaxReportCrashes \in Nat

ExecutionStatuses == {"pending", "running", "complete", "failed"}
Schedules == {"daily", "unsupported"}

VARIABLES
  definition,  \* [schedule, active]
  execution,   \* sequence position -> [status, day, source, on]; "none" is free
  slot,        \* slots that have passed
  ticked,      \* replicas whose job has run in this slot
  excused, interrupted, reportCrashes

reportVars == <<definition, execution, slot, ticked, excused, interrupted, reportCrashes>>

ExecutionRows ==
  [status: ExecutionStatuses \cup {"none"}, source: {"manual", "scheduled", "analytics"},
   day: 0..MaxSlots, on: ReportReplicas \cup {NoReplica}]
NoExecution == [status |-> "none", source |-> "manual", day |-> 0, on |-> NoReplica]
Executions == 1..MaxExecutions

Day == slot \div SlotsPerDay

\* An execution that is in no replica's memory is over, unless interrupted.
ReportRunsTypeOK ==
  /\ definition \in [schedule: Schedules, active: BOOLEAN]
  /\ execution \in [Executions -> ExecutionRows]
  /\ \A e \in Executions :
       execution[e].on = NoReplica => execution[e].status \in {"none", "complete", "failed"} \/ e \in interrupted
  /\ slot \in 0..MaxSlots
  /\ ticked \subseteq ReportReplicas
  /\ excused \subseteq 0..MaxSlots /\ interrupted \subseteq Executions
  /\ reportCrashes \in 0..MaxReportCrashes

ReportRunsInit ==
  /\ definition = [schedule |-> "daily", active |-> TRUE]
  /\ execution = [e \in Executions |-> NoExecution]
  /\ slot = 0 /\ ticked = {} /\ excused = {} /\ interrupted = {} /\ reportCrashes = 0

-----------------------------------------------------------------------------
\* isCronDue: within the first five minutes of the hours of the expressions it
\* knows; any other expression is never due.
CronDue(schedule) == schedule = "daily" /\ slot % SlotsPerDay = 0

\* triggerReport: the row, and the execution in the memory of replica r;
\* requestReport stores its report as one that is being generated.
FreeExecutions == {e \in Executions : execution[e].status = "none"}
Stored(r, source) ==
  LET e == CHOOSE e \in FreeExecutions : \A f \in FreeExecutions : e <= f
  IN  [execution EXCEPT ![e] = [status |-> IF source = "analytics" THEN "running" ELSE "pending",
                                source |-> source, day |-> Day, on |-> r]]

TriggerReport(r, source) ==
  /\ FreeExecutions # {}
  /\ execution' = Stored(r, source)
  /\ UNCHANGED <<definition, slot, ticked, excused, interrupted, reportCrashes>>

\* runScheduledReports: one job per slot and replica.
RunScheduledReports(r) ==
  /\ r \notin ticked
  /\ ticked' = ticked \cup {r}
  /\ IF definition.active /\ CronDue(definition.schedule)
       THEN FreeExecutions # {} /\ execution' = Stored(r, "scheduled")
       ELSE UNCHANGED execution
  /\ UNCHANGED <<definition, slot, excused, interrupted, reportCrashes>>

\* The definition is stored anew, with another schedule or inactive.
SetDefinition(schedule, active) ==
  /\ definition # [schedule |-> schedule, active |-> active]
  /\ definition' = [schedule |-> schedule, active |-> active]
  /\ excused' = excused \cup {Day}
  /\ UNCHANGED <<execution, slot, ticked, interrupted, reportCrashes>>

\* Five minutes pass; a replica whose job was late has missed the slot.
NextSlot ==
  /\ slot < MaxSlots
  /\ slot' = slot + 1
  /\ ticked' = {}
  /\ excused' = excused \cup (IF ticked # ReportReplicas \/ ~definition.active \/ definition.schedule # "daily"
                                THEN {Day} ELSE {})
  /\ UNCHANGED <<definition, execution, interrupted, reportCrashes>>

-----------------------------------------------------------------------------
\* runExecution: RUNNING ...
StartExecution(e) ==
  /\ execution[e].status = "pending" /\ execution[e].on # NoReplica
  /\ execution' = [execution EXCEPT ![e].status = "running"]
  /\ UNCHANGED <<definition, slot, ticked, excused, interrupted, reportCrashes>>

\* ... and COMPLETE, or FAILED with the message of what was thrown.
Outcomes == {"complete", "failed"}

FinishExecution(e) ==
  /\ execution[e].status = "running" /\ execution[e].on # NoReplica
  /\ \E outcome \in Outcomes :
       execution' = [execution EXCEPT ![e].status = outcome, ![e].on = NoReplica]
  /\ UNCHANGED <<definition, slot, ticked, excused, interrupted, reportCrashes>>

\* A replica stops and starts again: what it was executing stays as it is.
CrashOfReports(r) ==
  LET taken == {e \in Executions : execution[e].on = r}
  IN  /\ reportCrashes < MaxReportCrashes
      /\ reportCrashes' = reportCrashes + 1
      /\ interrupted' = interrupted \cup taken
      /\ execution' = [e \in Executions |-> IF e \in taken THEN [execution[e] EXCEPT !.on = NoReplica] ELSE execution[e]]
      /\ UNCHANGED <<definition, slot, ticked, excused>>

ExecutionStep(e) == StartExecution(e) \/ FinishExecution(e)

ReportRunsNext ==
  \/ \E r \in ReportReplicas :
       \/ RunScheduledReports(r) \/ CrashOfReports(r)
       \/ \E source \in {"manual", "analytics"} : TriggerReport(r, source)
  \/ \E schedule \in Schedules, active \in BOOLEAN : SetDefinition(schedule, active)
  \/ NextSlot
  \/ \E e \in Executions : StartExecution(e) \/ FinishExecution(e)

ReportRunsSpec == ReportRunsInit /\ [][ReportRunsNext]_reportVars /\ \A e \in Executions : WF_reportVars(ExecutionStep(e))

-----------------------------------------------------------------------------
ScheduledOn(day) == {e \in Executions : execution[e].status # "none" /\ execution[e].source = "scheduled" /\ execution[e].day = day}

\* A definition is executed at most once a day by each replica: the window of
\* isCronDue and the period of the job fit (reporting.service.ts:473-537).
OncePerReplica == \A day \in 0..Day : Cardinality(ScheduledOn(day)) <= Cardinality(ReportReplicas)

\* No day passes without the report: when every replica's job ran in time
\* there is an execution (reporting.service.ts:473-537), for the schedules
\* that isCronDue knows and as long as the definition is active.
NoDayIsMissed == \A day \in 0..Day : day < Day => ScheduledOn(day) # {} \/ day \in excused

UnderWay == {e \in Executions : execution[e].status \in {"pending", "running"}} \ interrupted

\* An execution that was triggered completes or fails
\* (reporting.service.ts:163-216, analytics.service.ts:1163-1185), unless the
\* replica stopped, after which nothing takes it up again.
ExecutionSettles == UnderWay = {}

=============================================================================
