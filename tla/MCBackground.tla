---------------------------- MODULE MCBackground ----------------------------
(***************************************************************************)
(* Model for TLC of what goes on without anybody waiting for it: timers,   *)
(* caches with a time to live, reconnects, scans, listeners and            *)
(* schedulers, and the queue of the field application, explored side by    *)
(* side (see MCPeople). The liveness properties are about these.           *)
(***************************************************************************)
EXTENDS TaskDeadlines, AccountsAndRoles, RealtimeGateway,
  CallRecordings, FileVersions, Incidents, DailyJobs,
  OfflineQueue, Pipelines, TLC

CONSTANTS
  c1, c2, s1, s2, l1, l2,
  ldapIvan, samlIrina, samlOleg, u1, u2, chief, clerk, hq, unit, f1, f2

MCEmailOf == (ldapIvan :> "i@a" @@ samlIrina :> "i@b" @@ samlOleg :> "o@b")
MCLocalPart == ("i@a" :> "i" @@ "i@b" :> "i" @@ "o@b" :> "o")
MCRoles ==
  LET row(permits) == [exists |-> TRUE, permits |-> permits, system |-> FALSE, parent |-> NoRole]
  IN  (chief :> row(TRUE) @@ clerk :> [row(FALSE) EXCEPT !.parent = chief])
MCGrants ==
  [n \in 1..MaxGrants |-> IF n = 1 THEN [user |-> u1, role |-> chief, scope |-> hq, status |-> "active"]
                                   ELSE [user |-> u1, role |-> clerk, scope |-> hq, status |-> "absent"]]
MCDeptParent == (hq :> hq @@ unit :> hq)
MCPostDept == (u1 :> hq @@ u2 :> unit)
MCInstanceOf == (s1 :> "gateway1" @@ s2 :> "gateway2")

MCFiles == (1 :> {f1, f2} @@ 2 :> {f2})

VARIABLE part

backgroundVars == <<part, deadlineVars, accountVars, roleVars, gatewayVars, fanoutVars,
  recordingVars, fileVars, incidentVars, auditVars, reportVars, queueVars>>
pipelineVars == <<etlVars, ingestVars, boundaryVars, zoneVars>>

allVars == <<backgroundVars, pipelineVars>>

MCInit ==
  /\ part \in {"deadlines", "accounts", "roles", "gateway", "fanout", "recordings", "files",
       "incidents", "audit", "reports", "queue", "etl", "ingest", "boundaries", "zones"}
  /\ TaskDeadlinesInit /\ AccountsInit /\ RoleGrantsInit /\ RealtimeGatewayInit
  /\ GatewayFanoutInit /\ CallRecordingsInit /\ FileVersionsInit /\ IncidentsInit
  /\ AuditTrailInit /\ ReportRunsInit /\ OfflineQueueInit
  /\ EtlInit /\ IngestInit /\ BoundariesInit /\ ZonesInit

AmongDeadlines(A) ==
  /\ part = "deadlines" /\ A
  /\ UNCHANGED <<part, accountVars, roleVars, gatewayVars, fanoutVars, recordingVars,
       fileVars, incidentVars, auditVars, reportVars, queueVars>>
AmongAccounts(A) ==
  /\ part = "accounts" /\ A
  /\ UNCHANGED <<part, deadlineVars, roleVars, gatewayVars, fanoutVars, recordingVars,
       fileVars, incidentVars, auditVars, reportVars, queueVars>>
AmongRoles(A) ==
  /\ part = "roles" /\ A
  /\ UNCHANGED <<part, deadlineVars, accountVars, gatewayVars, fanoutVars, recordingVars,
       fileVars, incidentVars, auditVars, reportVars, queueVars>>
AmongGateway(A) ==
  /\ part = "gateway" /\ A
  /\ UNCHANGED <<part, deadlineVars, accountVars, roleVars, fanoutVars, recordingVars,
       fileVars, incidentVars, auditVars, reportVars, queueVars>>
AmongFanout(A) ==
  /\ part = "fanout" /\ A
  /\ UNCHANGED <<part, deadlineVars, accountVars, roleVars, gatewayVars, recordingVars,
       fileVars, incidentVars, auditVars, reportVars, queueVars>>
AmongRecordings(A) ==
  /\ part = "recordings" /\ A
  /\ UNCHANGED <<part, deadlineVars, accountVars, roleVars, gatewayVars, fanoutVars,
       fileVars, incidentVars, auditVars, reportVars, queueVars>>
AmongFiles(A) ==
  /\ part = "files" /\ A
  /\ UNCHANGED <<part, deadlineVars, accountVars, roleVars, gatewayVars, fanoutVars,
       recordingVars, incidentVars, auditVars, reportVars, queueVars>>
AmongIncidents(A) ==
  /\ part = "incidents" /\ A
  /\ UNCHANGED <<part, deadlineVars, accountVars, roleVars, gatewayVars, fanoutVars,
       recordingVars, fileVars, auditVars, reportVars, queueVars>>
AmongAudit(A) ==
  /\ part = "audit" /\ A
  /\ UNCHANGED <<part, deadlineVars, accountVars, roleVars, gatewayVars, fanoutVars,
       recordingVars, fileVars, incidentVars, reportVars, queueVars>>
AmongReports(A) ==
  /\ part = "reports" /\ A
  /\ UNCHANGED <<part, deadlineVars, accountVars, roleVars, gatewayVars, fanoutVars,
       recordingVars, fileVars, incidentVars, auditVars, queueVars>>
AmongQueue(A) ==
  /\ part = "queue" /\ A
  /\ UNCHANGED <<part, deadlineVars, accountVars, roleVars, gatewayVars, fanoutVars,
       recordingVars, fileVars, incidentVars, auditVars, reportVars>>

\* p is the part of a pipeline.
AmongPipelines(p, A) ==
  /\ part = p /\ A
  /\ UNCHANGED backgroundVars
  /\ IF p = "etl" THEN TRUE ELSE UNCHANGED etlVars
  /\ IF p = "ingest" THEN TRUE ELSE UNCHANGED ingestVars
  /\ IF p = "boundaries" THEN TRUE ELSE UNCHANGED boundaryVars
  /\ IF p = "zones" THEN TRUE ELSE UNCHANGED zoneVars

BackgroundNext ==
  \/ AmongDeadlines(TaskDeadlinesNext)
  \/ AmongAccounts(AccountsNext)
  \/ AmongRoles(RoleGrantsNext)
  \/ AmongGateway(RealtimeGatewayNext)
  \/ AmongFanout(GatewayFanoutNext)
  \/ AmongRecordings(CallRecordingsNext)
  \/ AmongFiles(FileVersionsNext)
  \/ AmongIncidents(IncidentsNext)
  \/ AmongAudit(AuditTrailNext)
  \/ AmongReports(ReportRunsNext)
  \/ AmongQueue(OfflineQueueNext)

PipelinesNext ==
  \/ AmongPipelines("etl", EtlNext)
  \/ AmongPipelines("ingest", IngestNext)
  \/ AmongPipelines("boundaries", BoundariesNext)
  \/ AmongPipelines("zones", ZonesNext)

MCNext == (BackgroundNext /\ UNCHANGED pipelineVars) \/ PipelinesNext

\* The fairness that the modules state for their own specifications.  The parts
\* exclude each other, so what is fair is "process k of the part being explored".
MCProcesses == <<c1, c2>>
MCIdentities == <<ldapIvan, samlIrina, samlOleg>>
MCJobs == <<"overdue", "tier3", "tier4">>
MCKeys == <<<<u1, hq>>, <<u1, unit>>, <<u2, hq>>, <<u2, unit>>>>
MCLinks == <<l1, l2>>
MCSockets == <<s1, s2>>
MCHandlers ==
  <<<<s1, "connect">>, <<s1, "disconnect">>, <<s1, "heartbeat">>, <<s1, "set">>,
    <<s2, "connect">>, <<s2, "disconnect">>, <<s2, "heartbeat">>, <<s2, "set">>>>

FairStep(k) ==
  \/ k \in 1..3 /\ AmongDeadlines(\E r \in Replicas : JobStep(r, MCJobs[k]))
  \/ k = 4 /\ AmongDeadlines(OnTaskOverdue)
  \/ k \in 1..3 /\ AmongAccounts(SignInStep(MCIdentities[k]))
  \/ k \in 1..2 /\ AmongRoles(RoleCallStep(MCProcesses[k]))
  \/ k \in 3..6 /\ AmongRoles(DecisionExpires(MCKeys[k - 2]))
  \/ k \in DOMAIN MCHandlers /\ AmongGateway(HandlerStep(MCHandlers[k]))
  \/ k \in 9..10 /\ AmongGateway(OnHeartbeat(MCSockets[k - 8]))
  \/ k = 11 /\ AmongGateway(RegistryExpires)
  \/ k = 12 /\ AmongGateway(PresenceExpires)
  \/ k \in 1..2 /\ AmongFanout(Connect(MCLinks[k]))
  \/ k \in 3..4 /\ AmongFanout(Consume(MCLinks[k - 2]))
  \/ k = 1 /\ AmongRecordings(RecordingStep)
  \/ k \in 1..2 /\ AmongFiles(ScanStep(MCProcesses[k]))
  \/ k \in 1..2 /\ AmongIncidents(IncidentHandlerStep(MCProcesses[k]))
  \/ k \in 1..2 /\ AmongAudit(ArchiverStep(MCProcesses[k]))
  \/ k \in Executions /\ AmongReports(ExecutionStep(k))
  \/ k \in 1..2 /\ AmongQueue(DrainStep(MCProcesses[k]))
  \/ k = 3 /\ AmongQueue(RequestStep)

MCFairness == \A k \in 1..12 : WF_backgroundVars(FairStep(k))

MCSpec == MCInit /\ [][MCNext]_allVars /\ MCFairness

-----------------------------------------------------------------------------
\* The type invariants of the fifteen parts.
TypeOK ==
  /\ TaskDeadlinesTypeOK /\ AccountsTypeOK /\ RoleGrantsTypeOK /\ RealtimeGatewayTypeOK
  /\ GatewayFanoutTypeOK /\ CallRecordingsTypeOK /\ FileVersionsTypeOK /\ IncidentsTypeOK
  /\ AuditTrailTypeOK /\ ReportRunsTypeOK /\ OfflineQueueTypeOK
  /\ EtlTypeOK /\ IngestTypeOK /\ BoundariesTypeOK /\ ZonesTypeOK

\* What several instances read and write back is right: who is present, the events
\* of a room once and in order, and that a grant has its role
\* (realtime.gateway.ts, rabbitmq-gateway.consumer.ts, authorization.service.ts).
SharedStateIsRight == PresenceIsRight /\ OnceAndInOrder /\ GrantsHaveRoles

\* A row and its object in the store agree: what can be downloaded was scanned,
\* versions and recordings have their objects, and an infected file has none
\* (files.service.ts, recording-manager.ts).
ObjectsAgree ==
  DownloadableWasScanned /\ VersionHasObject /\ QuarantineIsComplete /\ NextVersionIsFree /\ ReadyHasArtifact

\* What a listener or a scheduler does happens once and leaves nothing out: the end
\* of an incident, the archive of the audit trail, the reports of a day
\* (analytics.service.ts, siem-export.service.ts, reporting.service.ts);
\* and what a pipeline brings in is all there, but for what its code lets go: rows of
\* the analytical store, features of uploaded files, boundaries, hazard zones
\* (analytics_loader.py, spatial_ingest_dag.py, boundary_refresh_dag.py,
\* hazard_zone_refresh_dag.py).
BackgroundWorkIsDoneOnce ==
  /\ ResolvedOnce /\ NothingIsLost /\ ArchivedOnce /\ OncePerReplica /\ NoDayIsMissed
  /\ StoreFollowsTheWatermark /\ FilesAreAccounted /\ BoundariesFollowTheSource /\ ClientsSeeTheZones

\* What was recorded of an incident stays, and only people take a finished one back
\* to work (analytics.service.ts).
FactsStay == RecordedFactsStay /\ OnlyPeopleReopen

\* Nothing stays undone for good: in every part the state in which its work is done
\* comes back again and again.  A passed deadline is flagged and then escalated,
\* every external identity gets its account, a revoked permission leaves the cache,
\* presence follows the sockets, the consumer comes back, recordings, scans,
\* incidents, the archive, executions of reports and the operations stored in the
\* field settle, although calls, jobs and messages fail.
WorkIsDone ==
  /\ part = "deadlines" => DeadlinesAttended
  /\ part = "accounts" => EveryIdentityGetsIn
  /\ part = "roles" => RevocationTakesEffect
  /\ part = "gateway" => PresenceIsCurrent
  /\ part = "fanout" => ConsumesAgain
  /\ part = "recordings" => RecordingsSettled
  /\ part = "files" => PendingIsJudged
  /\ part = "incidents" => ReportIsRegistered /\ ResolutionArrives
  /\ part = "audit" => OldEventsAreArchived
  /\ part = "reports" => ExecutionSettles
  /\ part = "queue" => WaitingIsTried

BackgroundSettles == []<>WorkIsDone
=============================================================================
