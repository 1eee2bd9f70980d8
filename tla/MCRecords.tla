----------------------------- MODULE MCRecords ------------------------------
(***************************************************************************)
(* Model for TLC of what people write and keep: chat, notifications, calls *)
(* and their recordings, files, search entries, map layers, models and     *)
(* predictions, forms and reports, and of the gateway that hands events    *)
(* to them, explored side by side (see MCPeople).                          *)
(***************************************************************************)
EXTENDS Chat, Notifications, Calls,
  CallRecordings, FileCatalog, SearchIndex, SpatialLayers, MlService,
  Analytics, EdgeGateway, TLC

CONSTANTS s1, s2, s3, c1, c2, r1, r2

\* No module tells the calls in progress, the requests for a notification or the replicas
\* of the gateway apart.
MCSymmetry == Permutations({c1, c2}) \cup Permutations({r1, r2})

\* Nothing, a number, and texts that a file format has to protect.
MCCellValues ==
  LET value(null, number, text) == [null |-> null, number |-> number, text |-> text]
  IN  {value(TRUE, FALSE, <<>>), value(FALSE, TRUE, <<"7">>)} \cup
      {value(FALSE, FALSE, text) : text \in {<<"a">>, <<"b">>, <<"0", "7">>, <<"a", Comma>>, <<Quote, "a">>,
                                              <<Comma, Quote>>, <<"&", LineFeed>>}}

MCParticipantOf == (s1 :> "anna" @@ s2 :> "anna" @@ s3 :> "boris")
MCEdgeUserOf == (s1 :> "anna" @@ s2 :> "anna")

VARIABLE part

allVars == <<part, chatVars, channelVars, noteVars, callVars, mediaVars, recordingVars,
  folderVars, accessVars, searchVars, layerVars, registryVars, predictionVars, fieldVars, generatedVars,
  exportVars, edgeVars>>

MCInit ==
  /\ part \in {"messages", "channels", "notes", "calls", "media", "recordings", "folders",
       "access", "search", "layers", "models", "predictions", "forms", "generated", "exports", "edge"}
  /\ ChatMessagesInit /\ ChatChannelsInit /\ NotificationsInit /\ CallSessionsInit
  /\ MediaSessionsInit /\ CallRecordingsInit /\ FileFoldersInit /\ FileAccessInit
  /\ SearchIndexInit /\ SpatialLayersInit /\ ModelRegistryInit /\ RiskPredictionsInit
  /\ FieldWorkInit /\ GeneratedReportsInit /\ ReportExportsInit
  /\ EdgeGatewayInit

\* vars change only in the steps of part p.
Only(p, vars) == IF part = p THEN TRUE ELSE UNCHANGED vars

OthersWait ==
  /\ UNCHANGED part
  /\ Only("messages", chatVars)
  /\ Only("channels", channelVars)
  /\ Only("notes", noteVars)
  /\ Only("calls", callVars)
  /\ Only("media", mediaVars)
  /\ Only("recordings", recordingVars)
  /\ Only("folders", folderVars)
  /\ Only("access", accessVars)
  /\ Only("search", searchVars)
  /\ Only("layers", layerVars)
  /\ Only("models", registryVars)
  /\ Only("predictions", predictionVars)
  /\ Only("forms", fieldVars)
  /\ Only("generated", generatedVars)
  /\ Only("exports", exportVars)
  /\ Only("edge", edgeVars)

MCNext ==
  \/ part = "messages" /\ ChatMessagesNext /\ OthersWait
  \/ part = "channels" /\ ChatChannelsNext /\ OthersWait
  \/ part = "notes" /\ NotificationsNext /\ OthersWait
  \/ part = "calls" /\ CallSessionsNext /\ OthersWait
  \/ part = "media" /\ MediaSessionsNext /\ OthersWait
  \/ part = "recordings" /\ CallRecordingsNext /\ OthersWait
  \/ part = "folders" /\ FileFoldersNext /\ OthersWait
  \/ part = "access" /\ FileAccessNext /\ OthersWait
  \/ part = "search" /\ SearchIndexNext /\ OthersWait
  \/ part = "layers" /\ SpatialLayersNext /\ OthersWait
  \/ part = "models" /\ ModelRegistryNext /\ OthersWait
  \/ part = "predictions" /\ RiskPredictionsNext /\ OthersWait
  \/ part = "forms" /\ FieldWorkNext /\ OthersWait
  \/ part = "generated" /\ GeneratedReportsNext /\ OthersWait
  \/ part = "exports" /\ ReportExportsNext /\ OthersWait
  \/ part = "edge" /\ EdgeGatewayNext /\ OthersWait

MCSpec == MCInit /\ [][MCNext]_allVars

-----------------------------------------------------------------------------
\* The type invariants of the sixteen parts.
TypeOK ==
  /\ ChatMessagesTypeOK /\ ChatChannelsTypeOK /\ NotificationsTypeOK
  /\ CallSessionsTypeOK /\ MediaSessionsTypeOK /\ CallRecordingsTypeOK
  /\ FileFoldersTypeOK /\ FileAccessTypeOK
  /\ SearchIndexTypeOK /\ SpatialLayersTypeOK /\ ModelRegistryTypeOK /\ RiskPredictionsTypeOK
  /\ FieldWorkTypeOK /\ GeneratedReportsTypeOK /\ ReportExportsTypeOK
  /\ EdgeGatewayTypeOK

\* A reader misses no message, a retried one is stored once, a text once shown is
\* kept until its deletion and not after it; a channel has the members it was
\* made for and closes with its task; a notification gets its verdict and its
\* user one email in a period (chat.service.ts, chat-domain.listener.ts,
\* notification.service.ts). The edge gateway hands every event to the sockets it is for
\* while a replica takes it, and shows a user online who has a socket (gateway.ts).
MessagesAreKept ==
  /\ ReaderMissesNothing /\ OneMessagePerKey /\ ContentIsKept /\ DeletedHasNoContent
  /\ DirectMeansTwo /\ CreatedWithMembers /\ FinishedTaskIsReadOnly
  /\ EmailsAreThrottled /\ HandledIsDecided
  /\ EdgeDelivers /\ EdgePresenceAgrees

\* The rows of a call and the sessions of the media server agree with who is
\* connected, and a recording that is offered exists (calls.service.ts,
\* session-manager.ts, recording-manager.ts).
CallsAreConsistent ==
  CallHasPlace /\ NoGhosts /\ ConnectedHasPlace /\ EmptySessionIsClosed /\ ReadyHasArtifact

\* Files are in live folders, the closure says where those lie, nothing is
\* classified lower than what it lies in, and only those last allowed to may
\* read (files.service.ts).
FilesAreGuarded ==
  /\ part = "folders" => ClosureIsAncestry
  /\ ClassificationDescends /\ FileIsReachable /\ LastDecisionCounts

\* What is derived from other rows agrees with them: search entries, the counts
\* and extents of layers, generated reports, their files, and the periods of
\* metrics (search-indexing.listener.ts, gis.service.ts, analytics.service.ts).
DerivedAgrees ==
  /\ RecordIsFound /\ WithdrawnTextIsNotFound /\ CountIsRight /\ ExtentCovers
  /\ ReportsAreSettled
  /\ part = "exports" => ExportsReadBack /\ PeriodsHoldTheirDays

\* What a model produced is shown only after people approved it, once, and a model
\* has one version in production (gis.service.ts, ml.service.ts).
OutputWasApproved ==
  ShownWasApproved /\ PublishedWasApproved /\ PublishedOnce /\ OneProduction /\ ProductionIsKept

\* Nothing that was settled is taken back: a review, a receipt, the end of a
\* participation, a revoked subscription, the return of a resource; and a rollback
\* restores only what was staged (gis.service.ts, ml.service.ts, chat.service.ts,
\* calls.service.ts, notification.service.ts, analytics.service.ts).
DecisionsStand ==
  /\ ReviewIsFinal /\ DecisionStands /\ RestoredWasStaged
  /\ ReceiptsAdvance /\ LeftStaysLeft /\ RevokedStaysRevoked
  /\ WithdrawalStands

=============================================================================
