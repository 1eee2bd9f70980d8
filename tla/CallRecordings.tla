--------------------------- MODULE CallRecordings ---------------------------
(***************************************************************************)
(* The recordings of one call: the rows of the backend                     *)
(* (src/apps/backend/src/modules/calls/services/calls.service.ts,          *)
(* call-recording-events.service.ts, call-recording-retention.service.ts), *)
(* the pipelines of the media server                                       *)
(* (src/apps/media/src/recording/recording-manager.ts, media-server.ts)    *)
(* and the commands and events between them.                               *)
(*                                                                         *)
(* Commands reach the media server in order, but it starts the next while  *)
(* one still waits; the backend handles several events at once.  A command *)
(* or event that is published while nobody is connected is gone.           *)
(*                                                                         *)
(* gapMet holds the recordings that met a known gap: a stop that came      *)
(* while the start still made its directory, a second stop, a row saved    *)
(* from an outdated copy, events handled in the wrong order.               *)
(***************************************************************************)
EXTENDS Naturals, Sequences, FiniteSets

CONSTANTS
  MaxRecordings,  \* bound: recordings
  MaxFaults       \* bound: lost messages and crashes of the media server

ASSUME CallRecordingsAssumption == MaxRecordings \in Nat /\ MaxFaults \in Nat

Recordings == 1..MaxRecordings

VARIABLES
  recording,    \* recording -> status of its row, "none" before
  artifact,     \* the recordings whose archive is in the object storage
  callEnded,    \* the call has ended
  starting,     \* startRecording calls that passed the check, not yet saved
  stopping,     \* recordings a stopRecording call has loaded, not yet saved
  command,      \* commands on their way to the media server
  recordingEvent,  \* events on their way to the backend
  inMedia,      \* the media server has the session
  pipeline,     \* recording -> its start: "none", "mkdir", "tracks" or "running"
  recordingsById, recordingIdBySessionId,
  stops,        \* recording -> stopRecording calls running in the media server
  faults,       \* faults so far
  gapMet

recordingVars == <<recording, artifact, callEnded, starting, stopping, command, recordingEvent, inMedia, pipeline,
                   recordingsById, recordingIdBySessionId, stops, faults, gapMet>>
backendRecordingVars == <<recording, callEnded, starting, stopping>>
mediaRecordingVars == <<inMedia, pipeline, recordingsById, recordingIdBySessionId, stops>>

RecordingStatus == {"none", "recording", "processing", "ready", "failed", "deleted"}
Command == {<<"start", n>> : n \in Recordings} \cup {<<"stop", n>> : n \in Recordings} \cup {<<"end", 0>>}
RecordingEvent == {"started", "ready", "failed"} \X Recordings

CallRecordingsTypeOK ==
  /\ recording \in [Recordings -> RecordingStatus]
  /\ artifact \cup stopping \cup recordingsById \cup gapMet \subseteq Recordings
  /\ callEnded \in BOOLEAN /\ starting \in 0..2
  /\ command \in Seq(Command)
  /\ recordingEvent \subseteq RecordingEvent
  /\ inMedia \in BOOLEAN
  /\ pipeline \in [Recordings -> {"none", "mkdir", "tracks", "running"}]
  /\ recordingIdBySessionId \in 0..MaxRecordings
  /\ recordingIdBySessionId # 0 => recordingIdBySessionId \in recordingsById
  /\ stops \in [Recordings -> Nat]
  /\ faults \in 0..MaxFaults

CallRecordingsInit ==
  /\ recording = [n \in Recordings |-> "none"] /\ artifact = {} /\ callEnded = FALSE
  /\ starting = 0 /\ stopping = {} /\ command = <<>> /\ recordingEvent = {}
  /\ inMedia = TRUE /\ pipeline = [n \in Recordings |-> "none"]
  /\ recordingsById = {} /\ recordingIdBySessionId = 0 /\ stops = [n \in Recordings |-> 0]
  /\ faults = 0 /\ gapMet = {}

-----------------------------------------------------------------------------
(* The backend. *)

Unused == {n \in Recordings : recording[n] = "none"}

\* startRecording: an active call without a recording.
StartRecording ==
  /\ ~callEnded /\ starting < 2 /\ starting < Cardinality(Unused)
  /\ \A n \in Recordings : recording[n] # "recording"
  /\ starting' = starting + 1
  /\ UNCHANGED <<recording, artifact, callEnded, stopping, command, recordingEvent, mediaRecordingVars, faults, gapMet>>

\* The row is saved and the command published.
SaveRecording ==
  /\ starting > 0
  /\ LET n == CHOOSE n \in Unused : \A m \in Unused : n <= m
     IN  /\ recording' = [recording EXCEPT ![n] = "recording"]
         /\ command' = Append(command, <<"start", n>>)
         /\ gapMet' = IF callEnded THEN gapMet \cup {n} ELSE gapMet
  /\ starting' = starting - 1
  /\ UNCHANGED <<artifact, callEnded, stopping, recordingEvent, mediaRecordingVars, faults>>

\* stopRecording, by the moderator.
StopRecording(n) ==
  /\ recording[n] = "recording" /\ n \notin stopping
  /\ stopping' = stopping \cup {n}
  /\ UNCHANGED <<recording, artifact, callEnded, starting, command, recordingEvent, mediaRecordingVars, faults, gapMet>>

SaveStopped(n) ==
  /\ n \in stopping
  /\ stopping' = stopping \ {n}
  /\ recording' = [recording EXCEPT ![n] = "processing"]
  /\ gapMet' = IF recording[n] = "recording" THEN gapMet ELSE gapMet \cup {n}
  /\ command' = Append(command, <<"stop", n>>)
  /\ UNCHANGED <<artifact, callEnded, starting, recordingEvent, mediaRecordingVars, faults>>

\* endCall stops what is being recorded, in the order the query finds it, and ends
\* the session.
EndRecordedCall ==
  /\ ~callEnded
  /\ callEnded' = TRUE
  /\ LET active == {n \in Recordings : recording[n] = "recording"}
     IN  /\ recording' = [n \in Recordings |-> IF n \in active THEN "processing" ELSE recording[n]]
         /\ \E order \in [1..Cardinality(active) -> active] :
              /\ \A n \in active : \E i \in DOMAIN order : order[i] = n
              /\ command' = command \o [i \in DOMAIN order |-> <<"stop", order[i]>>] \o <<<<"end", 0>>>>
  /\ UNCHANGED <<artifact, starting, stopping, recordingEvent, mediaRecordingVars, faults, gapMet>>

InOrder(e) ==
  \/ recording[e[2]] = "recording" /\ e[1] \in {"started", "failed"}
  \/ recording[e[2]] = "processing" /\ e[1] \in {"ready", "failed"}

\* markRecordingStarted, markRecordingReady and markRecordingFailed, whatever the
\* status is.
HandleRecordingEvent(e) ==
  /\ e \in recordingEvent
  /\ LET n == e[2]
     IN  /\ recording' = [recording EXCEPT ![n] = IF e[1] = "started" THEN "recording" ELSE e[1]]
         /\ gapMet' = IF InOrder(e) THEN gapMet ELSE gapMet \cup {n}
  /\ recordingEvent' = recordingEvent \ {e}
  /\ UNCHANGED <<artifact, callEnded, starting, stopping, command, mediaRecordingVars, faults>>

\* runRetentionCleanup, for a recording that has expired and of which nothing is
\* under way any more: it deletes what is stored under storageKey.
PurgeExpiredRecording(n) ==
  /\ recording[n] \notin {"none", "deleted"}
  /\ n \notin stopping /\ n \notin recordingsById /\ pipeline[n] \notin {"mkdir", "tracks"} /\ stops[n] = 0
  /\ \A e \in recordingEvent : e[2] # n
  /\ \A i \in DOMAIN command : command[i][2] # n
  /\ artifact' = IF recording[n] = "ready" THEN artifact \ {n} ELSE artifact
  /\ recording' = [recording EXCEPT ![n] = "deleted"]
  /\ UNCHANGED <<callEnded, starting, stopping, command, recordingEvent, mediaRecordingVars, faults, gapMet>>

-----------------------------------------------------------------------------
(* The media server. *)

PublishRecordingEvent(type, n) == recordingEvent' = recordingEvent \cup {<<type, n>>}

\* A stop counts each time it runs; one that finds nothing changes nothing.
BeginStop(n) ==
  /\ stops' = [stops EXCEPT ![n] = @ + 1]
  /\ gapMet' = IF stops[n] > 0 THEN gapMet \cup {n} ELSE gapMet

\* handleBackendCommand.
HandleStart(n) ==
  IF ~inMedia \/ n \in recordingsById \/ recordingIdBySessionId # 0
    THEN PublishRecordingEvent("failed", n) /\ UNCHANGED <<mediaRecordingVars, gapMet>>
    ELSE /\ pipeline' = [pipeline EXCEPT ![n] = "mkdir"]
         /\ UNCHANGED <<recordingEvent, inMedia, recordingsById, recordingIdBySessionId, stops, gapMet>>

HandleStop(n) ==
  /\ IF n \in recordingsById THEN BeginStop(n) ELSE UNCHANGED stops /\ gapMet' = gapMet \cup {n}
  /\ UNCHANGED <<recordingEvent, inMedia, pipeline, recordingsById, recordingIdBySessionId>>

\* stopRecordingBySession, then endSession.
HandleEnd ==
  /\ IF recordingIdBySessionId # 0 THEN BeginStop(recordingIdBySessionId) ELSE UNCHANGED <<stops, gapMet>>
  /\ inMedia' = FALSE
  /\ UNCHANGED <<recordingEvent, pipeline, recordingsById, recordingIdBySessionId>>

HandleBackendCommand ==
  /\ command # <<>>
  /\ command' = Tail(command)
  /\ LET c == Head(command)
     IN  \/ c[1] = "start" /\ HandleStart(c[2])
         \/ c[1] = "stop" /\ HandleStop(c[2])
         \/ c[1] = "end" /\ HandleEnd
  /\ UNCHANGED <<backendRecordingVars, artifact, faults>>

\* startRecording after mkdir: registered, and its tracks are started.
RegisterRecording(n) ==
  /\ pipeline[n] = "mkdir"
  /\ pipeline' = [pipeline EXCEPT ![n] = "tracks"]
  /\ recordingsById' = recordingsById \cup {n}
  /\ recordingIdBySessionId' = n
  /\ gapMet' = IF recordingIdBySessionId # 0 THEN gapMet \cup {n, recordingIdBySessionId} ELSE gapMet
  /\ UNCHANGED <<backendRecordingVars, artifact, command, recordingEvent, inMedia, stops, faults>>

\* The tracks have settled; the start is reported.
TracksStarted(n) ==
  /\ pipeline[n] = "tracks"
  /\ pipeline' = [pipeline EXCEPT ![n] = "running"]
  /\ PublishRecordingEvent("started", n)
  /\ gapMet' = IF n \in recordingsById THEN gapMet ELSE gapMet \cup {n}
  /\ UNCHANGED <<backendRecordingVars, artifact, command, inMedia, recordingsById, recordingIdBySessionId, stops, faults>>

\* The maps forget the recording, and the session's current one.
Deregister(n) ==
  /\ recordingsById' = recordingsById \ {n}
  /\ recordingIdBySessionId' = 0
  /\ stops' = [stops EXCEPT ![n] = @ - 1]

\* stopRecording: tracks stopped, archived and uploaded, then reported.
FinishRecording(n) ==
  /\ stops[n] > 0
  /\ Deregister(n)
  /\ artifact' = artifact \cup {n}
  /\ PublishRecordingEvent("ready", n)
  /\ UNCHANGED <<backendRecordingVars, command, inMedia, pipeline, faults, gapMet>>

\* failRecording.
FailRecording(n) ==
  /\ stops[n] > 0
  /\ Deregister(n)
  /\ PublishRecordingEvent("failed", n)
  /\ UNCHANGED <<backendRecordingVars, artifact, command, inMedia, pipeline, faults, gapMet>>

-----------------------------------------------------------------------------
Fault == faults < MaxFaults /\ faults' = faults + 1

\* The media server restarts: its memory and its exclusive queue are gone.
MediaCrash ==
  /\ Fault
  /\ inMedia' = FALSE /\ pipeline' = [n \in Recordings |-> "none"]
  /\ recordingsById' = {} /\ recordingIdBySessionId' = 0 /\ stops' = [n \in Recordings |-> 0]
  /\ command' = <<>>
  /\ UNCHANGED <<backendRecordingVars, artifact, recordingEvent, gapMet>>

LoseCommand ==
  /\ Fault
  /\ command # <<>>
  /\ command' = Tail(command)
  /\ UNCHANGED <<backendRecordingVars, artifact, recordingEvent, mediaRecordingVars, gapMet>>

LoseEvent(e) ==
  /\ Fault
  /\ e \in recordingEvent
  /\ recordingEvent' = recordingEvent \ {e}
  /\ UNCHANGED <<backendRecordingVars, artifact, command, mediaRecordingVars, gapMet>>

PipelineStep(n) == RegisterRecording(n) \/ TracksStarted(n) \/ FinishRecording(n) \/ FailRecording(n)

\* What goes on without a user: calls finish, messages and pipelines move on.
RecordingStep ==
  \/ SaveRecording \/ HandleBackendCommand
  \/ \E n \in Recordings : SaveStopped(n) \/ PipelineStep(n)
  \/ \E e \in recordingEvent : HandleRecordingEvent(e)

CallRecordingsNext ==
  \/ RecordingStep
  \/ StartRecording \/ EndRecordedCall
  \/ \E n \in Recordings : StopRecording(n) \/ PurgeExpiredRecording(n)
  \/ \E e \in recordingEvent : LoseEvent(e)
  \/ MediaCrash \/ LoseCommand

CallRecordingsSpec == CallRecordingsInit /\ [][CallRecordingsNext]_recordingVars /\ WF_recordingVars(RecordingStep)

-----------------------------------------------------------------------------
\* A recording that is offered for download is in the object storage
\* (calls.service.ts:421-427, recording-manager.ts:206-219).
ReadyHasArtifact == \A n \in Recordings : recording[n] = "ready" => n \in artifact

\* Whatever was stopped becomes ready or failed, unless a message was lost, the
\* media server restarted or one of the known gaps was met, and when the call has
\* ended, so does its recording (recording-manager.ts:126-236,
\* calls.service.ts:185-211, media-server.ts:189-199).
RecordingsSettled ==
  \A n \in Recordings :
    recording[n] = "processing" \/ (callEnded /\ n \in recordingsById) => faults > 0 \/ n \in gapMet
=============================================================================
