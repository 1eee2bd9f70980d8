------------------------------ MODULE MCPeople ------------------------------
(***************************************************************************)
(* Model for TLC of the work of people and of their authority: subtasks,   *)
(* assignments, deadlines, the execution of resolutions; sessions, second  *)
(* factors, positions and the org tree; and of the clients people use: the *)
(* streams of a call, the portal and the maps.                             *)
(*                                                                         *)
(* The modules share no state, so they are explored side by side: part     *)
(* says whose steps a behaviour takes, and the others keep their initial   *)
(* state. What is checked of them is stated by their own named properties, *)
(* which are gathered below by what they are about.                        *)
(***************************************************************************)
EXTENDS TaskWork, TaskDeadlines, EdmsExecution, Sessions,
  Organisation, MediaStreams, PortalClient, MapClient, TLC

CONSTANTS t1, t2, t3, t4, boss, anna, boris, e1, e2, c1, c2, g1, g2, u1

\* No module tells the calls in progress, the extensions or the sockets of the room apart.
MCSymmetry == Permutations({c1, c2}) \cup Permutations({g1, g2})

MCExistingTasks ==
  LET row(s, parent, depth) == [status |-> s, parent |-> parent, depth |-> depth]
  IN  (t1 :> row("in_progress", NoTask, 0) @@ t2 :> row("in_progress", t1, 1)
       @@ t3 :> row("in_progress", t1, 1) @@ t4 :> row("absent", NoTask, 0))
MCReportsTo == (boss :> Nobody @@ anna :> boss @@ boris :> boss)
MCHazardTypes == <<"flood">>
MCRoleOf == (e1 :> "primary" @@ e2 :> "primary")

VARIABLE part

allVars == <<part, subtaskVars, assignmentVars, deadlineVars, executionVars, termVars,
  sessionVars, mfaVars, userVars, orgVars, streamVars, threadVars, cookieVars, mapVars>>

MCInit ==
  /\ part \in {"subtasks", "assignments", "deadlines", "execution", "terms", "sessions", "mfa",
       "positions", "org", "streams", "thread", "cookies", "maps"}
  /\ SubtasksInit /\ TaskAssignmentsInit /\ TaskDeadlinesInit /\ EdmsExecutionInit /\ ExecutionTermsInit
  \* One assignment without a deadline, and one with the first day as its deadline.
  /\ term["primary"].deadline \in IF part = "terms" THEN {0, 1} ELSE {1}
  /\ SessionsInit /\ MfaInit /\ UserPositionsInit /\ OrgStructureInit
  /\ MediaStreamsInit /\ PortalThreadInit /\ PortalSessionInit /\ MapClientInit

\* vars change only in the steps of part p.
Only(p, vars) == IF part = p THEN TRUE ELSE UNCHANGED vars

OthersWait ==
  /\ UNCHANGED part
  /\ Only("subtasks", subtaskVars)
  /\ Only("assignments", assignmentVars)
  /\ Only("deadlines", deadlineVars)
  /\ Only("execution", executionVars)
  /\ Only("terms", termVars)
  /\ Only("sessions", sessionVars)
  /\ Only("mfa", mfaVars)
  /\ Only("positions", userVars)
  /\ Only("org", orgVars)
  /\ Only("streams", streamVars)
  /\ Only("thread", threadVars)
  /\ Only("cookies", cookieVars)
  /\ Only("maps", mapVars)

MCNext ==
  \/ part = "subtasks" /\ SubtasksNext /\ OthersWait
  \/ part = "assignments" /\ TaskAssignmentsNext /\ OthersWait
  \/ part = "deadlines" /\ TaskDeadlinesNext /\ OthersWait
  \/ part = "execution" /\ EdmsExecutionNext /\ OthersWait
  \/ part = "terms" /\ ExecutionTermsNext /\ OthersWait
  \/ part = "sessions" /\ SessionsNext /\ OthersWait
  \/ part = "mfa" /\ MfaNext /\ OthersWait
  \/ part = "positions" /\ UserPositionsNext /\ OthersWait
  \/ part = "org" /\ OrgStructureNext /\ OthersWait
  \/ part = "streams" /\ MediaStreamsNext /\ OthersWait
  \/ part = "thread" /\ PortalThreadNext /\ OthersWait
  \/ part = "cookies" /\ PortalSessionNext /\ OthersWait
  \/ part = "maps" /\ MapClientNext /\ OthersWait

MCSpec == MCInit /\ [][MCNext]_allVars

-----------------------------------------------------------------------------
\* The type invariants of the thirteen parts.
TypeOK ==
  /\ SubtasksTypeOK /\ TaskAssignmentsTypeOK /\ TaskDeadlinesTypeOK /\ EdmsExecutionTypeOK
  /\ ExecutionTermsTypeOK
  /\ SessionsTypeOK /\ MfaTypeOK /\ UserPositionsTypeOK /\ OrgStructureTypeOK
  /\ MediaStreamsTypeOK /\ PortalThreadTypeOK /\ PortalSessionTypeOK
  /\ MapClientTypeOK

\* Somebody always answers for a task, its parent reports what its subtasks do,
\* and the completion of the last assignment of a resolution is acted upon, after
\* all of them and not before; deadlines are those that were given or granted
\* (tasks.service.ts, resolution.service.ts).
WorkIsAccounted ==
  /\ ReportIsUnderWay /\ SomeoneAccountable /\ LastCompletionIsNoticed /\ AutoCompletionAfterAll
  /\ DeadlinesWereGranted

\* What gives somebody authority is consistent: a second factor comes with its
\* backup codes, an offboarded user holds no position, and the command chain ends
\* and records its changes (mfa.service.ts, users.service.ts, org.service.ts).
AuthorityIsConsistent ==
  EnabledHasBackupCodes /\ OffboardingReleases /\ CommandChainEnds /\ ChangesAreRecorded

\* What the clients keep agrees with the server once nothing is under way, but for
\* what they are known to lose: the streams and mutes of a call (media-client.ts), the
\* portal's thread (ChatThreadClient.tsx) and session (auth.ts), and the maps
\* (map-client, GisMapClient.tsx).
ClientsShowTheServer ==
  /\ StreamsAreShown /\ SpeakerIsShown /\ OwnMuteAgrees
  /\ ThreadAgrees /\ ReadWasShown /\ RoomIsTried /\ PortalSessionAgrees
  /\ ViewsShowTheirQuery /\ LayersFollowThePanel /\ ForecastsDoNotAge /\ ReviewIsOpen
  /\ PortalMapAgrees

=============================================================================
