------------------------------- MODULE Calls --------------------------------
(***************************************************************************)
(* Calls: the rows the backend keeps (calls.service.ts), and the sessions of*)
(* the media server (session-manager.ts, signaling-handler.ts), which know *)
(* nothing of each other but what events tell them.                        *)
(***************************************************************************)
EXTENDS Naturals, FiniteSets

(***************************************************************************)
(* One call and its participants as the backend keeps them                 *)
(* (src/apps/backend/src/modules/calls/services/calls.service.ts).         *)
(*                                                                         *)
(* Every operation on a participant loads its row and saves all of it      *)
(* later.  A refused call changes nothing and is not a step.               *)
(*                                                                         *)
(* crowded: two joins were between the count and the save at once.         *)
(* outdatedRows holds the users whose row was saved from an outdated copy. *)
(***************************************************************************)
CONSTANTS
  CallUsers,        \* users cleared for the call
  Initiator,        \* the one who starts it
  MaxParticipants,  \* call_sessions.max_participants
  CallOps,          \* concurrent service calls
  MaxCallOps        \* bound: service calls

ASSUME CallSessionsAssumption == Initiator \in CallUsers /\ MaxParticipants \in Nat \ {0} /\ MaxCallOps \in Nat

VARIABLES
  callStatus,   \* call_sessions.status
  participant,  \* user -> his row of call_participants
  callOp,       \* service call -> what it does next
  callOps,      \* service calls so far
  crowded, outdatedRows

callVars == <<callStatus, participant, callOp, callOps, crowded, outdatedRows>>

CallStatuses == {"active", "ended"}

CallParticipant == [status: {"absent", "joined", "left"}, isModerator: BOOLEAN, audioMuted: BOOLEAN]

CallOpBusy == [pc: {"join", "save"}, user: CallUsers, copy: CallParticipant, row: CallParticipant]
CallOpIdle == [pc |-> "idle"]

CallSessionsTypeOK ==
  /\ callStatus \in CallStatuses
  /\ participant \in [CallUsers -> CallParticipant]
  /\ \A u \in CallUsers : participant[u].isModerator <=> u = Initiator
  /\ callOp \in [CallOps -> CallOpBusy \cup {CallOpIdle}]
  /\ callOps \in 0..MaxCallOps
  /\ crowded \in BOOLEAN /\ outdatedRows \subseteq CallUsers

\* initiateCall: the initiator joins at once, as moderator.
CallSessionsInit ==
  /\ callStatus = "active"
  /\ participant = [u \in CallUsers |-> [status |-> IF u = Initiator THEN "joined" ELSE "absent",
                                         isModerator |-> u = Initiator, audioMuted |-> FALSE]]
  /\ callOp = [c \in CallOps |-> CallOpIdle] /\ callOps = 0
  /\ crowded = FALSE /\ outdatedRows = {}

-----------------------------------------------------------------------------
CallOpStart(c, pc, u, row) ==
  /\ callOp[c] = CallOpIdle
  /\ callOps < MaxCallOps
  /\ callOps' = callOps + 1
  /\ callOp' = [callOp EXCEPT ![c] = [pc |-> pc, user |-> u, copy |-> participant[u], row |-> row]]
  /\ UNCHANGED <<callStatus, participant, outdatedRows>>

Joined == {u \in CallUsers : participant[u].status = "joined"}

\* assertModerator.
AssertModerator(u) == u \in Joined /\ participant[u].isModerator

\* joinCall: an active call with a free place; the row is created or taken again.
JoinCall(c, u) ==
  /\ callStatus = "active"
  /\ Cardinality(Joined) < MaxParticipants
  /\ CallOpStart(c, "join", u, [participant[u] EXCEPT !.status = "joined"])
  /\ crowded' = (crowded \/ \E d \in CallOps : callOp[d].pc = "join")

\* leaveCall by the participant, removeParticipant by the moderator.
LeaveCall(c, u, actor) ==
  /\ participant[u].status # "absent"
  /\ actor = u \/ AssertModerator(actor)
  /\ CallOpStart(c, "save", u, [participant[u] EXCEPT !.status = "left"])
  /\ UNCHANGED crowded

\* moderateParticipant.
ModerateParticipantBack(c, u, actor) ==
  /\ AssertModerator(actor)
  /\ participant[u].status # "absent"
  /\ CallOpStart(c, "save", u, [participant[u] EXCEPT !.audioMuted = ~@, !.status = "joined"])
  /\ UNCHANGED crowded

ModerateParticipant(c, u, actor) ==
  /\ AssertModerator(actor)
  /\ participant[u].status # "absent"
  /\ CallOpStart(c, "save", u, [participant[u] EXCEPT !.audioMuted = ~@])
  /\ UNCHANGED crowded

\* participantsRepo.save: every column comes from the copy; uq_call_participant
\* refuses a second row of the user.
SaveParticipant(c) ==
  /\ callOp[c] # CallOpIdle
  /\ LET op == callOp[c]
     IN  /\ op.copy.status = "absent" => participant[op.user].status = "absent"
         /\ participant' = [participant EXCEPT ![op.user] = op.row]
         /\ outdatedRows' = IF participant[op.user] = op.copy THEN outdatedRows ELSE outdatedRows \cup {op.user}
         /\ crowded' = (crowded \/ (op.pc = "save" /\ op.row.status = "joined" /\ participant[op.user] # op.copy))
  /\ callOp' = [callOp EXCEPT ![c] = CallOpIdle]
  /\ UNCHANGED <<callStatus, callOps>>

\* The call is refused by the index, or its process stops.
AbortCallOp(c) ==
  /\ callOp[c] # CallOpIdle
  /\ callOp' = [callOp EXCEPT ![c] = CallOpIdle]
  /\ UNCHANGED <<callStatus, participant, callOps, crowded, outdatedRows>>

\* endCall; its recordings are those of CallRecordings.
EndCall(actor) ==
  /\ callStatus = "active"
  /\ AssertModerator(actor)
  /\ callStatus' = "ended"
  /\ UNCHANGED <<participant, callOp, callOps, crowded, outdatedRows>>

CallSessionsNext ==
  \/ \E c \in CallOps, u \in CallUsers :
       \/ JoinCall(c, u)
       \/ \E actor \in CallUsers : LeaveCall(c, u, actor) \/ ModerateParticipant(c, u, actor)
  \/ \E c \in CallOps : SaveParticipant(c) \/ AbortCallOp(c)
  \/ \E actor \in CallUsers : EndCall(actor)

CallSessionsSpec == CallSessionsInit /\ [][CallSessionsNext]_callVars

-----------------------------------------------------------------------------
\* A call never holds more than it has places, unless two users joined at the
\* same time or an outdated row brought one back (calls.service.ts:115-120).
CallHasPlace == Cardinality(Joined) <= MaxParticipants \/ crowded

\* Who left or was removed comes back only by joining, unless another call on the
\* same participant was under way (calls.service.ts:123-142, 270-292).
LeftStaysLeft ==
  [][\A u \in CallUsers : participant[u].status = "left" /\ participant'[u].status = "joined" =>
       u \in outdatedRows' \/ \E c \in CallOps : callOp[c].pc = "join" /\ callOp'[c] = CallOpIdle]_callVars

-----------------------------------------------------------------------------
(***************************************************************************)
(* One call session of the media server                                    *)
(* (src/apps/media/src/sessions/session-manager.ts,                        *)
(* signaling/signaling-handler.ts and media-server.ts): sockets join and   *)
(* leave, the first join creates the session, the last one to leave ends   *)
(* it unless it is being recorded.                                         *)
(*                                                                         *)
(* Everything runs in one thread; a join is interrupted where it waits for *)
(* the router and for redis.  Transports, producers and consumers live and *)
(* end with their participant and are not followed.                        *)
(*                                                                         *)
(* excused holds the sockets whose participant lost his place by a known   *)
(* gap: two first joins at once, a second connection of his, or the end of *)
(* the session.  orphaned: a session was left without participants by a    *)
(* join that failed or by the end of a recording.                          *)
(***************************************************************************)
CONSTANTS
  MediaSockets,   \* signaling connections
  ParticipantOf,  \* socket -> participant
  NoSocket

ASSUME MediaSessionsAssumption == NoSocket \notin MediaSockets

Participants == {ParticipantOf[s] : s \in MediaSockets}

VARIABLES
  sessionOpen,      \* the session is in the map of sessions
  place,            \* participant -> the socket of his entry in the session
  recordingActive,  \* session.recordingActive
  signal,           \* socket -> its state
  excused, orphaned

mediaVars == <<sessionOpen, place, recordingActive, signal, excused, orphaned>>

\* active: activeSessionId is set; late: it closed while its join was under way.
MediaSocket == [open: BOOLEAN, pc: {"new", "router", "redis", "idle"}, active: BOOLEAN, late: BOOLEAN]

Present == {p \in Participants : place[p] # NoSocket}

MediaSessionsTypeOK ==
  /\ sessionOpen \in BOOLEAN /\ recordingActive \in BOOLEAN /\ orphaned \in BOOLEAN
  /\ place \in [Participants -> MediaSockets \cup {NoSocket}]
  /\ Present # {} => sessionOpen
  /\ recordingActive => sessionOpen
  /\ signal \in [MediaSockets -> MediaSocket]
  /\ excused \subseteq MediaSockets

Nobody == [p \in Participants |-> NoSocket]

MediaSessionsInit ==
  /\ sessionOpen = FALSE /\ place = Nobody /\ recordingActive = FALSE
  /\ signal = [s \in MediaSockets |-> [open |-> TRUE, pc |-> "new", active |-> FALSE, late |-> FALSE]]
  /\ excused = {} /\ orphaned = FALSE

-----------------------------------------------------------------------------
\* addParticipant, which throws if the session ended meanwhile.
AddParticipant(s) ==
  LET p == ParticipantOf[s]
  IN  /\ signal' = [signal EXCEPT ![s].pc = "idle", ![s].active = TRUE]
      /\ place' = IF sessionOpen THEN [place EXCEPT ![p] = s] ELSE place
      /\ excused' = IF ~sessionOpen THEN excused \cup {s}
                    ELSE IF place[p] # NoSocket THEN excused \cup {place[p]} ELSE excused
      /\ UNCHANGED <<sessionOpen, recordingActive, orphaned>>

\* "join": createSession finds the session, or waits for a router.
Join(s) ==
  /\ signal[s].open /\ signal[s].pc = "new"
  /\ IF sessionOpen
       THEN AddParticipant(s)
       ELSE /\ signal' = [signal EXCEPT ![s].pc = "router"]
            /\ UNCHANGED <<sessionOpen, place, recordingActive, excused, orphaned>>

\* sessions.set: a session that another join has created meanwhile is replaced.
RouterCreated(s) ==
  /\ signal[s].pc = "router"
  /\ sessionOpen' = TRUE /\ place' = Nobody /\ recordingActive' = FALSE
  /\ signal' = [signal EXCEPT ![s].pc = "redis"]
  /\ excused' = excused \cup {place[p] : p \in Present}
  /\ UNCHANGED orphaned

SessionTracked(s) == signal[s].pc = "redis" /\ AddParticipant(s)

\* The router or redis refuses.
JoinFails(s) ==
  /\ signal[s].pc \in {"router", "redis"}
  /\ signal' = [signal EXCEPT ![s].pc = "new"]
  /\ orphaned' = (orphaned \/ signal[s].pc = "redis")
  /\ UNCHANGED <<sessionOpen, place, recordingActive, excused>>

\* removeParticipant: the last one ends the session, unless it is recorded.
RemoveParticipant(p) ==
  /\ place' = [place EXCEPT ![p] = NoSocket]
  /\ sessionOpen' = (sessionOpen /\ ~(Present = {p} /\ ~recordingActive))

Displaced(p, s) == IF place[p] \in {s, NoSocket} THEN {} ELSE {place[p]}

\* "leave".
Leave(s) ==
  /\ signal[s].open /\ signal[s].pc = "idle" /\ signal[s].active
  /\ signal' = [signal EXCEPT ![s].active = FALSE, ![s].pc = "new"]
  /\ RemoveParticipant(ParticipantOf[s])
  /\ excused' = excused \cup Displaced(ParticipantOf[s], s)
  /\ UNCHANGED <<recordingActive, orphaned>>

\* The socket closes: handleDisconnect removes the participant, if the join is over.
CloseSocketQuietly(s) ==
  /\ signal[s].open
  /\ signal' = [signal EXCEPT ![s].open = FALSE]
  /\ UNCHANGED <<sessionOpen, place, recordingActive, excused, orphaned>>

CloseSocket(s) ==
  /\ signal[s].open
  /\ signal' = [signal EXCEPT ![s].open = FALSE, ![s].late = signal[s].pc \in {"router", "redis"}]
  /\ IF signal[s].active THEN RemoveParticipant(ParticipantOf[s]) ELSE UNCHANGED <<sessionOpen, place>>
  /\ excused' = IF signal[s].active THEN excused \cup Displaced(ParticipantOf[s], s) ELSE excused
  /\ UNCHANGED <<recordingActive, orphaned>>

\* kickParticipant closes his socket and removes him.
KickParticipant(p) ==
  /\ place[p] # NoSocket
  /\ signal' = [signal EXCEPT ![place[p]].open = FALSE]
  /\ RemoveParticipant(p)
  /\ excused' = excused \cup {place[p]}
  /\ UNCHANGED <<recordingActive, orphaned>>

\* endSession, on the backend's command or at shutdown.
EndSession ==
  /\ sessionOpen
  /\ sessionOpen' = FALSE /\ place' = Nobody /\ recordingActive' = FALSE
  /\ excused' = excused \cup {place[p] : p \in Present}
  /\ UNCHANGED <<signal, orphaned>>

\* startRecording, and the end of a recording, which leaves the session as it is.
SetRecording(on) ==
  /\ sessionOpen
  /\ recordingActive' = on
  /\ orphaned' = (orphaned \/ (recordingActive /\ ~on /\ Present = {}))
  /\ UNCHANGED <<sessionOpen, place, signal, excused>>

MediaSessionsNext ==
  \/ \E s \in MediaSockets :
       Join(s) \/ RouterCreated(s) \/ SessionTracked(s) \/ JoinFails(s) \/ Leave(s) \/ CloseSocket(s)
  \/ \E p \in Participants : KickParticipant(p)
  \/ EndSession
  \/ \E on \in BOOLEAN : SetRecording(on)

MediaSessionsSpec == MediaSessionsInit /\ [][MediaSessionsNext]_mediaVars

-----------------------------------------------------------------------------
\* Nobody is in a session whose connection is gone, unless it went while his join
\* was waiting (signaling-handler.ts:100-160, 377-391).
NoGhosts == \A p \in Present : signal[place[p]].open \/ signal[place[p]].late

\* Who joined and is still connected is in the session, whatever the others do,
\* except for the known gaps (session-manager.ts:40-81, 146-173).
ConnectedHasPlace ==
  \A s \in MediaSockets :
    signal[s].open /\ signal[s].active => place[ParticipantOf[s]] = s \/ s \in excused

\* A session nobody is in is closed, unless it is recorded, a join is still under
\* way or it was left behind (session-manager.ts:168-171).
EmptySessionIsClosed ==
  sessionOpen /\ Present = {} => recordingActive \/ orphaned \/ \E s \in MediaSockets : signal[s].pc = "redis"

=============================================================================
