----------------------------- MODULE EdgeGateway -----------------------------
(***************************************************************************)
(* The WebSocket gateway in front of the browsers                          *)
(* (src/apps/gateway/src/gateway.ts, main.ts, presence-manager.ts).        *)
(*                                                                         *)
(* Several replicas run. Each keeps its own sockets in memory; what they   *)
(* share is the presence in Redis and the queue "gateway.fan-out", which   *)
(* is exclusive, so that one replica consumes it and the others run        *)
(* without a bus for as long as they live.                                 *)
(*                                                                         *)
(* handledBy says for every event which replica handed it on; shadowed are *)
(* the users whose presence was removed while another replica held one of  *)
(* their sockets, outlived those it outlived, abandoned those whose        *)
(* replica ended before their sockets did.                                 *)
(***************************************************************************)
EXTENDS Naturals, Sequences

CONSTANTS
  EdgeReplicas,
  EdgeSockets,
  EdgeUserOf,     \* socket -> the user of its access token
  NoReplica,
  MaxEdgeMoves    \* bound: events, messages about the room, ends of replicas and expiries together

ASSUME EdgeGatewayAssumption ==
  /\ NoReplica \notin EdgeReplicas
  /\ "room" \notin {EdgeUserOf[c] : c \in EdgeSockets}
  /\ MaxEdgeMoves \in Nat

VARIABLES
  replica,      \* replica -> "starting", "serving" or "ended"
  platformBus,  \* the replica that consumes the queue
  fanoutQueue,  \* events in the queue, by number
  edgeClients,  \* replica -> clients
  userSockets,  \* replica -> user -> userConnections
  inRoom,       \* the sockets that joined the room
  edgeSocket,   \* socket -> [state, at]
  since,        \* socket -> number of events before it connected
  edgeGot,      \* socket -> numbers of the events sent to it
  addressed,    \* number of an event -> a user or "room"
  handledBy,    \* number of an event -> a replica, or NoReplica if none
  toRedis,      \* replica -> commands under way, in their order
  shownOnline,  \* users with a key presence:<user>
  edgeMoves,    \* moves that MaxEdgeMoves counts, so far
  shadowed, outlived, abandoned

edgeVars == <<replica, platformBus, fanoutQueue, edgeClients, userSockets, inRoom, edgeSocket, since, edgeGot,
  addressed, handledBy, toRedis, shownOnline, edgeMoves, shadowed, outlived, abandoned>>

EdgeUsers == {EdgeUserOf[c] : c \in EdgeSockets}

RedisCommand == [op: {"setex", "del"}, user: EdgeUsers]

\* A socket is closing while its peer has gone and the handler of "close" has not run.
SocketStates == {"new", "open", "closing", "closed"}

EdgeGatewayTypeOK ==
  /\ replica \in [EdgeReplicas -> {"starting", "serving", "ended"}]
  /\ platformBus \in EdgeReplicas \cup {NoReplica}
  /\ fanoutQueue \in Seq(1..MaxEdgeMoves)
  /\ edgeClients \in [EdgeReplicas -> SUBSET EdgeSockets]
  /\ userSockets \in [EdgeReplicas -> [EdgeUsers -> SUBSET EdgeSockets]]
  /\ \A g \in EdgeReplicas : edgeClients[g] = UNION {userSockets[g][u] : u \in EdgeUsers}
  /\ inRoom \subseteq EdgeSockets
  /\ edgeSocket \in [EdgeSockets -> [state: SocketStates, at: EdgeReplicas \cup {NoReplica}]]
  /\ since \in [EdgeSockets -> 0..MaxEdgeMoves]
  /\ edgeGot \in [EdgeSockets -> Seq(1..MaxEdgeMoves)]
  /\ addressed \in Seq(EdgeUsers \cup {"room"}) /\ Len(addressed) = Len(handledBy)
  /\ handledBy \in Seq(EdgeReplicas \cup {NoReplica})
  /\ toRedis \in [EdgeReplicas -> Seq(RedisCommand)]
  /\ shownOnline \subseteq EdgeUsers /\ edgeMoves \in 0..MaxEdgeMoves
  /\ shadowed \cup outlived \cup abandoned \subseteq EdgeUsers

EdgeGatewayInit ==
  /\ replica = [g \in EdgeReplicas |-> "starting"]
  /\ platformBus = NoReplica /\ fanoutQueue = <<>>
  /\ edgeClients = [g \in EdgeReplicas |-> {}]
  /\ userSockets = [g \in EdgeReplicas |-> [u \in EdgeUsers |-> {}]]
  /\ inRoom = {} /\ edgeSocket = [c \in EdgeSockets |-> [state |-> "new", at |-> NoReplica]]
  /\ since = [c \in EdgeSockets |-> 0] /\ edgeGot = [c \in EdgeSockets |-> <<>>]
  /\ addressed = <<>> /\ handledBy = <<>>
  /\ toRedis = [g \in EdgeReplicas |-> <<>>]
  /\ shownOnline = {} /\ edgeMoves = 0
  /\ shadowed = {} /\ outlived = {} /\ abandoned = {}

-----------------------------------------------------------------------------
HeldBy(g) == {c \in EdgeSockets : edgeSocket[c].at = g /\ edgeSocket[c].state \in {"open", "closing"}}

SocketsOf(u) == {c \in EdgeSockets : EdgeUserOf[c] = u /\ edgeSocket[c].state \in {"open", "closing"}}

AskRedis(g, op, u) == toRedis' = [toRedis EXCEPT ![g] = Append(@, [op |-> op, user |-> u])]

EdgeMove == edgeMoves < MaxEdgeMoves /\ edgeMoves' = edgeMoves + 1

eventVars == <<fanoutQueue, since, edgeGot, addressed, handledBy>>
presenceVars == <<toRedis, shownOnline, shadowed, outlived, abandoned>>

\* start() and connectRabbitMQ: the queue is refused if another replica holds it,
\* and the broker may be out of reach; the replica serves all the same.
StartReplica(g) ==
  /\ replica[g] = "starting" /\ replica' = [replica EXCEPT ![g] = "serving"]
  /\ platformBus' \in IF platformBus = NoReplica THEN {g, NoReplica} ELSE {platformBus}
  /\ UNCHANGED <<edgeClients, userSockets, inRoom, edgeSocket, eventVars, edgeMoves, presenceVars>>

\* handleConnection, of a token that is valid.
AcceptSocket(c, g) ==
  /\ replica[g] = "serving" /\ edgeSocket[c].state = "new"
  /\ edgeSocket' = [edgeSocket EXCEPT ![c] = [state |-> "open", at |-> g]]
  /\ since' = [since EXCEPT ![c] = Len(addressed)]
  /\ edgeClients' = [edgeClients EXCEPT ![g] = @ \cup {c}]
  /\ userSockets' = [userSockets EXCEPT ![g][EdgeUserOf[c]] = @ \cup {c}]
  /\ AskRedis(g, "setex", EdgeUserOf[c])
  /\ UNCHANGED <<replica, platformBus, fanoutQueue, inRoom, edgeGot, addressed, handledBy, shownOnline, edgeMoves,
       shadowed, outlived, abandoned>>

\* "join_room" and "leave_room".
HandleRoomMessage(c) ==
  /\ EdgeMove
  /\ edgeSocket[c].state = "open" /\ c \in edgeClients[edgeSocket[c].at]
  /\ inRoom' \in {inRoom \cup {c}, inRoom \ {c}}
  /\ UNCHANGED <<replica, platformBus, edgeClients, userSockets, edgeSocket, eventVars, presenceVars>>

PeerCloses(c) ==
  /\ edgeSocket[c].state = "open"
  /\ edgeSocket' = [edgeSocket EXCEPT ![c].state = "closing"]
  /\ UNCHANGED <<replica, platformBus, edgeClients, userSockets, inRoom, eventVars, edgeMoves, presenceVars>>

\* handleDisconnect: the user goes offline with his last socket here.
HandleSocketClose(c) ==
  LET g == edgeSocket[c].at
      u == EdgeUserOf[c]
  IN  /\ edgeSocket[c].state = "closing"
      /\ edgeSocket' = [edgeSocket EXCEPT ![c].state = "closed"]
      /\ edgeClients' = [edgeClients EXCEPT ![g] = @ \ {c}]
      /\ userSockets' = [userSockets EXCEPT ![g][u] = @ \ {c}]
      /\ IF userSockets[g][u] = {c} THEN AskRedis(g, "del", u) ELSE UNCHANGED toRedis
      /\ UNCHANGED <<replica, platformBus, inRoom, eventVars, shownOnline, edgeMoves, shadowed, outlived, abandoned>>

\* Redis executes what one replica sends in its order.
ExecuteRedisCommand(g) ==
  /\ toRedis[g] # <<>> /\ toRedis' = [toRedis EXCEPT ![g] = Tail(@)]
  /\ LET u == Head(toRedis[g]).user
     IN  IF Head(toRedis[g]).op = "setex"
           THEN /\ shownOnline' = shownOnline \cup {u}
                /\ shadowed' = shadowed \ {u} /\ outlived' = outlived \ {u}
           ELSE /\ shownOnline' = shownOnline \ {u}
                /\ shadowed' = IF \E c \in SocketsOf(u) : edgeSocket[c].at # g
                                 THEN shadowed \cup {u} ELSE shadowed
                /\ UNCHANGED outlived
  /\ UNCHANGED <<replica, platformBus, edgeClients, userSockets, inRoom, edgeSocket, eventVars, edgeMoves, abandoned>>

\* Nothing refreshes the key of a user who stays connected; a command takes far less
\* than the time to live.
PresenceKeyExpires(u) ==
  /\ \A g \in EdgeReplicas : toRedis[g] = <<>>
  /\ u \in shownOnline /\ shownOnline' = shownOnline \ {u}
  /\ EdgeMove
  /\ outlived' = outlived \cup {u}
  /\ abandoned' = abandoned \ {u}
  /\ UNCHANGED <<replica, platformBus, edgeClients, userSockets, inRoom, edgeSocket, eventVars, toRedis, shadowed>>

-----------------------------------------------------------------------------
\* A message on gateway.# goes to the queue, if there is one. The backend publishes
\* to rooms; publishToUser has no caller yet.
PublishPlatformEvent(to) ==
  /\ EdgeMove
  /\ addressed' = Append(addressed, to) /\ handledBy' = Append(handledBy, NoReplica)
  /\ fanoutQueue' = IF platformBus = NoReplica THEN fanoutQueue ELSE Append(fanoutQueue, Len(addressed) + 1)
  /\ UNCHANGED <<replica, platformBus, edgeClients, userSockets, inRoom, edgeSocket, since, edgeGot, presenceVars>>

Open(c) == edgeSocket[c].state = "open"

\* broadcastToRoom
InTheRoom(g) == {c \in edgeClients[g] : c \in inRoom /\ Open(c)}

\* sendToUser
OfTheUser(g, u) == {c \in userSockets[g][u] : c \in edgeClients[g] /\ Open(c)}

\* handlePlatformEvent
HandlePlatformEvent ==
  /\ fanoutQueue # <<>> /\ fanoutQueue' = Tail(fanoutQueue)
  /\ LET i  == Head(fanoutQueue)
         to == IF addressed[i] = "room" THEN InTheRoom(platformBus) ELSE OfTheUser(platformBus, addressed[i])
     IN  /\ edgeGot' = [c \in EdgeSockets |-> IF c \in to THEN Append(edgeGot[c], i) ELSE edgeGot[c]]
         /\ handledBy' = [handledBy EXCEPT ![i] = platformBus]
  /\ UNCHANGED <<replica, platformBus, edgeClients, userSockets, inRoom, edgeSocket, since, addressed, edgeMoves,
       presenceVars>>

\* What ends with a replica: its queue, with what is in it, and its maps.
EndReplica(g, unheard) ==
  /\ EdgeMove
  /\ replica[g] = "serving" /\ replica' = [replica EXCEPT ![g] = "ended"]
  /\ platformBus' = IF platformBus = g THEN NoReplica ELSE platformBus
  /\ fanoutQueue' = IF platformBus = g THEN <<>> ELSE fanoutQueue
  /\ edgeClients' = [edgeClients EXCEPT ![g] = {}]
  /\ userSockets' = [userSockets EXCEPT ![g] = [u \in EdgeUsers |-> {}]]
  /\ abandoned' = abandoned \cup {EdgeUserOf[c] : c \in HeldBy(g)} \cup unheard
  /\ UNCHANGED <<inRoom, since, edgeGot, addressed, handledBy, shownOnline, shadowed, outlived>>

\* stop(): the maps are cleared before the sockets report that they are closed.
StopReplica(g) ==
  /\ EndReplica(g, {})
  /\ edgeSocket' = [c \in EdgeSockets |->
       IF c \in HeldBy(g) THEN [edgeSocket[c] EXCEPT !.state = "closing"] ELSE edgeSocket[c]]
  /\ UNCHANGED toRedis

CrashReplica(g) ==
  /\ EndReplica(g, {toRedis[g][i].user : i \in DOMAIN toRedis[g]})
  /\ edgeSocket' = [c \in EdgeSockets |->
       IF c \in HeldBy(g) THEN [edgeSocket[c] EXCEPT !.state = "closed"] ELSE edgeSocket[c]]
  /\ toRedis' = [toRedis EXCEPT ![g] = <<>>]

\* A new process takes the place of the one that ended.
ReplaceReplica(g) ==
  /\ replica[g] = "ended" /\ toRedis[g] = <<>> /\ HeldBy(g) = {}
  /\ replica' = [replica EXCEPT ![g] = "starting"]
  /\ UNCHANGED <<platformBus, edgeClients, userSockets, inRoom, edgeSocket, eventVars, edgeMoves, presenceVars>>

EdgeGatewayNext ==
  \/ \E g \in EdgeReplicas :
       \/ StartReplica(g) \/ StopReplica(g) \/ CrashReplica(g) \/ ReplaceReplica(g)
       \/ ExecuteRedisCommand(g)
       \/ \E c \in EdgeSockets : AcceptSocket(c, g)
  \/ \E c \in EdgeSockets : HandleRoomMessage(c) \/ PeerCloses(c) \/ HandleSocketClose(c)
  \/ \E u \in EdgeUsers : PresenceKeyExpires(u)
  \/ \E to \in EdgeUsers \cup {"room"} : PublishPlatformEvent(to)
  \/ HandlePlatformEvent

EdgeGatewaySpec == EdgeGatewayInit /\ [][EdgeGatewayNext]_edgeVars

-----------------------------------------------------------------------------
\* A socket gets the events of its user, each once and in their order, and every
\* one that was handed on where it was connected before (gateway.ts:159-197, 246-257).
EdgeDelivers ==
  \A c \in EdgeSockets :
    /\ \A i, j \in DOMAIN edgeGot[c] : i < j => edgeGot[c][i] < edgeGot[c][j]
    /\ \A i \in DOMAIN edgeGot[c] : addressed[edgeGot[c][i]] \in {EdgeUserOf[c], "room"}
    /\ edgeSocket[c].state = "open" => \A n \in since[c] + 1 .. Len(addressed) :
         addressed[n] = EdgeUserOf[c] /\ handledBy[n] = edgeSocket[c].at
           => \E i \in DOMAIN edgeGot[c] : edgeGot[c][i] = n

\* Once Redis has executed everything, a user is online exactly while he has a
\* socket, except for the sockets of another replica, the time to live, and
\* replicas that ended (gateway.ts:92-102, 159-171, 50-60, presence-manager.ts:13-23).
EdgePresenceAgrees ==
  (\A g \in EdgeReplicas : toRedis[g] = <<>>) => \A u \in EdgeUsers :
    /\ SocketsOf(u) # {} => u \in shownOnline \cup shadowed \cup outlived \cup abandoned
    /\ u \in shownOnline => SocketsOf(u) # {} \/ u \in abandoned

=============================================================================
