--------------------------- MODULE RealtimeGateway --------------------------
(***************************************************************************)
(* The sockets of one user, the registry of his connections and his        *)
(* presence (src/apps/backend/src/modules/gateway/realtime.gateway.ts,     *)
(* gateway/services/connection-registry.service.ts,                        *)
(* chat/services/presence.service.ts).                                     *)
(*                                                                         *)
(* Registry and presence are values of a cache that every instance of the  *)
(* gateway reads, changes and writes back as a whole; both have a time to  *)
(* live.  The handlers of a socket run concurrently: a disconnect does not *)
(* wait for the connect of the same socket.                                *)
(*                                                                         *)
(* disturbed: a handler wrote back an outdated value, a value expired, an  *)
(* instance stopped, or the client asked to be shown offline.              *)
(***************************************************************************)
EXTENDS Naturals, FiniteSets, Sequences

CONSTANTS
  Sockets,     \* the connections the user opens
  InstanceOf,  \* socket -> the instance that serves it
  MaxHandlers  \* bound: handlers running at once

ASSUME RealtimeGatewayAssumption == MaxHandlers \in Nat

VARIABLES
  socket,       \* socket -> "new", "open" or "closed"
  connections,  \* the sockets in the map of their instance
  registry,     \* gateway:conn:<user>, no value for {}
  presence,     \* presence:<user>
  handler,      \* <<socket, event>> -> what its handler does next
  disturbed

gatewayVars == <<socket, connections, registry, presence, handler, disturbed>>

SocketEvents == {"connect", "disconnect", "heartbeat", "set"}

\* The statuses other than offline are not told apart.
PresenceStatuses == {"online", "offline"}

HandlerSteps ==
  {"idle", "regRead", "regWrite", "remaining", "beat", "beatWrite", "presWrite", "drop"}

Handler == [pc: HandlerSteps, copy: SUBSET Sockets, status: PresenceStatuses]

HandlerIdle == [pc |-> "idle", copy |-> {}, status |-> "online"]

RealtimeGatewayTypeOK ==
  /\ socket \in [Sockets -> {"new", "open", "closed"}]
  /\ connections \subseteq Sockets
  /\ \A s \in connections : handler[s, "disconnect"] = HandlerIdle => socket[s] = "open"
  /\ registry \subseteq Sockets
  /\ presence \in PresenceStatuses
  /\ handler \in [Sockets \X SocketEvents -> Handler]
  /\ disturbed \in BOOLEAN

RealtimeGatewayInit ==
  /\ socket = [s \in Sockets |-> "new"]
  /\ connections = {} /\ registry = {}
  /\ presence = "offline"
  /\ handler = [h \in Sockets \X SocketEvents |-> HandlerIdle]
  /\ disturbed = FALSE

-----------------------------------------------------------------------------
GatewayAt(h, pc) == handler[h].pc = pc
GatewayGo(h, pc) ==
  handler' = [handler EXCEPT ![h] = IF pc = "idle" THEN HandlerIdle ELSE [HandlerIdle EXCEPT !.pc = pc, !.status = handler[h].status]]
GatewayBegin(h, pc, status) ==
  /\ Cardinality({g \in DOMAIN handler : handler[g].pc # "idle"}) < MaxHandlers
  /\ handler' = [handler EXCEPT ![h] = [HandlerIdle EXCEPT !.pc = pc, !.status = status]]

\* handleConnection: a valid token.
HandleConnection(s) ==
  /\ socket[s] = "new"
  /\ socket' = [socket EXCEPT ![s] = "open"]
  /\ connections' = connections \cup {s}
  /\ GatewayBegin(<<s, "connect">>, "regRead", "online")
  /\ UNCHANGED <<registry, presence, disturbed>>

\* handleDisconnect; without an entry in the map there is nothing to do.
HandleDisconnect(s) ==
  /\ socket[s] = "open"
  /\ socket' = [socket EXCEPT ![s] = "closed"]
  /\ s \in connections
  /\ GatewayBegin(<<s, "disconnect">>, "regRead", "offline")
  /\ UNCHANGED <<connections, registry, presence, disturbed>>

OnHeartbeat(s) ==
  /\ socket[s] = "open" /\ s \in connections
  /\ GatewayAt(<<s, "heartbeat">>, "idle")
  /\ GatewayBegin(<<s, "heartbeat">>, "regRead", "online")
  /\ UNCHANGED <<socket, connections, registry, presence, disturbed>>

OnSetPresence(s, status) ==
  /\ socket[s] = "open" /\ s \in connections
  /\ GatewayAt(<<s, "set">>, "idle")
  /\ GatewayBegin(<<s, "set">>, "presWrite", status)
  /\ UNCHANGED <<socket, connections, registry, presence, disturbed>>

-----------------------------------------------------------------------------
\* registerConnection, deregisterConnection, refreshConnection: the list is
\* read, changed and written; a refresh that does not find the socket writes
\* nothing.
ReadRegistry(h) ==
  /\ GatewayAt(h, "regRead")
  /\ handler' = [handler EXCEPT ![h].copy = registry,
                   ![h].pc = IF h[2] = "heartbeat" /\ h[1] \notin registry THEN "beat" ELSE "regWrite"]
  /\ UNCHANGED <<socket, connections, registry, presence, disturbed>>

Listed(h) ==
  CASE h[2] = "connect" -> handler[h].copy \cup {h[1]}
    [] h[2] = "disconnect" -> handler[h].copy \ {h[1]}
    [] OTHER -> handler[h].copy

WriteRegistry(h) ==
  /\ GatewayAt(h, "regWrite")
  /\ registry' = Listed(h)
  /\ disturbed' = (disturbed \/ registry # handler[h].copy)
  /\ GatewayGo(h, CASE h[2] = "connect" -> "presWrite" [] h[2] = "disconnect" -> "remaining" [] OTHER -> "beat")
  /\ UNCHANGED <<socket, connections, presence>>

\* Another connection keeps the user online.
CheckRemainingInverted(h) ==
  /\ GatewayAt(h, "remaining")
  /\ GatewayGo(h, IF registry = {} THEN "drop" ELSE "presWrite")
  /\ UNCHANGED <<socket, connections, registry, presence, disturbed>>

CheckRemaining(h) ==
  /\ GatewayAt(h, "remaining")
  /\ GatewayGo(h, IF registry = {} THEN "presWrite" ELSE "drop")
  /\ UNCHANGED <<socket, connections, registry, presence, disturbed>>

DropConnection(h) ==
  /\ GatewayAt(h, "drop")
  /\ connections' = connections \ {h[1]}
  /\ GatewayGo(h, "idle")
  /\ UNCHANGED <<socket, registry, presence, disturbed>>

-----------------------------------------------------------------------------
\* PresenceService.heartbeat: an expired presence is set anew.
Beat(h) ==
  /\ GatewayAt(h, "beat")
  /\ GatewayGo(h, IF presence = "offline" THEN "presWrite" ELSE "beatWrite")
  /\ UNCHANGED <<socket, connections, registry, presence, disturbed>>

BeatWrite(h) ==
  /\ GatewayAt(h, "beatWrite")
  /\ presence' = "online"
  /\ disturbed' = (disturbed \/ presence # "online")
  /\ GatewayGo(h, "idle")
  /\ UNCHANGED <<socket, connections, registry>>

\* A connection that came up, went away or changed its status meanwhile.
Overtaken(h) ==
  \/ h[2] = "set" /\ handler[h].status = "offline"
  \/ h[2] = "disconnect" /\ registry # {}
  \/ h[2] # "disconnect" /\ socket[h[1]] = "closed"

\* PresenceService.setPresence, which also publishes a change.
WritePresence(h) ==
  /\ GatewayAt(h, "presWrite")
  /\ presence' = handler[h].status
  /\ disturbed' = (disturbed \/ Overtaken(h))
  /\ GatewayGo(h, IF h[2] = "disconnect" THEN "drop" ELSE "idle")
  /\ UNCHANGED <<socket, connections, registry>>

-----------------------------------------------------------------------------
\* The times to live, CONN_TTL and PRESENCE_TTL_SECONDS.
RegistryExpires ==
  /\ registry # {}
  /\ registry' = {}
  /\ disturbed' = TRUE
  /\ UNCHANGED <<socket, connections, presence, handler>>

PresenceExpires ==
  /\ presence # "offline"
  /\ presence' = "offline"
  /\ disturbed' = TRUE
  /\ UNCHANGED <<socket, connections, registry, handler>>

\* An instance stops: its sockets are gone, and their handlers.
InstanceStops(i) ==
  LET lost == {s \in Sockets : InstanceOf[s] = i}
  IN  /\ \E s \in lost : socket[s] = "open"
      /\ socket' = [s \in Sockets |-> IF s \in lost /\ socket[s] = "open" THEN "closed" ELSE socket[s]]
      /\ connections' = connections \ lost
      /\ handler' = [h \in Sockets \X SocketEvents |-> IF h[1] \in lost THEN HandlerIdle ELSE handler[h]]
      /\ disturbed' = TRUE
      /\ UNCHANGED <<registry, presence>>

HandlerStep(h) ==
  \/ ReadRegistry(h) \/ WriteRegistry(h) \/ CheckRemaining(h) \/ DropConnection(h)
  \/ Beat(h) \/ BeatWrite(h) \/ WritePresence(h)

RealtimeGatewayNext ==
  \/ \E s \in Sockets :
       \/ HandleConnection(s) \/ HandleDisconnect(s) \/ OnHeartbeat(s)
       \/ \E status \in PresenceStatuses : OnSetPresence(s, status)
  \/ \E h \in Sockets \X SocketEvents : HandlerStep(h)
  \/ RegistryExpires \/ PresenceExpires
  \/ \E s \in Sockets : InstanceStops(InstanceOf[s])

\* Handlers run to their end, clients send heartbeats, values expire.
RealtimeGatewayFairness ==
  /\ \A h \in Sockets \X SocketEvents : WF_gatewayVars(HandlerStep(h))
  /\ \A s \in Sockets : WF_gatewayVars(OnHeartbeat(s))
  /\ WF_gatewayVars(RegistryExpires) /\ WF_gatewayVars(PresenceExpires)

RealtimeGatewaySpec == RealtimeGatewayInit /\ [][RealtimeGatewayNext]_gatewayVars /\ RealtimeGatewayFairness

-----------------------------------------------------------------------------
HandlersDone == \A h \in Sockets \X SocketEvents : handler[h].pc = "idle"

\* When the handlers are done the registry lists the connected sockets and the
\* user is shown offline if there is none, unless something was overtaken,
\* expired or stopped (realtime.gateway.ts:88-160).
PresenceIsRight ==
  HandlersDone /\ ~disturbed => registry = connections /\ (presence = "offline" <=> connections = {})

\* A user whose sockets are all gone is neither registered nor shown online, also
\* when a disconnect overtook the connect or its instance stopped; a user whose
\* socket is open is shown, whatever races and expiries hid him
\* (connection-registry.service.ts:10-12, presence.service.ts:101-107).  Both may
\* fail for a while, and hold again and again.
PresenceIsCurrent ==
  IF \E s \in Sockets : socket[s] = "open" THEN presence # "offline"
                                          ELSE registry = {} /\ presence = "offline"

-----------------------------------------------------------------------------
(***************************************************************************)
(* One instance of the gateway and the message broker                      *)
(* (src/apps/backend/src/modules/gateway/services/                         *)
(* rabbitmq-gateway.consumer.ts, gateway/realtime.gateway.ts and           *)
(* src/apps/backend/src/infra/events/gateway-events.service.ts): services  *)
(* publish events for a room, the instance consumes them from a queue of   *)
(* its own and sends them to the sockets that joined the room.             *)
(*                                                                         *)
(* The queue lives as long as its connection.  A connection that breaks    *)
(* while it is being set up is reported twice, by its close event and by   *)
(* the call that fails, and both schedule a new attempt; doubled says that *)
(* this has happened.                                                      *)
(***************************************************************************)

CONSTANTS
  Links,            \* bound: broker connections at once
  MaxReconnect,     \* bound: pending reconnect timers
  MaxDelay,         \* the cap of reconnectDelay, in seconds
  MaxRoomEvents,    \* bound: published events
  MaxOutages        \* bound: outages of the broker and broken connections

ASSUME GatewayFanoutAssumption ==
  IsFiniteSet(Links) /\ MaxReconnect \in Nat \ {0} /\ MaxDelay \in Nat \ {0} /\ MaxRoomEvents \in Nat /\ MaxOutages \in Nat

VARIABLES
  brokerUp,    \* the broker accepts connections
  outages,     \* outages so far
  link,        \* connection -> its state, and its queue
  timers,      \* pending timers of scheduleReconnect
  delay,       \* reconnectDelay
  publisher,   \* the channel of GatewayEventsService
  roomEvents,  \* events a service wanted to publish
  joined,      \* the socket is in the room
  received,    \* what it was sent
  doubled

fanoutVars == <<brokerUp, outages, link, timers, delay, publisher, roomEvents, joined, received, doubled>>

Link == [state: {"none", "setup", "consuming"}, queue: Seq(1..MaxRoomEvents)]

NoLink == [state |-> "none", queue |-> <<>>]

GatewayFanoutTypeOK ==
  /\ brokerUp \in BOOLEAN /\ outages \in 0..MaxOutages
  /\ link \in [Links -> Link]
  /\ ~brokerUp => \A k \in Links : link[k] = NoLink
  /\ timers \in 0..MaxReconnect
  /\ delay \in 1..MaxDelay
  /\ publisher \in {"none", "open", "broken"}
  /\ roomEvents \in 0..MaxRoomEvents
  /\ joined \in BOOLEAN /\ received \in Seq(1..MaxRoomEvents) /\ doubled \in BOOLEAN

\* onModuleInit connects at once.
GatewayFanoutInit ==
  /\ brokerUp = FALSE /\ outages = 0
  /\ link = [k \in Links |-> NoLink]
  /\ timers = 1 /\ delay = 1
  /\ publisher = "none" /\ roomEvents = 0
  /\ joined = FALSE /\ received = <<>> /\ doubled = FALSE

-----------------------------------------------------------------------------
\* scheduleReconnect, n times: the delay doubles up to its cap.
DelayAfter(n) == IF delay * 2^n < MaxDelay THEN delay * 2^n ELSE MaxDelay

ScheduleReconnect(n) ==
  /\ timers + n <= MaxReconnect
  /\ timers' = timers + n
  /\ delay' = DelayAfter(n)

\* A timer fires: connect.
Connect(k) ==
  /\ timers > 0
  /\ link[k].state = "none" /\ brokerUp
  /\ link' = [link EXCEPT ![k].state = "setup"]
  /\ timers' = timers - 1
  /\ UNCHANGED <<brokerUp, outages, delay, publisher, roomEvents, joined, received, doubled>>

\* The attempt fails: the timer that fired is replaced by another.
ConnectFails ==
  /\ timers > 0 /\ ~brokerUp
  /\ delay' = DelayAfter(1)
  /\ UNCHANGED <<brokerUp, outages, link, timers, publisher, roomEvents, joined, received, doubled>>

\* The channel, the exclusive queue, its binding and the consumer are there.
Consume(k) ==
  /\ link[k].state = "setup"
  /\ link' = [link EXCEPT ![k].state = "consuming"]
  /\ delay' = 1
  /\ UNCHANGED <<brokerUp, outages, timers, publisher, roomEvents, joined, received, doubled>>

\* Connections break, one of them or all; each goes with its queue.
Break(broken, up) ==
  LET setup == {k \in broken : link[k].state = "setup"}
      lost == {k \in broken : link[k].state # "none"}
  IN  /\ outages < MaxOutages
      /\ outages' = outages + 1
      /\ brokerUp' = up
      /\ link' = [k \in Links |-> IF k \in broken THEN NoLink ELSE link[k]]
      /\ ScheduleReconnect(Cardinality(lost) + Cardinality(setup))
      /\ doubled' = (doubled \/ setup # {})

ConnectionCloses(k) ==
  /\ link[k].state # "none"
  /\ Break({k}, TRUE)
  /\ UNCHANGED <<publisher, roomEvents, joined, received>>

BrokerStops ==
  /\ brokerUp
  /\ Break(Links, FALSE)
  /\ publisher' = IF publisher = "open" THEN "broken" ELSE publisher
  /\ UNCHANGED <<roomEvents, joined, received>>

BrokerStarts ==
  /\ ~brokerUp
  /\ brokerUp' = TRUE
  /\ UNCHANGED <<outages, link, timers, delay, publisher, roomEvents, joined, received, doubled>>

-----------------------------------------------------------------------------
\* publishToRoom: the channel is opened once and kept, also when it broke;
\* without one the event is dropped.
PublishToRoom ==
  /\ roomEvents < MaxRoomEvents
  /\ roomEvents' = roomEvents + 1
  /\ LET open == publisher = "open" \/ (publisher = "none" /\ brokerUp)
     IN  /\ publisher' = IF open THEN "open" ELSE publisher
         /\ link' = [k \in Links |-> IF open /\ link[k].state = "consuming"
                                       THEN [link[k] EXCEPT !.queue = Append(@, roomEvents + 1)] ELSE link[k]]
  /\ UNCHANGED <<brokerUp, outages, timers, delay, joined, received, doubled>>

\* handleMessage, dispatchToChannel, deliverToChannel, and the acknowledgement.
HandleMessage(k) ==
  /\ link[k].queue # <<>>
  /\ received' = IF joined THEN Append(received, Head(link[k].queue)) ELSE received
  /\ link' = [link EXCEPT ![k].queue = Tail(@)]
  /\ UNCHANGED <<brokerUp, outages, timers, delay, publisher, roomEvents, joined, doubled>>

\* onChannelSubscribe and onChannelUnsubscribe.
OnChannelSubscribe(wanted) ==
  /\ joined # wanted
  /\ joined' = wanted
  /\ UNCHANGED <<brokerUp, outages, link, timers, delay, publisher, roomEvents, received, doubled>>

GatewayFanoutNext ==
  \/ \E k \in Links : Connect(k) \/ Consume(k) \/ ConnectionCloses(k) \/ HandleMessage(k)
  \/ ConnectFails \/ BrokerStops \/ BrokerStarts \/ PublishToRoom
  \/ \E wanted \in BOOLEAN : OnChannelSubscribe(wanted)

\* Timers fire and attempts go on while the broker is up.
GatewayFanoutFairness == \A k \in Links : WF_fanoutVars(Connect(k)) /\ WF_fanoutVars(Consume(k))

GatewayFanoutSpec == GatewayFanoutInit /\ [][GatewayFanoutNext]_fanoutVars /\ GatewayFanoutFairness

-----------------------------------------------------------------------------
\* A socket gets the events of its room once and in the order of their
\* publication, across reconnects; only after a connection broke in its set-up
\* may two consumers run side by side (rabbitmq-gateway.consumer.ts:41-100).
OnceAndInOrder ==
  doubled \/ \A m, n \in DOMAIN received : m < n => received[m] < received[n]

\* While the broker is up the instance consumes, once it has reconnected
\* (rabbitmq-gateway.consumer.ts:41-100).
ConsumesAgain == brokerUp => \E k \in Links : link[k].state = "consuming"

=============================================================================
