-------------------------- MODULE BackgroundProofs ---------------------------
(***************************************************************************)
(* The safety of what goes on in the background, whatever the constants:   *)
(* presence and events of the gateway (RealtimeGateway), assignments of    *)
(* roles (AccountsAndRoles), recordings of calls (CallRecordings), scanned *)
(* files (FileVersions), incidents (Incidents), the archive of the audit   *)
(* trail and the reports of a day (DailyJobs), the queue of the field      *)
(* application (OfflineQueue), and the pipelines (Pipelines); and the      *)
(* types of all fifteen parts, with those of the deadlines (TaskDeadlines) *)
(* and of the accounts.                                                    *)
(***************************************************************************)
EXTENDS MCBackground, FiniteSetTheorems, WellFoundedInduction, TLAPS

\* A non-empty set of natural numbers has a least element.
LEMMA MinOfNat ==
  ASSUME NEW S \in SUBSET Nat, S # {}
  PROVE  Min(S) \in S /\ \A y \in S : Min(S) <= y
<1>1. PICK x \in S : \A y \in S : ~ (<<y, x>> \in OpToRel(<, Nat))
  BY NatLessThanWellFounded, WFMin
<1>2. \A y \in S : x <= y
  <2> SUFFICES ASSUME NEW y \in S PROVE x <= y
    OBVIOUS
  <2>1. ~ (<<y, x>> \in OpToRel(<, Nat))
    BY <1>1
  <2>2. ~ (y < x)
    BY <2>1 DEF OpToRel
  <2> QED BY <2>2
<1> QED BY <1>2 DEF Min

-----------------------------------------------------------------------------
\* The sockets of a user.
\* What the handler of an event of a socket does next.
StepOf(s, event) == handler[<<s, event>>].pc
StatusOf(s, event) == handler[<<s, event>>].status

\* The steps each kind of handler takes, with the status it writes; a socket that is
\* being connected was opened, one that is being disconnected was closed.
SocketIsTyped(s) ==
  /\ StepOf(s, "connect") \in {"idle", "regRead", "regWrite", "presWrite"}
  /\ StepOf(s, "connect") # "idle" => StatusOf(s, "connect") = "online"
  /\ StepOf(s, "disconnect") \in {"idle", "regRead", "regWrite", "remaining", "presWrite", "drop"}
  /\ StepOf(s, "disconnect") # "idle" => StatusOf(s, "disconnect") = "offline" /\ socket[s] = "closed"
  /\ StepOf(s, "heartbeat") \in {"idle", "regRead", "regWrite", "beat", "presWrite", "beatWrite"}
  /\ StepOf(s, "heartbeat") # "idle" => StatusOf(s, "heartbeat") = "online"
  /\ StepOf(s, "set") \in {"idle", "presWrite"}
  /\ socket[s] = "new" => /\ s \notin connections /\ StepOf(s, "connect") = "idle" /\ StepOf(s, "disconnect") = "idle"
                           /\ StepOf(s, "heartbeat") = "idle" /\ StepOf(s, "set") = "idle"
  /\ socket[s] = "open" => s \in connections

GatewayTypes ==
  /\ handler \in [Sockets \X SocketEvents -> Handler]
  /\ connections \subseteq Sockets /\ registry \subseteq Sockets
  /\ socket \in [Sockets -> {"new", "open", "closed"}]
  /\ \A s \in Sockets : SocketIsTyped(s)

\* A disconnect overtook the connect of its socket: the connect will disturb.
Doomed == \E s \in Sockets : StepOf(s, "connect") # "idle" /\ socket[s] = "closed"

\* The registry lists the connections, but those whose connect has not written it yet
\* and those whose disconnect has.
RegistryIsRight ==
  \A s \in Sockets :
    s \in registry <=> /\ s \in connections /\ StepOf(s, "connect") \notin {"regRead", "regWrite"}
                       /\ StepOf(s, "disconnect") \notin {"remaining", "presWrite", "drop"}

\* A listed user is shown online once his connect has said so.
ListedIsOnline == \A s \in registry : StepOf(s, "connect") # "presWrite" => presence = "online"

\* A user shown online has a listed connection, or one that comes or goes.
OnlineIsListed ==
  presence = "online" =>
    \/ registry # {}
    \/ \E s \in Sockets : StepOf(s, "connect") # "idle" \/ StepOf(s, "disconnect") \in {"remaining", "presWrite"}

\* The inductive invariant; a connect that was overtaken by the disconnect of its
\* socket may already have written what its end will find disturbed.
GatewayInv ==
  /\ GatewayTypes /\ presence \in PresenceStatuses
  /\ disturbed \/ ListedIsOnline
  /\ disturbed \/ Doomed \/ (RegistryIsRight /\ OnlineIsListed)

\* It implies the properties.
LEMMA GatewayInvIsEnough == GatewayInv => PresenceIsRight
<1> SUFFICES ASSUME GatewayInv, HandlersDone, ~disturbed
             PROVE  registry = connections /\ (presence = "offline" <=> connections = {})
  BY DEF PresenceIsRight
<1>1. \A s \in Sockets : StepOf(s, "connect") = "idle" /\ StepOf(s, "disconnect") = "idle"
  BY DEF HandlersDone, StepOf, SocketEvents
<1>2. RegistryIsRight /\ OnlineIsListed /\ ListedIsOnline
  BY <1>1 DEF GatewayInv, Doomed
<1>3. registry = connections
  BY <1>1, <1>2 DEF RegistryIsRight, GatewayInv, GatewayTypes, SocketIsTyped
<1>4. presence = "online" => registry # {}
  BY <1>1, <1>2 DEF OnlineIsListed
<1>5. registry # {} => presence = "online"
  BY <1>1, <1>2 DEF ListedIsOnline, GatewayInv, GatewayTypes, SocketIsTyped
<1> QED BY <1>3, <1>4, <1>5 DEF GatewayInv, PresenceStatuses

\* It holds at the start.
LEMMA GatewayInitInv == RealtimeGatewayInit => GatewayInv
<1> SUFFICES ASSUME RealtimeGatewayInit PROVE GatewayInv
  OBVIOUS
<1>1. HandlerIdle \in Handler /\ HandlerIdle.pc = "idle"
  BY DEF HandlerIdle, Handler, HandlerSteps, PresenceStatuses
<1>2. \A s \in Sockets, event \in SocketEvents : StepOf(s, event) = "idle"
  BY <1>1 DEF RealtimeGatewayInit, StepOf
<1>3. \A s \in Sockets : StepOf(s, "connect") = "idle" /\ StepOf(s, "disconnect") = "idle" /\ StepOf(s, "heartbeat") = "idle" /\ StepOf(s, "set") = "idle"
  BY <1>2 DEF SocketEvents
<1>4. GatewayTypes
  BY <1>1, <1>3 DEF RealtimeGatewayInit, GatewayTypes, SocketIsTyped
<1>5. ListedIsOnline /\ RegistryIsRight /\ OnlineIsListed
  BY DEF RealtimeGatewayInit, ListedIsOnline, RegistryIsRight, OnlineIsListed
<1> QED BY <1>4, <1>5 DEF RealtimeGatewayInit, GatewayInv, PresenceStatuses

\* One handler goes on.
LEMMA OneHandlerMoves ==
  ASSUME GatewayTypes, NEW s \in Sockets, NEW event \in SocketEvents, NEW next \in Handler,
         handler' = [handler EXCEPT ![<<s, event>>] = next]
  PROVE  /\ handler' \in [Sockets \X SocketEvents -> Handler]
         /\ StepOf(s, event)' = next.pc /\ StatusOf(s, event)' = next.status
         /\ \A t \in Sockets, other \in SocketEvents : t # s \/ other # event =>
              StepOf(t, other)' = StepOf(t, other) /\ StatusOf(t, other)' = StatusOf(t, other)
<1>1. <<s, event>> \in Sockets \X SocketEvents
  OBVIOUS
<1>2. handler' \in [Sockets \X SocketEvents -> Handler] /\ handler'[<<s, event>>] = next
  BY <1>1 DEF GatewayTypes, SocketIsTyped
<1>3. ASSUME NEW t \in Sockets, NEW other \in SocketEvents, t # s \/ other # event
      PROVE  handler'[<<t, other>>] = handler[<<t, other>>]
  <2>1. <<t, other>> # <<s, event>> /\ <<t, other>> \in Sockets \X SocketEvents
    BY <1>3
  <2> QED BY <2>1 DEF GatewayTypes, SocketIsTyped
<1> QED BY <1>2, <1>3 DEF StepOf, StatusOf

\* The handler is at step pc, the others where they were.
MovesTo(s, event, pc) ==
  /\ handler' \in [Sockets \X SocketEvents -> Handler]
  /\ StepOf(s, event)' = pc /\ (pc # "idle" => StatusOf(s, event)' = StatusOf(s, event))
  /\ \A t \in Sockets, other \in SocketEvents : t # s \/ other # event =>
       StepOf(t, other)' = StepOf(t, other) /\ StatusOf(t, other)' = StatusOf(t, other)

\* GatewayGo, GatewayBegin and ReadRegistry move one handler.
LEMMA GoMoves ==
  ASSUME GatewayTypes, NEW s \in Sockets, NEW event \in SocketEvents, NEW pc \in HandlerSteps, GatewayGo(<<s, event>>, pc)
  PROVE  MovesTo(s, event, pc)
<1> DEFINE busy == [HandlerIdle EXCEPT !.pc = pc, !.status = handler[<<s, event>>].status]
           next == IF pc = "idle" THEN HandlerIdle ELSE busy
<1>1. handler[<<s, event>>] \in Handler
  BY DEF GatewayTypes, SocketIsTyped
<1>2. busy \in Handler /\ busy.pc = pc /\ busy.status = StatusOf(s, event)
  BY <1>1 DEF HandlerIdle, Handler, StatusOf, PresenceStatuses
<1>3. HandlerIdle \in Handler /\ HandlerIdle.pc = "idle"
  BY DEF HandlerIdle, Handler, HandlerSteps, PresenceStatuses
<1>4. handler' = [handler EXCEPT ![<<s, event>>] = next]
  BY DEF GatewayGo
<1>5. next \in Handler /\ next.pc = pc /\ (pc # "idle" => next.status = StatusOf(s, event))
  BY <1>2, <1>3
<1> HIDE DEF next
<1> QED BY <1>4, <1>5, OneHandlerMoves DEF MovesTo

\* A handler that starts has the step and the status it starts with.
LEMMA BeginMoves ==
  ASSUME GatewayTypes, NEW s \in Sockets, NEW event \in SocketEvents, NEW pc \in HandlerSteps, NEW status \in PresenceStatuses,
         GatewayBegin(<<s, event>>, pc, status)
  PROVE  /\ handler' \in [Sockets \X SocketEvents -> Handler]
         /\ StepOf(s, event)' = pc /\ StatusOf(s, event)' = status
         /\ \A t \in Sockets, other \in SocketEvents : t # s \/ other # event =>
              StepOf(t, other)' = StepOf(t, other) /\ StatusOf(t, other)' = StatusOf(t, other)
<1> DEFINE next == [HandlerIdle EXCEPT !.pc = pc, !.status = status]
<1>1. next \in Handler /\ next.pc = pc /\ next.status = status
  BY DEF HandlerIdle, Handler
<1>2. handler' = [handler EXCEPT ![<<s, event>>] = next]
  BY DEF GatewayBegin
<1> HIDE DEF next
<1> QED BY <1>1, <1>2, OneHandlerMoves

\* Reading the registry: a refresh that finds nothing goes on to the presence.
LEMMA ReadMoves ==
  ASSUME GatewayTypes, NEW s \in Sockets, NEW event \in SocketEvents, ReadRegistry(<<s, event>>)
  PROVE  \E pc \in {"beat", "regWrite"} :
           MovesTo(s, event, pc) /\ StepOf(s, event) = "regRead" /\ (pc = "beat" => event = "heartbeat")
<1> DEFINE pc == IF event = "heartbeat" /\ s \notin registry THEN "beat" ELSE "regWrite"
           next == [handler[<<s, event>>] EXCEPT !.copy = registry, !.pc = pc]
<1>1. handler[<<s, event>>] \in Handler
  BY DEF GatewayTypes, SocketIsTyped
<1>2. pc \in {"beat", "regWrite"} /\ (pc = "beat" => event = "heartbeat") /\ pc \in HandlerSteps
  BY DEF HandlerSteps
<1>3. handler' = [handler EXCEPT ![<<s, event>>] = next] /\ StepOf(s, event) = "regRead"
  BY DEF ReadRegistry, GatewayAt, StepOf
<1> HIDE DEF pc
<1>4. next \in Handler /\ next.pc = pc /\ next.status = StatusOf(s, event)
  BY <1>1, <1>2 DEF GatewayTypes, Handler, StatusOf, SocketIsTyped
<1> HIDE DEF next
<1>5. MovesTo(s, event, pc)
  BY <1>3, <1>4, OneHandlerMoves DEF MovesTo
<1> QED BY <1>2, <1>3, <1>5

\* A handler that moves and touches nothing else keeps the types.
LEMMA TypesStay ==
  ASSUME GatewayTypes, NEW s \in Sockets, NEW event \in SocketEvents, NEW pc, MovesTo(s, event, pc),
         UNCHANGED socket, registry' \subseteq Sockets,
         connections' = connections \/ (connections' = connections \ {s} /\ socket[s] = "closed"),
         event = "connect" => pc \in {"idle", "regWrite", "presWrite"} /\ StepOf(s, "connect") # "idle",
         event = "disconnect" => pc \in {"idle", "regWrite", "remaining", "presWrite", "drop"} /\ StepOf(s, "disconnect") # "idle",
         event = "heartbeat" => pc \in {"idle", "regWrite", "beat", "presWrite", "beatWrite"} /\ StepOf(s, "heartbeat") # "idle",
         event = "set" => pc = "idle"
  PROVE  GatewayTypes'
<1>0. "connect" \in SocketEvents /\ "disconnect" \in SocketEvents /\ "heartbeat" \in SocketEvents /\ "set" \in SocketEvents
  BY DEF SocketEvents
<1>1. ASSUME NEW t \in Sockets PROVE SocketIsTyped(t)'
  <2>1. /\ StepOf(t, "connect")' \in {"idle", "regRead", "regWrite", "presWrite"}
        /\ StepOf(t, "connect")' # "idle" => StatusOf(t, "connect")' = "online"
        /\ StepOf(t, "connect") = "idle" => StepOf(t, "connect")' = "idle"
    BY <1>0 DEF GatewayTypes, MovesTo, SocketIsTyped
  <2>2. /\ StepOf(t, "disconnect")' \in {"idle", "regRead", "regWrite", "remaining", "presWrite", "drop"}
        /\ StepOf(t, "disconnect")' # "idle" => StatusOf(t, "disconnect")' = "offline" /\ socket[t] = "closed"
        /\ StepOf(t, "disconnect") = "idle" => StepOf(t, "disconnect")' = "idle"
    BY <1>0 DEF GatewayTypes, MovesTo, SocketIsTyped
  <2>3. /\ StepOf(t, "heartbeat")' \in {"idle", "regRead", "regWrite", "beat", "presWrite", "beatWrite"}
        /\ StepOf(t, "heartbeat")' # "idle" => StatusOf(t, "heartbeat")' = "online"
        /\ StepOf(t, "heartbeat") = "idle" => StepOf(t, "heartbeat")' = "idle"
    BY <1>0 DEF GatewayTypes, MovesTo, SocketIsTyped
  <2>4. StepOf(t, "set")' \in {"idle", "presWrite"} /\ (StepOf(t, "set") = "idle" => StepOf(t, "set")' = "idle")
    BY <1>0 DEF GatewayTypes, MovesTo, SocketIsTyped
  <2>5. /\ socket[t] = "new" => /\ t \notin connections' /\ StepOf(t, "connect") = "idle" /\ StepOf(t, "disconnect") = "idle"
                                 /\ StepOf(t, "heartbeat") = "idle" /\ StepOf(t, "set") = "idle"
        /\ socket[t] = "open" => t \in connections'
    BY DEF GatewayTypes, SocketIsTyped
  <2> QED BY <2>1, <2>2, <2>3, <2>4, <2>5 DEF SocketIsTyped
<1>2. /\ handler' \in [Sockets \X SocketEvents -> Handler] /\ socket' \in [Sockets -> {"new", "open", "closed"}]
      /\ connections' \subseteq Sockets /\ registry' \subseteq Sockets
  BY DEF GatewayTypes, MovesTo
<1> QED BY <1>1, <1>2 DEF GatewayTypes

\* Every step of the specification keeps the inductive invariant.
LEMMA GatewayNextInv == GatewayInv /\ [RealtimeGatewayNext]_gatewayVars => GatewayInv'
<1> SUFFICES ASSUME GatewayInv, [RealtimeGatewayNext]_gatewayVars PROVE GatewayInv'
  OBVIOUS
<1>0. GatewayTypes /\ presence \in PresenceStatuses /\ registry \subseteq Sockets
  BY DEF GatewayInv, GatewayTypes, SocketIsTyped
<1>e. "connect" \in SocketEvents /\ "disconnect" \in SocketEvents /\ "heartbeat" \in SocketEvents /\ "set" \in SocketEvents
  BY DEF SocketEvents
<1>p. "online" \in PresenceStatuses /\ "offline" \in PresenceStatuses
  BY DEF PresenceStatuses
<1>s. {"regRead", "regWrite", "remaining", "presWrite", "drop", "beat", "beatWrite", "idle"} \subseteq HandlerSteps
  BY DEF HandlerSteps
\* The handlers of one socket.
<1>1. ASSUME NEW s \in Sockets, HandlerStep(<<s, "connect">>) PROVE GatewayInv'
  <2>0. \A t \in Sockets : \A pc : MovesTo(s, "connect", pc) =>
          /\ StepOf(t, "disconnect")' = StepOf(t, "disconnect")
          /\ t # s => StepOf(t, "connect")' = StepOf(t, "connect")
          /\ StepOf(s, "connect")' = pc
    BY <1>e DEF MovesTo
  <2>1. CASE ReadRegistry(<<s, "connect">>)
    <3>1. MovesTo(s, "connect", "regWrite") /\ StepOf(s, "connect") = "regRead"
      BY <1>0, <1>e, <2>1, ReadMoves
    <3>2. UNCHANGED <<socket, connections, registry, presence, disturbed>>
      BY <2>1 DEF ReadRegistry
    <3>3. GatewayTypes'
      BY <1>0, <1>e, <3>1, <3>2, TypesStay
    <3>4. (Doomed => Doomed') /\ (RegistryIsRight => RegistryIsRight')
      BY <2>0, <3>1, <3>2 DEF Doomed, RegistryIsRight
    <3>5. (ListedIsOnline => ListedIsOnline') /\ (OnlineIsListed => OnlineIsListed')
      BY <1>0, <2>0, <3>1, <3>2 DEF ListedIsOnline, OnlineIsListed
    <3> QED BY <1>0, <3>2, <3>3, <3>4, <3>5 DEF GatewayInv
  <2>2. CASE WriteRegistry(<<s, "connect">>)
    <3>1. MovesTo(s, "connect", "presWrite") /\ StepOf(s, "connect") = "regWrite"
      BY <1>0, <1>e, <1>s, <2>2, GoMoves DEF WriteRegistry, GatewayAt, StepOf
    <3>2. UNCHANGED <<socket, connections, presence>> /\ (~disturbed' => ~disturbed /\ registry' = registry \cup {s})
      BY <2>2 DEF WriteRegistry, Listed
    <3>3. registry' \subseteq Sockets
      BY <1>0, <1>e, <2>2 DEF WriteRegistry, Listed, GatewayTypes, Handler, SocketIsTyped
    <3>4. GatewayTypes'
      BY <1>0, <1>e, <3>1, <3>2, <3>3, TypesStay
    <3>5. Doomed => Doomed'
      BY <2>0, <3>1, <3>2 DEF Doomed
    <3>6. ~disturbed' /\ ~Doomed /\ RegistryIsRight => RegistryIsRight'
      <4> SUFFICES ASSUME ~disturbed', ~Doomed, RegistryIsRight PROVE RegistryIsRight'
        OBVIOUS
      <4>1. socket[s] # "closed" /\ StepOf(s, "connect") # "idle"
        BY <3>1 DEF Doomed
      <4>2. s \in connections /\ StepOf(s, "disconnect") = "idle"
        BY <1>0, <4>1 DEF GatewayTypes, SocketIsTyped
      <4> QED BY <2>0, <3>1, <3>2, <4>2 DEF RegistryIsRight
    <3>7. ~disturbed' /\ ListedIsOnline => ListedIsOnline'
      BY <1>0, <2>0, <3>1, <3>2 DEF ListedIsOnline
    <3>8. ~disturbed' => OnlineIsListed'
      BY <2>0, <3>1, <3>2 DEF OnlineIsListed
    <3> QED BY <1>0, <3>2, <3>4, <3>5, <3>6, <3>7, <3>8 DEF GatewayInv
  <2>3. CASE WritePresence(<<s, "connect">>)
    <3>1. MovesTo(s, "connect", "idle") /\ StepOf(s, "connect") = "presWrite"
      BY <1>0, <1>e, <1>s, <2>3, GoMoves DEF WritePresence, GatewayAt, StepOf
    <3>2. UNCHANGED <<socket, connections, registry>> /\ (~disturbed' => ~disturbed /\ socket[s] # "closed")
      BY <2>3 DEF WritePresence, Overtaken
    <3>3. presence' = "online"
      BY <1>0, <2>3, <3>1 DEF WritePresence, GatewayTypes, StatusOf, SocketIsTyped
    <3>4. GatewayTypes'
      BY <1>0, <1>e, <3>1, <3>2, TypesStay
    <3>5. ~disturbed' /\ Doomed => Doomed'
      <4> SUFFICES ASSUME ~disturbed', NEW t \in Sockets, StepOf(t, "connect") # "idle", socket[t] = "closed" PROVE Doomed'
        BY DEF Doomed
      <4>1. t # s
        BY <3>2
      <4> QED BY <2>0, <3>1, <3>2, <4>1 DEF Doomed
    <3>6. RegistryIsRight => RegistryIsRight'
      BY <2>0, <3>1, <3>2 DEF RegistryIsRight
    <3>7. ListedIsOnline'
      BY <3>3 DEF ListedIsOnline
    <3>8. ~disturbed' /\ RegistryIsRight => OnlineIsListed'
      <4> SUFFICES ASSUME ~disturbed', RegistryIsRight PROVE s \in registry
        BY <3>2 DEF OnlineIsListed
      <4>1. s \in connections /\ StepOf(s, "disconnect") = "idle"
        BY <1>0, <3>1, <3>2 DEF GatewayTypes, SocketIsTyped
      <4> QED BY <3>1, <4>1 DEF RegistryIsRight
    <3> QED BY <1>p, <3>2, <3>3, <3>4, <3>5, <3>6, <3>7, <3>8 DEF GatewayInv
  <2>4. ~ CheckRemaining(<<s, "connect">>) /\ ~ DropConnection(<<s, "connect">>) /\ ~ Beat(<<s, "connect">>) /\ ~ BeatWrite(<<s, "connect">>)
    BY <1>0 DEF CheckRemaining, DropConnection, Beat, BeatWrite, GatewayAt, GatewayTypes, StepOf, SocketIsTyped
  <2> QED BY <1>1, <2>1, <2>2, <2>3, <2>4 DEF HandlerStep
<1>2. ASSUME NEW s \in Sockets, HandlerStep(<<s, "disconnect">>) PROVE GatewayInv'
  <2>0. \A t \in Sockets : \A pc : MovesTo(s, "disconnect", pc) =>
          /\ StepOf(t, "connect")' = StepOf(t, "connect")
          /\ t # s => StepOf(t, "disconnect")' = StepOf(t, "disconnect")
          /\ StepOf(s, "disconnect")' = pc
    BY <1>e DEF MovesTo
  <2>1. CASE ReadRegistry(<<s, "disconnect">>)
    <3>1. MovesTo(s, "disconnect", "regWrite") /\ StepOf(s, "disconnect") = "regRead"
      BY <1>0, <1>e, <2>1, ReadMoves
    <3>2. UNCHANGED <<socket, connections, registry, presence, disturbed>>
      BY <2>1 DEF ReadRegistry
    <3>3. GatewayTypes'
      BY <1>0, <1>e, <3>1, <3>2, TypesStay
    <3>4. (Doomed => Doomed') /\ (RegistryIsRight => RegistryIsRight')
      BY <2>0, <3>1, <3>2 DEF Doomed, RegistryIsRight
    <3>5. (ListedIsOnline => ListedIsOnline') /\ (OnlineIsListed => OnlineIsListed')
      BY <1>0, <2>0, <3>1, <3>2 DEF ListedIsOnline, OnlineIsListed
    <3> QED BY <1>0, <3>2, <3>3, <3>4, <3>5 DEF GatewayInv
  <2>2. CASE WriteRegistry(<<s, "disconnect">>)
    <3>1. MovesTo(s, "disconnect", "remaining") /\ StepOf(s, "disconnect") = "regWrite"
      BY <1>0, <1>e, <1>s, <2>2, GoMoves DEF WriteRegistry, GatewayAt, StepOf
    <3>2. UNCHANGED <<socket, connections, presence>> /\ (~disturbed' => ~disturbed /\ registry' = registry \ {s})
      BY <2>2 DEF WriteRegistry, Listed
    <3>3. registry' \subseteq Sockets
      BY <1>0, <1>e, <2>2 DEF WriteRegistry, Listed, GatewayTypes, Handler, SocketIsTyped
    <3>4. GatewayTypes'
      BY <1>0, <1>e, <3>1, <3>2, <3>3, TypesStay
    <3>5. (Doomed => Doomed') /\ (~disturbed' /\ RegistryIsRight => RegistryIsRight')
      BY <2>0, <3>1, <3>2 DEF Doomed, RegistryIsRight
    <3>6. ~disturbed' /\ ListedIsOnline => ListedIsOnline'
      BY <1>0, <2>0, <3>1, <3>2 DEF ListedIsOnline
    <3>7. OnlineIsListed'
      BY <2>0, <3>1 DEF OnlineIsListed
    <3> QED BY <1>0, <3>2, <3>4, <3>5, <3>6, <3>7 DEF GatewayInv
  <2>3. CASE CheckRemaining(<<s, "disconnect">>)
    <3>1. PICK pc \in {"presWrite", "drop"} : MovesTo(s, "disconnect", pc) /\ (pc = "drop" => registry # {})
      BY <1>0, <1>e, <1>s, <2>3, GoMoves DEF CheckRemaining
    <3>2. UNCHANGED <<socket, connections, registry, presence, disturbed>> /\ StepOf(s, "disconnect") = "remaining"
      BY <2>3 DEF CheckRemaining, GatewayAt, StepOf
    <3>3. GatewayTypes'
      BY <1>0, <1>e, <3>1, <3>2, TypesStay
    <3>4. (Doomed => Doomed') /\ (RegistryIsRight => RegistryIsRight')
      BY <2>0, <3>1, <3>2 DEF Doomed, RegistryIsRight
    <3>5. ListedIsOnline => ListedIsOnline'
      BY <1>0, <2>0, <3>1, <3>2 DEF ListedIsOnline
    <3>6. OnlineIsListed'
      BY <2>0, <3>1, <3>2 DEF OnlineIsListed
    <3> QED BY <1>0, <3>2, <3>3, <3>4, <3>5, <3>6 DEF GatewayInv
  <2>4. CASE WritePresence(<<s, "disconnect">>)
    <3>1. MovesTo(s, "disconnect", "drop") /\ StepOf(s, "disconnect") = "presWrite"
      BY <1>0, <1>e, <1>s, <2>4, GoMoves DEF WritePresence, GatewayAt, StepOf
    <3>2. UNCHANGED <<socket, connections, registry>> /\ (~disturbed' => ~disturbed /\ registry = {})
      BY <2>4 DEF WritePresence, Overtaken
    <3>3. presence' = "offline"
      BY <1>0, <2>4, <3>1 DEF WritePresence, GatewayTypes, StatusOf, SocketIsTyped
    <3>4. GatewayTypes'
      BY <1>0, <1>e, <3>1, <3>2, TypesStay
    <3>5. (Doomed => Doomed') /\ (RegistryIsRight => RegistryIsRight')
      BY <2>0, <3>1, <3>2 DEF Doomed, RegistryIsRight
    <3>6. (~disturbed' => ListedIsOnline') /\ OnlineIsListed'
      BY <3>2, <3>3 DEF ListedIsOnline, OnlineIsListed
    <3> QED BY <1>p, <3>2, <3>3, <3>4, <3>5, <3>6 DEF GatewayInv
  <2>5. CASE DropConnection(<<s, "disconnect">>)
    <3>1. MovesTo(s, "disconnect", "idle") /\ StepOf(s, "disconnect") = "drop"
      BY <1>0, <1>e, <1>s, <2>5, GoMoves DEF DropConnection, GatewayAt, StepOf
    <3>2. UNCHANGED <<socket, registry, presence, disturbed>> /\ connections' = connections \ {s} /\ socket[s] = "closed"
      BY <1>0, <2>5, <3>1 DEF DropConnection, GatewayTypes, SocketIsTyped
    <3>3. GatewayTypes'
      BY <1>0, <1>e, <3>1, <3>2, TypesStay
    <3>4. (Doomed => Doomed') /\ (RegistryIsRight => RegistryIsRight')
      BY <2>0, <3>1, <3>2 DEF Doomed, RegistryIsRight
    <3>5. (ListedIsOnline => ListedIsOnline') /\ (OnlineIsListed => OnlineIsListed')
      BY <1>0, <2>0, <3>1, <3>2 DEF ListedIsOnline, OnlineIsListed
    <3> QED BY <1>0, <3>2, <3>3, <3>4, <3>5 DEF GatewayInv
  <2>6. ~ Beat(<<s, "disconnect">>) /\ ~ BeatWrite(<<s, "disconnect">>)
    BY <1>0 DEF Beat, BeatWrite, GatewayAt, GatewayTypes, StepOf, SocketIsTyped
  <2> QED BY <1>2, <2>1, <2>2, <2>3, <2>4, <2>5, <2>6 DEF HandlerStep
\* What leaves connects and disconnects alone, and changes the registry or the presence
\* only as the open connections say.
<1>3. ASSUME GatewayTypes', presence' \in PresenceStatuses, UNCHANGED <<socket, connections>>,
             \A t \in Sockets : StepOf(t, "connect")' = StepOf(t, "connect") /\ StepOf(t, "disconnect")' = StepOf(t, "disconnect"),
             ~disturbed' => ~disturbed /\ registry' = registry,
             \/ ~disturbed' => presence' = presence
             \/ \E s \in Sockets : (~disturbed' => socket[s] = "open") /\ presence' = "online"
      PROVE  GatewayInv'
  <2>1. /\ Doomed => Doomed'
        /\ ~disturbed' /\ RegistryIsRight => RegistryIsRight'
    BY <1>3 DEF Doomed, RegistryIsRight
  <2>2. ~disturbed' /\ ListedIsOnline => ListedIsOnline'
    BY <1>0, <1>3 DEF ListedIsOnline
  <2>3. ~disturbed' /\ ListedIsOnline /\ RegistryIsRight /\ OnlineIsListed => OnlineIsListed'
    <3> SUFFICES ASSUME ~disturbed', RegistryIsRight, OnlineIsListed PROVE OnlineIsListed'
      OBVIOUS
    <3>1. CASE presence' = presence
      BY <1>3, <3>1 DEF OnlineIsListed
    <3>2. ASSUME NEW s \in Sockets, socket[s] = "open" PROVE OnlineIsListed'
      <4>1. s \in connections /\ StepOf(s, "disconnect") = "idle"
        BY <1>0, <3>2 DEF GatewayTypes, SocketIsTyped
      <4>2. s \in registry \/ StepOf(s, "connect") # "idle"
        BY <4>1 DEF RegistryIsRight
      <4> QED BY <1>3, <4>2 DEF OnlineIsListed
    <3> QED BY <1>3, <3>1, <3>2
  <2> QED BY <1>3, <2>1, <2>2, <2>3 DEF GatewayInv
<1>4. ASSUME NEW s \in Sockets, NEW event \in {"heartbeat", "set"}, HandlerStep(<<s, event>>) PROVE GatewayInv'
  <2>0. event \in SocketEvents /\ \A t \in Sockets : \A pc : MovesTo(s, event, pc) =>
          StepOf(t, "connect")' = StepOf(t, "connect") /\ StepOf(t, "disconnect")' = StepOf(t, "disconnect")
    BY <1>e DEF MovesTo
  <2>a. socket[s] # "closed" /\ StepOf(s, event) # "idle" => socket[s] = "open"
    BY <1>0 DEF GatewayTypes, SocketIsTyped
  <2>b. StepOf(s, event) \in {"idle", "regRead", "regWrite", "beat", "presWrite", "beatWrite"} /\ (event = "set" => StepOf(s, event) \in {"idle", "presWrite"})
    BY <1>0 DEF GatewayTypes, SocketIsTyped
  <2>1. CASE ReadRegistry(<<s, event>>)
    <3>1. PICK pc \in {"beat", "regWrite"} : MovesTo(s, event, pc) /\ StepOf(s, event) = "regRead"
      BY <1>0, <2>0, <2>1, ReadMoves
    <3>2. UNCHANGED <<socket, connections, registry, presence, disturbed>> /\ event = "heartbeat"
      BY <2>1, <2>b, <3>1 DEF ReadRegistry
    <3>3. GatewayTypes'
      BY <1>0, <2>0, <3>1, <3>2, TypesStay
    <3> QED BY <1>0, <1>3, <2>0, <3>1, <3>2, <3>3
  <2>2. CASE WriteRegistry(<<s, event>>)
    <3>1. MovesTo(s, event, "beat") /\ StepOf(s, event) = "regWrite" /\ event = "heartbeat"
      BY <1>0, <1>s, <2>0, <2>2, <2>b, GoMoves DEF WriteRegistry, GatewayAt, StepOf
    <3>2. UNCHANGED <<socket, connections, presence>> /\ (~disturbed' => ~disturbed /\ registry' = registry)
      BY <2>2 DEF WriteRegistry, Listed
    <3>3. registry' \subseteq Sockets
      BY <1>0, <2>0, <2>2 DEF WriteRegistry, Listed, GatewayTypes, Handler, SocketIsTyped
    <3>4. GatewayTypes'
      BY <1>0, <2>0, <3>1, <3>2, <3>3, TypesStay
    <3> QED BY <1>0, <1>3, <2>0, <3>1, <3>2, <3>4
  <2>3. CASE Beat(<<s, event>>)
    <3>1. PICK pc \in {"presWrite", "beatWrite"} : MovesTo(s, event, pc)
      BY <1>0, <1>s, <2>0, <2>3, GoMoves DEF Beat
    <3>2. UNCHANGED <<socket, connections, registry, presence, disturbed>> /\ event = "heartbeat" /\ StepOf(s, event) = "beat"
      BY <2>3, <2>b DEF Beat, GatewayAt, StepOf
    <3>3. GatewayTypes'
      BY <1>0, <2>0, <3>1, <3>2, TypesStay
    <3> QED BY <1>0, <1>3, <2>0, <3>1, <3>2, <3>3
  <2>4. CASE BeatWrite(<<s, event>>)
    <3>1. MovesTo(s, event, "idle")
      BY <1>0, <1>s, <2>0, <2>4, GoMoves DEF BeatWrite
    <3>2. /\ UNCHANGED <<socket, connections, registry>> /\ event = "heartbeat" /\ StepOf(s, event) = "beatWrite"
          /\ presence' = "online" /\ (~disturbed' => ~disturbed /\ presence' = presence)
      BY <2>4, <2>b DEF BeatWrite, GatewayAt, StepOf
    <3>3. GatewayTypes'
      BY <1>0, <2>0, <3>1, <3>2, TypesStay
    <3> QED BY <1>0, <1>3, <1>p, <2>0, <3>1, <3>2, <3>3
  <2>5. CASE WritePresence(<<s, event>>)
    <3>1. MovesTo(s, event, "idle")
      BY <1>0, <1>s, <2>0, <2>5, GoMoves DEF WritePresence
    <3>2. /\ UNCHANGED <<socket, connections, registry>> /\ StepOf(s, event) = "presWrite"
          /\ presence' = StatusOf(s, event)
          /\ ~disturbed' => ~disturbed /\ socket[s] # "closed" /\ ~(event = "set" /\ StatusOf(s, event) = "offline")
      BY <2>5 DEF WritePresence, Overtaken, GatewayAt, StepOf, StatusOf
    <3>3. GatewayTypes'
      BY <1>0, <2>0, <3>1, <3>2, TypesStay
    <3>4. presence' \in PresenceStatuses /\ (event = "heartbeat" => presence' = "online")
      BY <1>0, <2>0, <3>2 DEF GatewayTypes, Handler, StatusOf, SocketIsTyped
    <3>5. ~disturbed' => presence' = "online" /\ socket[s] = "open"
      BY <2>a, <3>2, <3>4 DEF PresenceStatuses
    <3>6. CASE disturbed'
      BY <1>3, <2>0, <3>1, <3>2, <3>3, <3>4, <3>6
    <3>7. CASE ~disturbed'
      BY <1>3, <2>0, <3>1, <3>2, <3>3, <3>4, <3>5, <3>7
    <3> QED BY <3>6, <3>7
  <2>6. ~ CheckRemaining(<<s, event>>) /\ ~ DropConnection(<<s, event>>)
    BY <2>b DEF CheckRemaining, DropConnection, GatewayAt, StepOf
  <2> QED BY <1>4, <2>1, <2>2, <2>3, <2>4, <2>5, <2>6 DEF HandlerStep
<1>5. ASSUME NEW s \in Sockets, HandleConnection(s) PROVE GatewayInv'
  <2>1. /\ socket[s] = "new" /\ socket' = [socket EXCEPT ![s] = "open"] /\ connections' = connections \cup {s}
        /\ UNCHANGED <<registry, presence, disturbed>>
    BY <1>5 DEF HandleConnection
  <2>2. /\ handler' \in [Sockets \X SocketEvents -> Handler]
        /\ StepOf(s, "connect")' = "regRead" /\ StatusOf(s, "connect")' = "online"
        /\ \A t \in Sockets, other \in SocketEvents : t # s \/ other # "connect" =>
              StepOf(t, other)' = StepOf(t, other) /\ StatusOf(t, other)' = StatusOf(t, other)
    BY <1>0, <1>5, <1>e, <1>s, <1>p, BeginMoves DEF HandleConnection
  <2>3. \A t \in Sockets : /\ t # s => StepOf(t, "connect")' = StepOf(t, "connect") /\ StatusOf(t, "connect")' = StatusOf(t, "connect") /\ socket'[t] = socket[t]
                           /\ StepOf(t, "disconnect")' = StepOf(t, "disconnect") /\ StatusOf(t, "disconnect")' = StatusOf(t, "disconnect")
                           /\ StepOf(t, "heartbeat")' = StepOf(t, "heartbeat") /\ StatusOf(t, "heartbeat")' = StatusOf(t, "heartbeat")
                           /\ StepOf(t, "set")' = StepOf(t, "set")
    BY <1>0, <1>e, <2>1, <2>2 DEF GatewayTypes, SocketIsTyped
  <2>4. StepOf(s, "connect") = "idle" /\ StepOf(s, "disconnect") = "idle" /\ s \notin connections /\ socket'[s] = "open"
    BY <1>0, <2>1 DEF GatewayTypes, SocketIsTyped
  <2>a. socket' \in [Sockets -> {"new", "open", "closed"}] /\ connections' \subseteq Sockets
    BY <1>0, <2>1 DEF GatewayTypes
  <2>b. ASSUME NEW t \in Sockets PROVE SocketIsTyped(t)'
    <3>0. SocketIsTyped(t)
      BY <1>0 DEF GatewayTypes
    <3>1. CASE t = s
      <4>1. SocketIsTyped(s)'
        BY <2>1, <2>2, <2>3, <2>4, <3>0, <3>1 DEF SocketIsTyped, StepOf, StatusOf
      <4> QED BY <3>1, <4>1
    <3>2. CASE t # s
      BY <2>1, <2>3, <3>0, <3>2 DEF SocketIsTyped
    <3> QED BY <3>1, <3>2
  <2>5. GatewayTypes'
    BY <1>0, <2>1, <2>2, <2>a, <2>b DEF GatewayTypes
  <2>6. Doomed => Doomed'
    BY <2>1, <2>3, <2>4 DEF Doomed
  <2>7. RegistryIsRight => RegistryIsRight'
    BY <2>1, <2>2, <2>3, <2>4 DEF RegistryIsRight
  <2>8. ListedIsOnline => ListedIsOnline'
    BY <1>0, <2>1, <2>2, <2>3, <2>4 DEF ListedIsOnline
  <2>9. OnlineIsListed'
    BY <2>2 DEF OnlineIsListed
  <2> QED BY <1>0, <2>1, <2>5, <2>6, <2>7, <2>8, <2>9 DEF GatewayInv
<1>6. ASSUME NEW s \in Sockets, HandleDisconnect(s) PROVE GatewayInv'
  <2>1. /\ socket[s] = "open" /\ socket' = [socket EXCEPT ![s] = "closed"]
        /\ UNCHANGED <<connections, registry, presence, disturbed>>
    BY <1>6 DEF HandleDisconnect
  <2>2. /\ handler' \in [Sockets \X SocketEvents -> Handler]
        /\ StepOf(s, "disconnect")' = "regRead" /\ StatusOf(s, "disconnect")' = "offline"
        /\ \A t \in Sockets, other \in SocketEvents : t # s \/ other # "disconnect" =>
              StepOf(t, other)' = StepOf(t, other) /\ StatusOf(t, other)' = StatusOf(t, other)
    BY <1>0, <1>6, <1>e, <1>s, <1>p, BeginMoves DEF HandleDisconnect
  <2>3. \A t \in Sockets : /\ t # s => StepOf(t, "disconnect")' = StepOf(t, "disconnect") /\ StatusOf(t, "disconnect")' = StatusOf(t, "disconnect") /\ socket'[t] = socket[t]
                           /\ StepOf(t, "connect")' = StepOf(t, "connect") /\ StatusOf(t, "connect")' = StatusOf(t, "connect")
                           /\ StepOf(t, "heartbeat")' = StepOf(t, "heartbeat") /\ StatusOf(t, "heartbeat")' = StatusOf(t, "heartbeat")
                           /\ StepOf(t, "set")' = StepOf(t, "set")
    BY <1>0, <1>e, <2>1, <2>2 DEF GatewayTypes, SocketIsTyped
  <2>4. StepOf(s, "disconnect") = "idle" /\ socket'[s] = "closed"
    BY <1>0, <2>1 DEF GatewayTypes, SocketIsTyped
  <2>a. socket' \in [Sockets -> {"new", "open", "closed"}]
    BY <1>0, <2>1 DEF GatewayTypes
  <2>b. ASSUME NEW t \in Sockets PROVE SocketIsTyped(t)'
    <3>0. SocketIsTyped(t)
      BY <1>0 DEF GatewayTypes
    <3>1. CASE t = s
      <4>1. SocketIsTyped(s)'
        BY <2>1, <2>2, <2>3, <2>4, <3>0, <3>1 DEF SocketIsTyped, StepOf, StatusOf
      <4> QED BY <3>1, <4>1
    <3>2. CASE t # s
      BY <2>1, <2>3, <3>0, <3>2 DEF SocketIsTyped
    <3> QED BY <3>1, <3>2
  <2>5. GatewayTypes'
    BY <1>0, <2>1, <2>2, <2>a, <2>b DEF GatewayTypes
  <2>6. Doomed => Doomed'
    BY <2>1, <2>3, <2>4 DEF Doomed
  <2>7. RegistryIsRight => RegistryIsRight'
    <3> SUFFICES ASSUME RegistryIsRight, NEW t \in Sockets
                 PROVE  t \in registry <=> /\ t \in connections /\ StepOf(t, "connect")' \notin {"regRead", "regWrite"}
                                           /\ StepOf(t, "disconnect")' \notin {"remaining", "presWrite", "drop"}
      BY <2>1 DEF RegistryIsRight
    <3>1. StepOf(t, "connect")' = StepOf(t, "connect")
      BY <2>3
    <3>2. StepOf(t, "disconnect")' = StepOf(t, "disconnect") \/ (StepOf(t, "disconnect")' = "regRead" /\ StepOf(t, "disconnect") = "idle")
      BY <2>2, <2>3, <2>4
    <3> QED BY <3>1, <3>2 DEF RegistryIsRight
  <2>8. ListedIsOnline => ListedIsOnline'
    BY <1>0, <2>1, <2>3 DEF ListedIsOnline
  <2>9. OnlineIsListed => OnlineIsListed'
    <3>1. \A t \in Sockets : StepOf(t, "disconnect") \in {"remaining", "presWrite"} => t # s /\ StepOf(t, "disconnect")' = StepOf(t, "disconnect")
      BY <2>3, <2>4
    <3> QED BY <2>1, <2>3, <3>1 DEF OnlineIsListed
  <2> QED BY <1>0, <2>1, <2>5, <2>6, <2>7, <2>8, <2>9 DEF GatewayInv
<1>7. ASSUME NEW s \in Sockets, OnHeartbeat(s) \/ \E status \in PresenceStatuses : OnSetPresence(s, status) PROVE GatewayInv'
  <2>1. UNCHANGED <<socket, connections, registry, presence, disturbed>> /\ socket[s] = "open"
    BY <1>7 DEF OnHeartbeat, OnSetPresence
  <2>2. PICK event \in {"heartbeat", "set"}, pc \in {"regRead", "presWrite"}, status \in PresenceStatuses :
          /\ GatewayBegin(<<s, event>>, pc, status)
          /\ event = "heartbeat" => status = "online"
          /\ event = "set" => pc = "presWrite"
    BY <1>7, <1>p DEF OnHeartbeat, OnSetPresence
  <2>3. /\ handler' \in [Sockets \X SocketEvents -> Handler]
        /\ StepOf(s, event)' = pc /\ StatusOf(s, event)' = status
        /\ \A t \in Sockets, other \in SocketEvents : t # s \/ other # event =>
              StepOf(t, other)' = StepOf(t, other) /\ StatusOf(t, other)' = StatusOf(t, other)
    <3>1. event \in SocketEvents /\ pc \in HandlerSteps
      BY <1>e, <1>s
    <3> QED BY <1>0, <2>2, <3>1, BeginMoves
  <2>4. \A t \in Sockets : /\ StepOf(t, "disconnect")' = StepOf(t, "disconnect") /\ StatusOf(t, "disconnect")' = StatusOf(t, "disconnect")
                            /\ StepOf(t, "connect")' = StepOf(t, "connect") /\ StatusOf(t, "connect")' = StatusOf(t, "connect")
    BY <1>e, <2>3
  <2>5. \A t \in Sockets : \/ t = s
                            \/ /\ StepOf(t, "heartbeat")' = StepOf(t, "heartbeat") /\ StatusOf(t, "heartbeat")' = StatusOf(t, "heartbeat")
                               /\ StepOf(t, "set")' = StepOf(t, "set")
    BY <1>e, <2>3
  <2>6. /\ StepOf(s, "heartbeat")' \in {"idle", "regRead", "regWrite", "beat", "presWrite", "beatWrite"}
        /\ StepOf(s, "heartbeat")' # "idle" => StatusOf(s, "heartbeat")' = "online"
        /\ StepOf(s, "set")' \in {"idle", "presWrite"}
    BY <1>0, <1>e, <2>2, <2>3 DEF GatewayTypes, SocketIsTyped
  <2>7. GatewayTypes'
    BY <1>0, <2>1, <2>3, <2>4, <2>5, <2>6 DEF GatewayTypes, SocketIsTyped
  <2> QED BY <1>0, <1>3, <2>1, <2>4, <2>7
<1>8. CASE RegistryExpires \/ PresenceExpires
  <2>1. UNCHANGED <<socket, connections, handler>> /\ registry' \subseteq Sockets /\ presence' \in PresenceStatuses /\ disturbed'
    BY <1>0, <1>8, <1>p DEF RegistryExpires, PresenceExpires
  <2>2. GatewayTypes'
    BY <1>0, <2>1 DEF GatewayTypes, StepOf, StatusOf, SocketIsTyped
  <2> QED BY <2>1, <2>2 DEF GatewayInv
<1>9. ASSUME NEW i, InstanceStops(i) PROVE GatewayInv'
  <2> DEFINE lost == {s \in Sockets : InstanceOf[s] = i}
  <2>1. /\ socket' = [s \in Sockets |-> IF s \in lost /\ socket[s] = "open" THEN "closed" ELSE socket[s]]
        /\ connections' = connections \ lost
        /\ handler' = [h \in Sockets \X SocketEvents |-> IF h[1] \in lost THEN HandlerIdle ELSE handler[h]]
        /\ disturbed' /\ UNCHANGED <<registry, presence>>
    BY <1>9 DEF InstanceStops
  <2> HIDE DEF lost
  <2>2. HandlerIdle \in Handler /\ HandlerIdle.pc = "idle"
    BY DEF HandlerIdle, Handler, HandlerSteps, PresenceStatuses
  <2>3. handler' \in [Sockets \X SocketEvents -> Handler]
    BY <1>0, <2>1, <2>2 DEF GatewayTypes, SocketIsTyped
  <2>4. \A t \in Sockets, event \in SocketEvents :
          /\ t \in lost => StepOf(t, event)' = "idle"
          /\ t \notin lost => StepOf(t, event)' = StepOf(t, event) /\ StatusOf(t, event)' = StatusOf(t, event)
    <3> SUFFICES ASSUME NEW t \in Sockets, NEW event \in SocketEvents
                 PROVE  handler'[<<t, event>>] = IF t \in lost THEN HandlerIdle ELSE handler[<<t, event>>]
      BY <2>2 DEF StepOf, StatusOf
    <3>1. <<t, event>> \in Sockets \X SocketEvents /\ <<t, event>>[1] = t
      OBVIOUS
    <3> QED BY <2>1, <3>1
  <2>5. ASSUME NEW t \in Sockets
        PROVE  (/\ StepOf(t, "connect") \in {"idle", "regRead", "regWrite", "presWrite"}
                /\ StepOf(t, "connect") # "idle" => StatusOf(t, "connect") = "online"
                /\ StepOf(t, "disconnect") \in {"idle", "regRead", "regWrite", "remaining", "presWrite", "drop"}
                /\ StepOf(t, "disconnect") # "idle" => StatusOf(t, "disconnect") = "offline" /\ socket[t] = "closed"
                /\ StepOf(t, "heartbeat") \in {"idle", "regRead", "regWrite", "beat", "presWrite", "beatWrite"}
                /\ StepOf(t, "heartbeat") # "idle" => StatusOf(t, "heartbeat") = "online"
                /\ StepOf(t, "set") \in {"idle", "presWrite"}
                /\ socket[t] = "new" => /\ t \notin connections /\ StepOf(t, "connect") = "idle" /\ StepOf(t, "disconnect") = "idle"
                                         /\ StepOf(t, "heartbeat") = "idle" /\ StepOf(t, "set") = "idle"
                /\ socket[t] = "open" => t \in connections)'
    <3>1. CASE t \in lost
      BY <1>0, <1>e, <2>1, <2>4, <3>1 DEF GatewayTypes, SocketIsTyped
    <3>2. CASE t \notin lost
      BY <1>0, <1>e, <2>1, <2>4, <3>2 DEF GatewayTypes, SocketIsTyped
    <3> QED BY <3>1, <3>2
  <2>6. socket' \in [Sockets -> {"new", "open", "closed"}]
    BY <1>0, <2>1 DEF GatewayTypes, SocketIsTyped
  <2>7. GatewayTypes'
    BY <1>0, <2>1, <2>3, <2>5, <2>6 DEF GatewayTypes, SocketIsTyped
  <2> QED BY <1>0, <2>1, <2>7 DEF GatewayInv
<1>10. CASE UNCHANGED gatewayVars
  BY <1>10 DEF gatewayVars, GatewayInv, GatewayTypes, Doomed, RegistryIsRight, ListedIsOnline, OnlineIsListed, StepOf, StatusOf, SocketIsTyped
<1>11. ASSUME NEW h \in Sockets \X SocketEvents, HandlerStep(h) PROVE GatewayInv'
  <2>1. PICK s \in Sockets, event \in SocketEvents : h = <<s, event>>
    OBVIOUS
  <2> QED BY <1>1, <1>2, <1>4, <1>11, <2>1 DEF SocketEvents
<1> QED BY <1>5, <1>6, <1>7, <1>8, <1>9, <1>10, <1>11 DEF RealtimeGatewayNext

\* For any number of sockets, instances and handlers: once the handlers are done and
\* nothing was overtaken, expired or stopped, the registry lists the connections and
\* the user is shown offline if there is none (realtime.gateway.ts:88-160).
THEOREM PresenceFollowsSockets == RealtimeGatewaySpec => []PresenceIsRight
BY GatewayInvIsEnough, GatewayInitInv, GatewayNextInv, PTL DEF RealtimeGatewaySpec

-----------------------------------------------------------------------------
\* The events of a room.
\* The numbers of a sequence ascend, and none is above n.
Ascending(s, n) ==
  /\ \A i \in 1..Len(s) : s[i] <= n
  /\ \A i, j \in 1..Len(s) : i < j => s[i] < s[j]

\* What was received comes before what waits in a queue.
Before(s, t) == \A i \in 1..Len(s), j \in 1..Len(t) : s[i] < t[j]

\* The types the proof needs.
FanoutTypes ==
  /\ link \in [Links -> [state: {"none", "setup", "consuming"}, queue: Seq(Nat)]]
  /\ roomEvents \in Nat /\ received \in Seq(Nat)

\* As long as no connection broke in its set-up, there is one connection or one timer.
OneConnection ==
  \/ timers = 1 /\ \A k \in Links : link[k] = NoLink
  \/ timers = 0 /\ \E k \in Links : link[k].state # "none" /\ \A m \in Links : m # k => link[m] = NoLink

\* The inductive invariant.
FanoutInv ==
  /\ FanoutTypes
  /\ \A k \in Links : link[k].state = "none" => link[k].queue = <<>>
  /\ doubled \/ (/\ OneConnection
                 /\ Ascending(received, roomEvents)
                 /\ \A k \in Links : Ascending(link[k].queue, roomEvents) /\ Before(received, link[k].queue))

\* It implies the properties.
LEMMA FanoutInvIsEnough == FanoutInv => OnceAndInOrder
<1> SUFFICES ASSUME FanoutInv PROVE OnceAndInOrder
  OBVIOUS
<1>1. received \in Seq(Nat) /\ (doubled \/ Ascending(received, roomEvents))
  BY DEF FanoutInv, FanoutTypes
<1> QED BY <1>1 DEF OnceAndInOrder, Ascending

\* The next number keeps a sequence ascending.
LEMMA AscendingAppend ==
  ASSUME NEW n \in Nat, NEW s \in Seq(Nat), NEW t \in Seq(Nat), Ascending(s, n), Before(t, s), Ascending(t, n)
  PROVE  /\ Append(s, n + 1) \in Seq(Nat) /\ Ascending(Append(s, n + 1), n + 1)
         /\ Before(t, Append(s, n + 1)) /\ Ascending(t, n + 1)
<1> DEFINE u == Append(s, n + 1)
<1>1. /\ u \in Seq(Nat) /\ Len(u) = Len(s) + 1 /\ Len(s) \in Nat /\ Len(t) \in Nat
      /\ \A i \in 1..Len(s) : u[i] = s[i]
      /\ u[Len(s) + 1] = n + 1
  OBVIOUS
<1>2. \A i \in 1..Len(s) : s[i] <= n /\ s[i] \in Nat
  BY DEF Ascending
<1>3. \A i \in 1..Len(t) : t[i] <= n /\ t[i] \in Nat
  BY DEF Ascending
<1> HIDE DEF u
<1>4. Ascending(u, n + 1)
  <2>1. ASSUME NEW i \in 1..Len(u) PROVE u[i] <= n + 1
    <3>1. CASE i \in 1..Len(s)
      <4>1. u[i] = s[i] /\ s[i] <= n /\ s[i] \in Nat
        BY <1>1, <1>2, <3>1
      <4> QED BY <4>1
    <3>2. CASE i = Len(s) + 1
      BY <1>1, <3>2
    <3> QED BY <1>1, <3>1, <3>2
  <2>2. ASSUME NEW i \in 1..Len(u), NEW j \in 1..Len(u), i < j PROVE u[i] < u[j]
    <3>1. i \in 1..Len(s)
      BY <1>1, <2>2
    <3>2. CASE j = Len(s) + 1
      <4>1. u[i] = s[i] /\ s[i] <= n /\ s[i] \in Nat /\ u[j] = n + 1
        BY <1>1, <1>2, <3>1, <3>2
      <4> QED BY <4>1
    <3>3. CASE j \in 1..Len(s)
      BY <1>1, <2>2, <3>1, <3>3 DEF Ascending
    <3> QED BY <1>1, <3>2, <3>3
  <2> QED BY <2>1, <2>2 DEF Ascending
<1>5. Before(t, u)
  <2> SUFFICES ASSUME NEW i \in 1..Len(t), NEW j \in 1..Len(u) PROVE t[i] < u[j]
    BY DEF Before
  <2>1. CASE j \in 1..Len(s)
    BY <1>1, <2>1 DEF Before
  <2>2. CASE j = Len(s) + 1
    <3>1. t[i] <= n /\ t[i] \in Nat /\ u[j] = n + 1
      BY <1>1, <1>3, <2>2
    <3> QED BY <3>1
  <2> QED BY <1>1, <2>1, <2>2
<1>6. Ascending(t, n + 1)
  BY <1>3 DEF Ascending
<1> QED BY <1>1, <1>4, <1>5, <1>6 DEF u

\* The head of a queue that comes after what was received can be received.
LEMMA AscendingTake ==
  ASSUME NEW n \in Nat, NEW s \in Seq(Nat), NEW t \in Seq(Nat), s # <<>>, Ascending(s, n), Before(t, s), Ascending(t, n)
  PROVE  /\ Tail(s) \in Seq(Nat) /\ Ascending(Tail(s), n) /\ Before(t, Tail(s))
         /\ Append(t, Head(s)) \in Seq(Nat) /\ Ascending(Append(t, Head(s)), n) /\ Before(Append(t, Head(s)), Tail(s))
<1>1. Head(s) \in Nat /\ Head(s) = s[1] /\ Len(s) \in Nat /\ Len(s) >= 1 /\ Head(s) <= n
  BY DEF Ascending
<1>2. /\ Tail(s) \in Seq(Nat) /\ Len(Tail(s)) = Len(s) - 1
      /\ \A i \in 1..Len(Tail(s)) : Tail(s)[i] = s[i + 1] /\ i + 1 \in 1..Len(s)
  BY <1>1
<1>3. Ascending(Tail(s), n) /\ Before(t, Tail(s))
  BY <1>2 DEF Ascending, Before
<1>4. /\ Append(t, Head(s)) \in Seq(Nat) /\ Len(Append(t, Head(s))) = Len(t) + 1
      /\ \A i \in 1..Len(t) : Append(t, Head(s))[i] = t[i]
      /\ Append(t, Head(s))[Len(t) + 1] = s[1]
  BY <1>1
<1>5. \A i \in 1..Len(t) : t[i] < s[1] /\ t[i] <= n
  BY <1>1 DEF Before, Ascending
<1>6. Ascending(Append(t, Head(s)), n)
  BY <1>1, <1>4, <1>5 DEF Ascending
<1>7. \A j \in 1..Len(Tail(s)) : s[1] < Tail(s)[j]
  BY <1>1, <1>2 DEF Ascending
<1>8. Before(Append(t, Head(s)), Tail(s))
  <2> SUFFICES ASSUME NEW i \in 1..(Len(t) + 1), NEW j \in 1..Len(Tail(s)) PROVE Append(t, Head(s))[i] < Tail(s)[j]
    BY <1>4 DEF Before
  <2>1. CASE i = Len(t) + 1
    BY <1>4, <1>7, <2>1
  <2>2. CASE i \in 1..Len(t)
    BY <1>3, <1>4, <2>2 DEF Before
  <2> QED BY <2>1, <2>2
<1> QED BY <1>2, <1>3, <1>4, <1>6, <1>8

\* The empty queue.
LEMMA EmptyIsAscending ==
  ASSUME NEW n \in Nat, NEW s \in Seq(Nat)
  PROVE  Ascending(<<>>, n) /\ Before(s, <<>>) /\ Before(<<>>, s) /\ <<>> \in Seq(Nat)
BY DEF Ascending, Before

\* It holds at the start.
LEMMA FanoutInitInv == GatewayFanoutInit => FanoutInv
<1> SUFFICES ASSUME GatewayFanoutInit PROVE FanoutInv
  OBVIOUS
<1>1. \A k \in Links : link[k] = NoLink /\ link[k].queue = <<>>
  BY DEF GatewayFanoutInit, NoLink
<1>2. FanoutTypes
  BY DEF GatewayFanoutInit, FanoutTypes, NoLink
<1>3. OneConnection
  BY <1>1 DEF GatewayFanoutInit, OneConnection
<1>4. roomEvents = 0 /\ received = <<>>
  BY DEF GatewayFanoutInit
<1>5. Ascending(<<>>, 0) /\ Before(<<>>, <<>>)
  BY EmptyIsAscending, <<>> \in Seq(Nat)
<1> QED BY <1>1, <1>2, <1>3, <1>4, <1>5 DEF FanoutInv

\* Every step of the specification keeps the inductive invariant.
LEMMA FanoutNextInv == FanoutInv /\ [GatewayFanoutNext]_fanoutVars => FanoutInv'
<1> SUFFICES ASSUME FanoutInv, [GatewayFanoutNext]_fanoutVars PROVE FanoutInv'
  OBVIOUS
<1> DEFINE LinkRows == [state: {"none", "setup", "consuming"}, queue: Seq(Nat)]
           Ordered == /\ Ascending(received, roomEvents)
                      /\ \A k \in Links : Ascending(link[k].queue, roomEvents) /\ Before(received, link[k].queue)
<1>0. /\ FanoutTypes /\ \A k \in Links : link[k].state = "none" => link[k].queue = <<>>
      /\ doubled \/ (OneConnection /\ Ordered)
      /\ \A k \in Links : link[k].queue \in Seq(Nat) /\ link[k] \in LinkRows
  BY DEF FanoutInv, FanoutTypes
<1>1. ASSUME NEW k \in Links, Connect(k) PROVE FanoutInv'
  <2> DEFINE row == [link[k] EXCEPT !.state = "setup"]
  <2>1. /\ timers > 0 /\ link[k].state = "none" /\ link' = [link EXCEPT ![k] = row] /\ timers' = timers - 1
        /\ UNCHANGED <<roomEvents, received, doubled>>
    BY <1>0, <1>1 DEF Connect, FanoutTypes
  <2>2. row \in LinkRows /\ row.state = "setup" /\ row.queue = link[k].queue
    BY <1>0
  <2> HIDE DEF row
  <2>3. link'[k] = row /\ \A m \in Links : m # k => link'[m] = link[m]
    BY <1>0, <2>1 DEF FanoutTypes
  <2>4. FanoutTypes'
    BY <1>0, <2>1, <2>2 DEF FanoutTypes
  <2>5. OneConnection => OneConnection'
    BY <1>0, <2>1, <2>2, <2>3 DEF OneConnection, FanoutTypes, NoLink
  <2>6. \A m \in Links : link'[m].queue = link[m].queue /\ (link'[m].state = "none" => link[m].state = "none")
    BY <2>2, <2>3
  <2>7. Ordered => Ordered'
    BY <2>1, <2>6
  <2> QED BY <1>0, <2>1, <2>4, <2>5, <2>6, <2>7 DEF FanoutInv
<1>2. ASSUME NEW k \in Links, Consume(k) PROVE FanoutInv'
  <2> DEFINE row == [link[k] EXCEPT !.state = "consuming"]
  <2>1. /\ link[k].state = "setup" /\ link' = [link EXCEPT ![k] = row]
        /\ UNCHANGED <<timers, roomEvents, received, doubled>>
    BY <1>0, <1>2 DEF Consume, FanoutTypes
  <2>2. row \in LinkRows /\ row.state = "consuming" /\ row.queue = link[k].queue
    BY <1>0
  <2> HIDE DEF row
  <2>3. link'[k] = row /\ \A m \in Links : m # k => link'[m] = link[m]
    BY <1>0, <2>1 DEF FanoutTypes
  <2>4. FanoutTypes'
    BY <1>0, <2>1, <2>2 DEF FanoutTypes
  <2>5. OneConnection => OneConnection'
    <3>1. NoLink.state = "none"
      BY DEF NoLink
    <3> QED BY <2>1, <2>2, <2>3, <3>1 DEF OneConnection
  <2>6. \A m \in Links : link'[m].queue = link[m].queue /\ (link'[m].state = "none" => link[m].state = "none")
    BY <2>1, <2>2, <2>3
  <2>7. Ordered => Ordered'
    BY <2>1, <2>6
  <2> QED BY <1>0, <2>1, <2>4, <2>5, <2>6, <2>7 DEF FanoutInv
<1>3. ASSUME NEW broken \in SUBSET Links, NEW up \in BOOLEAN, Break(broken, up), UNCHANGED <<roomEvents, received>>
      PROVE  FanoutInv'
  <2> DEFINE setup == {k \in broken : link[k].state = "setup"}
             lost == {k \in broken : link[k].state # "none"}
  <2>1. /\ link' = [k \in Links |-> IF k \in broken THEN NoLink ELSE link[k]]
        /\ timers + (Cardinality(lost) + Cardinality(setup)) <= MaxReconnect
        /\ timers' = timers + (Cardinality(lost) + Cardinality(setup))
        /\ doubled' = (doubled \/ setup # {})
    BY <1>3 DEF Break, ScheduleReconnect
  <2>2. NoLink \in LinkRows /\ NoLink.state = "none" /\ NoLink.queue = <<>>
    BY DEF NoLink
  <2> HIDE DEF lost, setup
  <2>3. FanoutTypes'
    BY <1>0, <1>3, <2>1, <2>2 DEF FanoutTypes
  <2>4. \A k \in Links : link'[k].state = "none" => link'[k].queue = <<>>
    BY <1>0, <2>1, <2>2
  <2>5. CASE ~doubled'
    <3>1. ~doubled /\ setup = {} /\ OneConnection /\ Ordered
      BY <1>0, <2>1, <2>5
    <3>2. \A k \in broken : link[k].state # "setup"
      BY <3>1 DEF setup
    <3>3. Cardinality({}) = 0 /\ \A k : Cardinality({k}) = 1
      BY FS_EmptySet, FS_Singleton
    <3>4. OneConnection'
      <4>1. CASE timers = 1 /\ \A k \in Links : link[k] = NoLink
        <5>1. lost = {}
          BY <2>2, <4>1 DEF lost
        <5> QED BY <2>1, <3>1, <3>3, <4>1, <5>1 DEF OneConnection
      <4>2. ASSUME NEW k \in Links, timers = 0, link[k].state # "none", \A m \in Links : m # k => link[m] = NoLink
            PROVE  OneConnection'
        <5>1. CASE k \in broken
          <6>1. lost = {k}
            BY <2>2, <4>2, <5>1 DEF lost
          <6>2. timers' = 1
            <7>1. Cardinality(lost) = 1 /\ Cardinality(setup) = 0
              BY <3>1, <6>1, FS_EmptySet, FS_Singleton
            <7> QED BY <2>1, <4>2, <7>1
          <6> QED BY <2>1, <4>2, <5>1, <6>2 DEF OneConnection
        <5>2. CASE k \notin broken
          <6>1. lost = {}
            BY <2>2, <4>2, <5>2 DEF lost
          <6>2. timers' = 0
            BY <2>1, <3>1, <3>3, <4>2, <6>1
          <6>3. link'[k] = link[k] /\ \A m \in Links : m # k => link'[m] = NoLink
            BY <2>1, <4>2, <5>2
          <6> QED BY <4>2, <6>2, <6>3 DEF OneConnection
        <5> QED BY <5>1, <5>2
      <4> QED BY <3>1, <4>1, <4>2 DEF OneConnection
    <3>5. \A k \in Links : link'[k].queue \in {<<>>, link[k].queue}
      BY <2>1, <2>2
    <3>6. Ordered'
      <4>1. Ascending(<<>>, roomEvents) /\ Before(received, <<>>)
        BY <1>0, EmptyIsAscending DEF FanoutTypes
      <4> QED BY <1>3, <3>1, <3>5, <4>1
    <3> QED BY <2>3, <2>4, <3>4, <3>6 DEF FanoutInv
  <2> QED BY <2>1, <2>3, <2>4, <2>5 DEF FanoutInv
<1>4. CASE PublishToRoom
  <2> DEFINE sends == publisher = "open" \/ (publisher = "none" /\ brokerUp)
  <2>1. /\ roomEvents' = roomEvents + 1 /\ UNCHANGED <<timers, received, doubled>>
        /\ link' = [k \in Links |-> IF sends /\ link[k].state = "consuming"
                                      THEN [link[k] EXCEPT !.queue = Append(link[k].queue, roomEvents + 1)] ELSE link[k]]
    BY <1>4 DEF PublishToRoom
  <2> HIDE DEF sends
  <2>2. ASSUME NEW k \in Links
        PROVE  /\ link'[k] \in LinkRows /\ link'[k].state = link[k].state
               /\ link[k].state # "consuming" => link'[k] = link[k]
               /\ link'[k].queue \in {link[k].queue, Append(link[k].queue, roomEvents + 1)}
    <3> DEFINE row == [link[k] EXCEPT !.queue = Append(link[k].queue, roomEvents + 1)]
    <3>1. Append(link[k].queue, roomEvents + 1) \in Seq(Nat)
      BY <1>0 DEF FanoutTypes
    <3>2. row \in LinkRows /\ row.state = link[k].state /\ row.queue = Append(link[k].queue, roomEvents + 1)
      BY <1>0, <3>1
    <3>3. link'[k] = link[k] \/ (link[k].state = "consuming" /\ link'[k] = row)
      BY <2>1
    <3> HIDE DEF row
    <3> QED BY <1>0, <3>2, <3>3
  <2>3. FanoutTypes'
    <3>1. link' = [k \in Links |-> link'[k]]
      BY <2>1
    <3>2. link' \in [Links -> LinkRows]
      BY <2>2, <3>1
    <3>3. roomEvents' \in Nat /\ received' \in Seq(Nat)
      BY <1>0, <2>1 DEF FanoutTypes
    <3> QED BY <3>2, <3>3 DEF FanoutTypes
  <2>4. \A k \in Links : link'[k].state = "none" => link'[k].queue = <<>>
    BY <1>0, <2>2
  <2>5. OneConnection => OneConnection'
    <3>1. NoLink.state = "none"
      BY DEF NoLink
    <3>2. \A k \in Links : link[k] = NoLink => link'[k] = NoLink
      BY <2>2, <3>1
    <3> QED BY <2>1, <2>2, <3>2 DEF OneConnection
  <2>6. Ordered => Ordered'
    <3> SUFFICES ASSUME Ordered PROVE Ordered'
      OBVIOUS
    <3>1. roomEvents \in Nat /\ received \in Seq(Nat) /\ Ascending(received, roomEvents)
      BY <1>0 DEF FanoutTypes
    <3>2. Ascending(received, roomEvents + 1)
      BY <3>1, EmptyIsAscending, AscendingAppend, <<>> \in Seq(Nat)
    <3>3. ASSUME NEW k \in Links PROVE Ascending(link'[k].queue, roomEvents + 1) /\ Before(received, link'[k].queue)
      <4> DEFINE q == link[k].queue
      <4>1. q \in Seq(Nat) /\ Ascending(q, roomEvents) /\ Before(received, q)
        BY <1>0
      <4> HIDE DEF q
      <4>2. Ascending(Append(q, roomEvents + 1), roomEvents + 1) /\ Before(received, Append(q, roomEvents + 1))
        BY <3>1, <4>1, AscendingAppend
      <4>3. Ascending(q, roomEvents + 1)
        BY <3>1, <4>1, EmptyIsAscending, AscendingAppend, <<>> \in Seq(Nat)
      <4>4. link'[k].queue \in {q, Append(q, roomEvents + 1)}
        BY <2>2 DEF q
      <4> QED BY <4>1, <4>2, <4>3, <4>4
    <3> QED BY <2>1, <3>2, <3>3
  <2> QED BY <1>0, <2>1, <2>3, <2>4, <2>5, <2>6 DEF FanoutInv
<1>5. ASSUME NEW k \in Links, HandleMessage(k) PROVE FanoutInv'
  <2> DEFINE q == link[k].queue
             row == [link[k] EXCEPT !.queue = Tail(q)]
  <2>1. /\ q # <<>> /\ link' = [link EXCEPT ![k] = row]
        /\ received' = received \/ received' = Append(received, Head(q))
        /\ UNCHANGED <<timers, roomEvents, doubled>>
    BY <1>0, <1>5 DEF HandleMessage, FanoutTypes
  <2>2. Tail(q) \in Seq(Nat) /\ Head(q) \in Nat /\ q \in Seq(Nat)
    BY <1>0, <2>1
  <2>3. row \in LinkRows /\ row.state = link[k].state /\ row.queue = Tail(q) /\ link[k].state # "none"
    BY <1>0, <2>1, <2>2
  <2> HIDE DEF row
  <2>4. link'[k] = row /\ \A m \in Links : m # k => link'[m] = link[m]
    BY <1>0, <2>1 DEF FanoutTypes
  <2>5. FanoutTypes'
    <3>1. received' \in Seq(Nat)
      <4>1. received \in Seq(Nat) /\ Append(received, Head(q)) \in Seq(Nat)
        BY <1>0, <2>2 DEF FanoutTypes
      <4> QED BY <2>1, <4>1
    <3>2. link' \in [Links -> LinkRows]
      BY <1>0, <2>1, <2>3 DEF FanoutTypes
    <3> QED BY <1>0, <2>1, <3>1, <3>2 DEF FanoutTypes
  <2>6. \A m \in Links : link'[m].state = "none" => link'[m].queue = <<>>
    BY <1>0, <2>3, <2>4
  <2>7. OneConnection => OneConnection' /\ \A m \in Links : m # k => link[m].queue = <<>>
    BY <2>1, <2>3, <2>4 DEF OneConnection, NoLink
  <2>8. OneConnection /\ Ordered => Ordered'
    <3> SUFFICES ASSUME OneConnection, Ordered PROVE Ordered'
      OBVIOUS
    <3>1. roomEvents \in Nat /\ received \in Seq(Nat) /\ Ascending(received, roomEvents) /\ Ascending(q, roomEvents) /\ Before(received, q)
      BY <1>0 DEF FanoutTypes
    <3> HIDE DEF q
    <3>2. /\ Ascending(Tail(q), roomEvents) /\ Before(received, Tail(q))
          /\ Ascending(Append(received, Head(q)), roomEvents) /\ Before(Append(received, Head(q)), Tail(q))
          /\ Append(received, Head(q)) \in Seq(Nat)
      BY <2>1, <2>2, <3>1, AscendingTake
    <3>3. received' \in Seq(Nat) /\ Ascending(received', roomEvents) /\ Before(received', Tail(q))
      <4>1. CASE received' = received
        BY <3>1, <3>2, <4>1
      <4>2. CASE received' = Append(received, Head(q))
        BY <3>2, <4>2
      <4> QED BY <2>1, <4>1, <4>2 DEF q
    <3>4. Ascending(<<>>, roomEvents) /\ Before(received', <<>>)
      BY <3>1, <3>3, EmptyIsAscending
    <3>5. \A m \in Links : link'[m].queue = Tail(q) \/ link'[m].queue = <<>>
      BY <2>3, <2>4, <2>7
    <3> QED BY <2>1, <3>2, <3>3, <3>4, <3>5
  <2> QED BY <1>0, <2>1, <2>5, <2>6, <2>7, <2>8 DEF FanoutInv
<1>6. CASE ConnectFails \/ BrokerStarts \/ (\E wanted \in BOOLEAN : OnChannelSubscribe(wanted)) \/ UNCHANGED fanoutVars
  <2>1. UNCHANGED <<link, timers, roomEvents, received, doubled>>
    BY <1>6 DEF ConnectFails, BrokerStarts, OnChannelSubscribe, fanoutVars
  <2> QED BY <1>0, <2>1 DEF FanoutInv, FanoutTypes, OneConnection
<1>7. ASSUME NEW k \in Links, ConnectionCloses(k) PROVE FanoutInv'
  BY <1>3, <1>7 DEF ConnectionCloses
<1>8. CASE BrokerStops
  BY <1>3, <1>8 DEF BrokerStops
<1> QED BY <1>1, <1>2, <1>4, <1>5, <1>6, <1>7, <1>8 DEF GatewayFanoutNext

\* For any number of connections and events: unless a connection broke in its set-up,
\* a socket receives the events of its room once and in order, through outages and
\* reconnects (rabbitmq-gateway.consumer.ts:41-100).
THEOREM EventsArriveOnce == GatewayFanoutSpec => []OnceAndInOrder
BY FanoutInvIsEnough, FanoutInitInv, FanoutNextInv, PTL DEF GatewayFanoutSpec

-----------------------------------------------------------------------------
\* Roles.
\* A role that an active assignment names exists; the calls carry what the tables may hold.
GrantsInv ==
  /\ role \in [Roles -> RoleRow]
  /\ grant \in [1..MaxGrants -> GrantRow]
  /\ roleCall \in [RoleCalls -> RoleBusy \cup {RoleIdle}]
  /\ GrantsHaveRoles

\* It holds at the start.
LEMMA GrantsInitInv == RoleGrantsInit => GrantsInv
BY RoleGrantsAssumption DEF RoleGrantsInit, GrantsInv, GrantsHaveRoles

\* A call begins, or ends: the tables of roles and assignments are as they were.
LEMMA RoleStartKeepsGrants ==
  ASSUME GrantsInv, NEW c \in RoleCalls, NEW call \in RoleBusy, RoleStart(c, call)
  PROVE  GrantsInv'
BY DEF GrantsInv, RoleStart, GrantsHaveRoles

\* Ending a call keeps the types.
LEMMA RoleEndIsTyped ==
  ASSUME GrantsInv, NEW c \in RoleCalls, RoleEnd(c)
  PROVE  roleCall' \in [RoleCalls -> RoleBusy \cup {RoleIdle}]
BY DEF GrantsInv, RoleEnd

\* Every step of the specification keeps the inductive invariant.
LEMMA GrantsNextInv == GrantsInv /\ [RoleGrantsNext]_roleVars => GrantsInv'
<1> SUFFICES ASSUME GrantsInv, [RoleGrantsNext]_roleVars PROVE GrantsInv'
  OBVIOUS
<1>0. /\ role \in [Roles -> RoleRow] /\ grant \in [1..MaxGrants -> GrantRow]
      /\ roleCall \in [RoleCalls -> RoleBusy \cup {RoleIdle}]
      /\ GrantsHaveRoles
  BY DEF GrantsInv
<1>1. ASSUME NEW c \in RoleCalls, NEW u \in RoleUsers, NEW d \in Depts, Decide(c, u, d) PROVE GrantsInv'
  <2>1. GrantedByRole(u, d) \in BOOLEAN
    BY DEF GrantedByRole
  <2>2. [pc |-> "cache", key |-> <<u, d>>, allowed |-> GrantedByRole(u, d)] \in RoleBusy
    BY <2>1 DEF RoleBusy, CacheKeys
  <2> QED BY <1>1, <2>2, RoleStartKeepsGrants DEF Decide
<1>2. ASSUME NEW c \in RoleCalls, NEW u \in RoleUsers, NEW r \in Roles, NEW d \in Depts,
             AssignRoleToUser(c, u, r, d) \/ \E a \in RoleUsers : GrantDeptRole(c, a, u, r, d)
      PROVE  GrantsInv'
  <2>1. [pc |-> "grant", new |-> NewGrant(u, r, d)] \in RoleBusy
    BY DEF RoleBusy, NewGrant, GrantRow
  <2> QED BY <1>2, <2>1, RoleStartKeepsGrants DEF AssignRoleToUser, GrantDeptRole
<1>3. ASSUME NEW c \in RoleCalls, NEW n \in 1..MaxGrants, RevokeUserRole(c, n) \/ \E a \in RoleUsers : RevokeDeptRole(c, a, n)
      PROVE  GrantsInv'
  <2>1. [pc |-> "revoke", n |-> n] \in RoleBusy /\ [pc |-> "revokeDept", n |-> n] \in RoleBusy
    BY DEF RoleBusy
  <2> QED BY <1>3, <2>1, RoleStartKeepsGrants DEF RevokeUserRole, RevokeDeptRole
<1>4. ASSUME NEW c \in RoleCalls, NEW r \in Roles, DeleteRole(c, r) PROVE GrantsInv'
  <2>1. [pc |-> "delete", role |-> r] \in RoleBusy
    BY DEF RoleBusy
  <2> QED BY <1>4, <2>1, RoleStartKeepsGrants DEF DeleteRole
<1>5. ASSUME NEW c \in RoleCalls, StoreDecision(c) \/ InvalidateUserCache(c) \/ AbortRoleCall(c) PROVE GrantsInv'
  <2>1. UNCHANGED <<role, grant>> /\ RoleEnd(c)
    BY <1>5 DEF StoreDecision, InvalidateUserCache, AbortRoleCall
  <2> QED BY <1>0, <2>1, RoleEndIsTyped DEF GrantsInv, GrantsHaveRoles
<1>6. ASSUME NEW c \in RoleCalls, InsertGrant(c) PROVE GrantsInv'
  <2>1. roleCall' \in [RoleCalls -> RoleBusy \cup {RoleIdle}] /\ role' = role /\ roleCall[c].pc = "grant"
    BY <1>6, RoleEndIsTyped DEF InsertGrant, RoleAt
  <2>2. CASE UNCHANGED grant
    BY <1>0, <2>1, <2>2 DEF GrantsInv, GrantsHaveRoles
  <2>3. ASSUME NEW n \in 1..MaxGrants, grant' = [grant EXCEPT ![n] = roleCall[c].new], role[roleCall[c].new.role].exists
        PROVE  GrantsInv'
    <3>1. roleCall[c] \in [pc: {"grant"}, new: GrantRow]
      BY <1>0, <2>1 DEF RoleBusy, RoleIdle
    <3>2. roleCall[c].new \in GrantRow
      BY <3>1
    <3> QED BY <1>0, <2>1, <2>3, <3>2 DEF GrantsInv, GrantsHaveRoles
  <2> QED BY <1>6, <2>2, <2>3 DEF InsertGrant
<1>7. ASSUME NEW c \in RoleCalls, SaveRevoked(c) PROVE GrantsInv'
  <2> DEFINE n == roleCall[c].n
  <2>1. role' = role /\ grant' = Revoked(n) /\ roleCall[c].pc \in {"revoke", "revokeDept"}
    BY <1>7 DEF SaveRevoked
  <2>2. roleCall[c] \in [pc: {"revoke", "revokeDept", "flush"}, n: 1..MaxGrants]
    BY <1>0, <2>1 DEF RoleBusy, RoleIdle
  <2>3. roleCall' \in [RoleCalls -> RoleBusy \cup {RoleIdle}]
    <3>1. CASE roleCall' = [roleCall EXCEPT ![c].pc = "flush"]
      <4> DEFINE call == [roleCall[c] EXCEPT !.pc = "flush"]
      <4>1. call \in RoleBusy
        BY <2>2 DEF RoleBusy
      <4>2. roleCall' = [roleCall EXCEPT ![c] = call]
        BY <1>0, <3>1
      <4> HIDE DEF call
      <4> QED BY <1>0, <4>1, <4>2
    <3>2. CASE RoleEnd(c)
      BY <3>2, RoleEndIsTyped
    <3> QED BY <1>7, <3>1, <3>2 DEF SaveRevoked
  <2>4. n \in 1..MaxGrants
    BY <2>2
  <2> HIDE DEF n
  <2>5. \A m \in 1..MaxGrants : grant'[m] = grant[m] \/ (grant'[m] = [grant[m] EXCEPT !.status = "revoked"])
    BY <1>0, <2>1, <2>4 DEF Revoked
  <2>6. grant' \in [1..MaxGrants -> GrantRow] /\ \A m \in 1..MaxGrants : grant'[m].status = "active" => grant'[m] = grant[m]
    <3>1. \A m \in 1..MaxGrants : [grant[m] EXCEPT !.status = "revoked"] \in GrantRow /\ [grant[m] EXCEPT !.status = "revoked"].status = "revoked"
      BY <1>0 DEF GrantRow
    <3>2. \A m \in 1..MaxGrants : grant'[m] \in GrantRow /\ (grant'[m].status = "active" => grant'[m] = grant[m])
      BY <1>0, <2>5, <3>1
    <3>3. grant' = [m \in 1..MaxGrants |-> grant'[m]]
      BY <1>0, <2>1, <2>4 DEF Revoked
    <3> QED BY <3>2, <3>3
  <2> QED BY <1>0, <2>1, <2>3, <2>6 DEF GrantsInv, GrantsHaveRoles
<1>8. ASSUME NEW c \in RoleCalls, DropRole(c) PROVE GrantsInv'
  <2> DEFINE r == roleCall[c].role
  <2>1. /\ role' = RoleTableWithout(r) /\ RoleEnd(c)
        /\ grant' = [n \in 1..MaxGrants |-> IF grant[n].role = r THEN [grant[n] EXCEPT !.status = "absent"] ELSE grant[n]]
    BY <1>8 DEF DropRole
  <2> HIDE DEF r
  <2>2. \A n \in 1..MaxGrants : grant[n] \in GrantRow /\ [grant[n] EXCEPT !.status = "absent"] \in GrantRow
                                /\ [grant[n] EXCEPT !.status = "absent"].status = "absent"
    BY <1>0 DEF GrantRow
  <2>3. grant' \in [1..MaxGrants -> GrantRow] /\ \A n \in 1..MaxGrants : grant'[n].status = "active" => grant'[n] = grant[n] /\ grant[n].role # r
    BY <2>1, <2>2
  <2>4. \A x \in Roles : role'[x] \in RoleRow /\ (x # r => role'[x].exists = role[x].exists)
    <3> SUFFICES ASSUME NEW x \in Roles PROVE role'[x] \in RoleRow /\ (x # r => role'[x].exists = role[x].exists)
      OBVIOUS
    <3>1. role[x] \in RoleRow /\ NoRole \in Roles \cup {NoRole}
      BY <1>0
    <3> DEFINE gone == [role[x] EXCEPT !.exists = FALSE, !.permits = FALSE, !.parent = NoRole]
               orphan == [role[x] EXCEPT !.parent = NoRole]
    <3>2. gone \in RoleRow /\ orphan \in RoleRow /\ orphan.exists = role[x].exists
      BY <3>1 DEF RoleRow
    <3>3. role'[x] = IF x = r THEN gone ELSE IF role[x].parent = r THEN orphan ELSE role[x]
      BY <2>1 DEF RoleTableWithout
    <3> HIDE DEF gone, orphan
    <3> QED BY <3>1, <3>2, <3>3
  <2>5. role' \in [Roles -> RoleRow]
    BY <2>1, <2>4 DEF RoleTableWithout
  <2>6. \A n \in 1..MaxGrants : grant[n].role \in Roles
    BY <1>0 DEF GrantRow
  <2>7. GrantsHaveRoles'
    BY <1>0, <2>3, <2>4, <2>6 DEF GrantsHaveRoles
  <2> QED BY <2>1, <2>3, <2>5, <2>7, RoleEndIsTyped DEF GrantsInv
<1>9. ASSUME NEW n \in 1..MaxGrants, GrantExpires(n) PROVE GrantsInv'
  <2> DEFINE row == [grant[n] EXCEPT !.status = "expired"]
  <2>1. grant' = [grant EXCEPT ![n] = row] /\ UNCHANGED <<role, roleCall>>
    BY <1>0, <1>9 DEF GrantExpires
  <2>2. row \in GrantRow /\ row.status = "expired"
    BY <1>0 DEF GrantRow
  <2> HIDE DEF row
  <2> QED BY <1>0, <2>1, <2>2 DEF GrantsInv, GrantsHaveRoles
<1>10. ASSUME NEW r \in Roles, NEW parent \in Roles \cup {NoRole}, NEW permits \in BOOLEAN, CreateRole(r, parent, permits) PROVE GrantsInv'
  <2> DEFINE row == [exists |-> TRUE, permits |-> permits, system |-> FALSE, parent |-> parent]
  <2>1. role' = [role EXCEPT ![r] = row] /\ UNCHANGED <<grant, roleCall>>
    BY <1>10 DEF CreateRole
  <2>2. row \in RoleRow /\ row.exists
    BY DEF RoleRow
  <2>3. \A n \in 1..MaxGrants : grant[n].role \in Roles
    BY <1>0 DEF GrantRow
  <2> HIDE DEF row
  <2> QED BY <1>0, <2>1, <2>2, <2>3 DEF GrantsInv, GrantsHaveRoles
<1>11. CASE \/ \E k \in CacheKeys : DecisionExpires(k)
            \/ \E u \in RoleUsers, r \in Roles : AssignRoleToPosition(u, r) \/ RevokeRoleFromPosition(u, r)
            \/ \E r, s \in Roles : CreateSodRule(r, s)
            \/ UNCHANGED roleVars
  <2>1. UNCHANGED <<role, grant, roleCall>>
    BY <1>11 DEF DecisionExpires, AssignRoleToPosition, RevokeRoleFromPosition, CreateSodRule, roleVars
  <2> QED BY <1>0, <2>1 DEF GrantsInv, GrantsHaveRoles
<1> QED BY <1>1, <1>2, <1>3, <1>4, <1>5, <1>6, <1>7, <1>8, <1>9, <1>10, <1>11 DEF RoleGrantsNext, RoleCallStep

\* For any set of roles, users and calls, an active assignment names a role that
\* exists, although deleting a role and granting it race (authorization.service.ts).
THEOREM GrantedRolesExist == RoleGrantsSpec => []GrantsHaveRoles
<1>1. GrantsInv => GrantsHaveRoles
  BY DEF GrantsInv
<1> QED BY <1>1, GrantsInitInv, GrantsNextInv, PTL DEF RoleGrantsSpec

-----------------------------------------------------------------------------
\* Recordings of calls.
\* A report that a recording is ready follows its upload, and is under way or handled
\* as long as the archive is kept.
RecordingInv ==
  /\ recording = [n \in Recordings |-> recording[n]]
  /\ \A e \in recordingEvent : e = <<e[1], e[2]>>
  /\ \A n \in Recordings : <<"ready", n>> \in recordingEvent => n \in artifact
  /\ ReadyHasArtifact

\* It holds at the start.
LEMMA RecordingInitInv == CallRecordingsInit => RecordingInv
BY DEF CallRecordingsInit, RecordingInv, ReadyHasArtifact

\* The row of one recording changes.
LEMMA OneRecordingChanges ==
  ASSUME RecordingInv, NEW n, NEW status, recording' = [recording EXCEPT ![n] = status]
  PROVE  /\ recording' = [m \in Recordings |-> recording'[m]]
         /\ \A m \in Recordings : recording'[m] = IF m = n THEN status ELSE recording[m]
BY DEF RecordingInv

\* Nothing but the handling of its event makes a recording ready, and nothing but the
\* purge takes an archive away.
LEMMA RecordingsStayRight ==
  ASSUME RecordingInv, recording' = [n \in Recordings |-> recording'[n]],
         \A n \in Recordings : recording'[n] = "ready" => recording[n] = "ready",
         \A e \in recordingEvent' : e \in recordingEvent \/ (e = <<e[1], e[2]>> /\ (e[1] = "ready" => e[2] \in artifact')),
         artifact \subseteq artifact'
  PROVE  RecordingInv'
BY DEF RecordingInv, ReadyHasArtifact

\* Every step of the specification keeps the inductive invariant.
LEMMA RecordingNextInv == RecordingInv /\ [CallRecordingsNext]_recordingVars => RecordingInv'
<1> SUFFICES ASSUME RecordingInv, [CallRecordingsNext]_recordingVars PROVE RecordingInv'
  OBVIOUS
<1>0. recording = [n \in Recordings |-> recording[n]]
  BY DEF RecordingInv
<1>1. CASE SaveRecording
  <2> DEFINE n == CHOOSE n \in Unused : \A m \in Unused : n <= m
  <2>1. recording' = [recording EXCEPT ![n] = "recording"] /\ UNCHANGED <<artifact, recordingEvent>>
    BY <1>1 DEF SaveRecording
  <2> HIDE DEF n
  <2>2. /\ recording' = [m \in Recordings |-> recording'[m]]
        /\ \A m \in Recordings : recording'[m] = IF m = n THEN "recording" ELSE recording[m]
    BY <2>1, OneRecordingChanges
  <2>3. \A m \in Recordings : recording'[m] = "ready" => recording[m] = "ready"
    BY <2>2
  <2> QED BY <2>1, <2>2, <2>3, RecordingsStayRight
<1>2. ASSUME NEW n \in Recordings, SaveStopped(n) PROVE RecordingInv'
  <2>1. recording' = [recording EXCEPT ![n] = "processing"] /\ UNCHANGED <<artifact, recordingEvent>>
    BY <1>2 DEF SaveStopped
  <2>2. /\ recording' = [m \in Recordings |-> recording'[m]]
        /\ \A m \in Recordings : recording'[m] = IF m = n THEN "processing" ELSE recording[m]
    BY <2>1, OneRecordingChanges
  <2>3. \A m \in Recordings : recording'[m] = "ready" => recording[m] = "ready"
    BY <2>2
  <2> QED BY <2>1, <2>2, <2>3, RecordingsStayRight
<1>3. CASE EndRecordedCall
  <2>1. /\ recording' = [n \in Recordings |-> IF recording[n] = "recording" THEN "processing" ELSE recording[n]]
        /\ UNCHANGED <<artifact, recordingEvent>>
    BY <1>3 DEF EndRecordedCall
  <2>2. recording' = [n \in Recordings |-> recording'[n]]
    BY <2>1
  <2>3. \A n \in Recordings : recording'[n] = "ready" => recording[n] = "ready"
    BY <2>1
  <2> QED BY <2>1, <2>2, <2>3, RecordingsStayRight
<1>4. ASSUME NEW e \in recordingEvent, HandleRecordingEvent(e) PROVE RecordingInv'
  <2> DEFINE status == IF e[1] = "started" THEN "recording" ELSE e[1]
  <2>1. /\ recording' = [recording EXCEPT ![e[2]] = status]
        /\ recordingEvent' = recordingEvent \ {e} /\ UNCHANGED artifact
    BY <1>4 DEF HandleRecordingEvent
  <2>2. status = "ready" => e[1] = "ready"
    OBVIOUS
  <2> HIDE DEF status
  <2>3. /\ recording' = [m \in Recordings |-> recording'[m]]
        /\ \A m \in Recordings : recording'[m] = IF m = e[2] THEN status ELSE recording[m]
    BY <2>1, OneRecordingChanges
  <2>4. ASSUME NEW n \in Recordings, recording'[n] = "ready" PROVE n \in artifact'
    <3>1. CASE n = e[2]
      <4>1. status = "ready" /\ e = <<"ready", n>>
        BY <2>2, <2>3, <2>4, <3>1 DEF RecordingInv
      <4> QED BY <2>1, <4>1 DEF RecordingInv
    <3>2. CASE n # e[2]
      BY <2>1, <2>3, <2>4, <3>2 DEF RecordingInv, ReadyHasArtifact
    <3> QED BY <3>1, <3>2
  <2> QED BY <2>1, <2>3, <2>4 DEF RecordingInv, ReadyHasArtifact
<1>5. ASSUME NEW n \in Recordings, PurgeExpiredRecording(n) PROVE RecordingInv'
  <2>1. /\ recording' = [recording EXCEPT ![n] = "deleted"] /\ UNCHANGED recordingEvent
        /\ artifact' \in {artifact, artifact \ {n}}
        /\ \A e \in recordingEvent : e[2] # n
    BY <1>5 DEF PurgeExpiredRecording
  <2>2. /\ recording' = [m \in Recordings |-> recording'[m]]
        /\ \A m \in Recordings : recording'[m] = IF m = n THEN "deleted" ELSE recording[m]
    BY <2>1, OneRecordingChanges
  <2>3. <<"ready", n>> \notin recordingEvent
    BY <2>1
  <2> QED BY <2>1, <2>2, <2>3 DEF RecordingInv, ReadyHasArtifact
<1>6. CASE HandleBackendCommand
  <2>1. UNCHANGED <<recording, artifact>>
    BY <1>6 DEF HandleBackendCommand, backendRecordingVars
  <2>2. recordingEvent' = recordingEvent \/ recordingEvent' = recordingEvent \cup {<<"failed", Head(command)[2]>>}
    BY <1>6 DEF HandleBackendCommand, HandleStart, HandleStop, HandleEnd, PublishRecordingEvent
  <2>3. \A e \in recordingEvent' : e \in recordingEvent \/ (e = <<e[1], e[2]>> /\ (e[1] = "ready" => e[2] \in artifact'))
    BY <2>2
  <2> QED BY <1>0, <2>1, <2>3, RecordingsStayRight
<1>7. ASSUME NEW n \in Recordings, PipelineStep(n) PROVE RecordingInv'
  <2>1. /\ UNCHANGED recording /\ artifact \subseteq artifact'
        /\ \/ recordingEvent' = recordingEvent
           \/ recordingEvent' = recordingEvent \cup {<<"ready", n>>} /\ n \in artifact'
           \/ \E type \in {"started", "failed"} : recordingEvent' = recordingEvent \cup {<<type, n>>}
    BY <1>7 DEF PipelineStep, RegisterRecording, TracksStarted, FinishRecording, FailRecording, PublishRecordingEvent, backendRecordingVars
  <2>3. \A e \in recordingEvent' : e \in recordingEvent \/ (e = <<e[1], e[2]>> /\ (e[1] = "ready" => e[2] \in artifact'))
    BY <2>1
  <2> QED BY <1>0, <2>1, <2>3, RecordingsStayRight
<1>8. CASE \/ StartRecording \/ \E n \in Recordings : StopRecording(n)
           \/ \E e \in recordingEvent : LoseEvent(e)
           \/ MediaCrash \/ LoseCommand \/ UNCHANGED recordingVars
  <2>1. UNCHANGED <<recording, artifact>> /\ recordingEvent' \subseteq recordingEvent
    BY <1>8 DEF StartRecording, StopRecording, LoseEvent, MediaCrash, LoseCommand, recordingVars, backendRecordingVars
  <2> QED BY <1>0, <2>1, RecordingsStayRight
<1> QED BY <1>1, <1>2, <1>3, <1>4, <1>5, <1>6, <1>7, <1>8 DEF CallRecordingsNext, RecordingStep

\* For any number of recordings: a recording that is ready has its archive, whatever
\* events and commands are lost, late or handled twice (recording-manager.ts,
\* calls.service.ts).
THEOREM ReadyRecordingsAreThere == CallRecordingsSpec => []ReadyHasArtifact
<1>1. RecordingInv => ReadyHasArtifact
  BY DEF RecordingInv
<1> QED BY <1>1, RecordingInitInv, RecordingNextInv, PTL DEF CallRecordingsSpec

-----------------------------------------------------------------------------
\* Versions of a file.
\* The types the proof needs.
FileTypes ==
  /\ fileRow \in FileRows
  /\ versionRows \subseteq StorageKeys
  /\ fileCall \in [FileCalls -> FileCallStates]

\* What a call holds was true when it took it, and stays true enough: its object is
\* there or was quarantined, the row it copied was of a version, its verdict was given.
FileCallIsRight(c) ==
  /\ fileCall[c].pc \in {"streamed", "stored", "scanning", "verdict", "loaded", "emptied"} => fileCall[c].key \in StorageKeys
  /\ fileCall[c].pc = "stored" => fileCall[c].key \in objects \cup quarantined
  /\ fileCall[c].pc \in {"scanning", "verdict", "loaded", "emptied"} => versionRows # {}
  /\ fileCall[c].pc \in {"loaded", "emptied", "deleting"} => fileCall[c].copy.current \in versionRows
  /\ fileCall[c].pc \in {"verdict", "loaded"} /\ fileCall[c].verdict = "clean" => fileCall[c].key \in passed
  /\ ~crossed /\ fileCall[c].pc \in {"streamed", "stored"} => fileCall[c].key.n <= fileRow.count + 1

\* The row names a version, a clean one was scanned, and without a stale save the
\* versions are numbered without a gap.
FileRowIsRight ==
  /\ fileRow.count > 0 => versionRows # {}
  /\ versionRows # {} => fileRow.current \in versionRows
  /\ ~crossed => (fileRow.scan = "clean" => fileRow.current \in passed)
  /\ ~crossed => \A v \in versionRows : v.n <= fileRow.count
  /\ ~crossed => \A n \in 1..fileRow.count : \E v \in versionRows : v.n = n

\* The inductive invariant.
FileInv ==
  /\ FileTypes /\ FileRowIsRight /\ VersionHasObject /\ QuarantineIsComplete
  /\ \A c \in FileCalls : FileCallIsRight(c)

\* What it is for.
FileProperties == DownloadableWasScanned /\ VersionHasObject /\ QuarantineIsComplete /\ NextVersionIsFree

\* It implies the properties.
LEMMA FileInvIsEnough == FileInv => FileProperties
BY DEF FileInv, FileProperties, FileRowIsRight, DownloadableWasScanned, Downloadable, NextVersionIsFree

\* A call that is over holds nothing.
LEMMA FreeCallIsTyped == FreeCall \in FileCallStates /\ NoRow \in FileRows /\ FreeCall.pc = "idle"
<1> USE FileVersionsAssumption
<1>1. NoRow \in FileRows
  BY DEF NoRow, FileRows, ScanStatuses, NoKey
<1> QED BY <1>1 DEF FreeCall, FileCallStates, FilePcs, ScanStatuses, NoKey

\* It holds at the start.
LEMMA FileInitInv == FileVersionsInit => FileInv
<1> SUFFICES ASSUME FileVersionsInit PROVE FileInv
  OBVIOUS
<1>1. FileTypes
  BY FreeCallIsTyped DEF FileVersionsInit, FileTypes
<1>2. \A c \in FileCalls : FileCallIsRight(c)
  BY FreeCallIsTyped DEF FileVersionsInit, FileCallIsRight
<1>3. FileRowIsRight
  BY DEF FileVersionsInit, FileRowIsRight, NoRow
<1> QED BY <1>1, <1>2, <1>3 DEF FileVersionsInit, FileInv, VersionHasObject, QuarantineIsComplete

\* One call goes on; the others hold what they held.
LEMMA OneFileCallMoves ==
  ASSUME FileTypes, NEW c \in FileCalls, NEW call \in FileCallStates, fileCall' = [fileCall EXCEPT ![c] = call]
  PROVE  /\ fileCall' \in [FileCalls -> FileCallStates] /\ fileCall'[c] = call
         /\ \A d \in FileCalls : d # c => fileCall'[d] = fileCall[d]
BY DEF FileTypes

\* What a call holds stays right while others add versions, objects and verdicts.
LEMMA FileCallStaysRight ==
  ASSUME FileTypes, FileTypes', NEW c \in FileCalls, FileCallIsRight(c), fileCall'[c] = fileCall[c],
         objects \cup quarantined \subseteq objects' \cup quarantined', versionRows \subseteq versionRows',
         passed \subseteq passed', crossed \/ crossed' \/ fileRow.count <= fileRow'.count, crossed => crossed'
  PROVE  FileCallIsRight(c)'
<1>1. /\ fileCall'[c].pc \in {"streamed", "stored", "scanning", "verdict", "loaded", "emptied"} => fileCall'[c].key \in StorageKeys
      /\ fileCall'[c].pc = "stored" => fileCall'[c].key \in objects' \cup quarantined'
      /\ fileCall'[c].pc \in {"scanning", "verdict", "loaded", "emptied"} => versionRows' # {}
      /\ fileCall'[c].pc \in {"loaded", "emptied", "deleting"} => fileCall'[c].copy.current \in versionRows'
      /\ fileCall'[c].pc \in {"verdict", "loaded"} /\ fileCall'[c].verdict = "clean" => fileCall'[c].key \in passed'
  BY DEF FileCallIsRight
<1>2. ASSUME ~crossed', fileCall'[c].pc \in {"streamed", "stored"} PROVE fileCall'[c].key.n <= fileRow'.count + 1
  <2>1. fileCall[c].key.n <= fileRow.count + 1 /\ fileCall[c].key \in StorageKeys /\ fileRow.count <= fileRow'.count
    BY <1>2 DEF FileCallIsRight
  <2>2. fileRow.count \in Nat /\ fileRow'.count \in Nat /\ fileCall[c].key.n \in Nat
    BY <2>1, FileVersionsAssumption DEF FileTypes, FileRows, StorageKeys
  <2> QED BY <2>1, <2>2
<1> QED BY <1>1, <1>2 DEF FileCallIsRight

\* Every step of the specification keeps the inductive invariant.
LEMMA FileNextInv == FileInv /\ [FileVersionsNext]_fileVars => FileInv'
<1> SUFFICES ASSUME FileInv, [FileVersionsNext]_fileVars PROVE FileInv'
  OBVIOUS
<1> USE FileVersionsAssumption
<1>0. FileTypes /\ FileRowIsRight /\ VersionHasObject /\ QuarantineIsComplete /\ \A c \in FileCalls : FileCallIsRight(c)
  BY DEF FileInv
<1>1. ASSUME NEW c \in FileCalls, NEW content \in Contents, BeginUpload(c, content) PROVE FileInv'
  <2> DEFINE call == [FreeCall EXCEPT !.pc = "streamed", !.key = [n |-> fileRow.count + 1, content |-> content]]
  <2>1. /\ fileCall' = [fileCall EXCEPT ![c] = call] /\ fileRow.count < MaxVersions
        /\ UNCHANGED <<fileRow, versionRows, objects, passed, quarantined, crossed, cut>>
    BY <1>1 DEF BeginUpload
  <2>2. /\ [n |-> fileRow.count + 1, content |-> content] \in StorageKeys
        /\ fileRow.count + 1 <= fileRow.count + 1
    BY <1>0, <2>1 DEF FileTypes, FileRows, StorageKeys
  <2>3. call \in FileCallStates /\ call.pc = "streamed" /\ call.key = [n |-> fileRow.count + 1, content |-> content]
    BY <2>2, FreeCallIsTyped DEF FileCallStates, FilePcs, FreeCall
  <2> HIDE DEF call
  <2>4. /\ fileCall' \in [FileCalls -> FileCallStates] /\ fileCall'[c] = call
        /\ \A d \in FileCalls : d # c => fileCall'[d] = fileCall[d]
    BY <1>0, <2>1, <2>3, OneFileCallMoves
  <2>5. FileTypes'
    BY <1>0, <2>1, <2>4 DEF FileTypes
  <2>6. FileCallIsRight(c)'
    BY <2>1, <2>2, <2>3, <2>4 DEF FileCallIsRight
  <2>7. ASSUME NEW d \in FileCalls, d # c PROVE FileCallIsRight(d)'
    BY <1>0, <2>1, <2>4, <2>5, <2>7, FileCallStaysRight DEF FileTypes, FileRows
  <2>8. FileRowIsRight' /\ VersionHasObject'
    BY <1>0, <2>1 DEF FileRowIsRight, VersionHasObject
  <2>9. QuarantineIsComplete'
    <3>1. fileCall[c].pc = "idle"
      BY <1>1 DEF BeginUpload
    <3> QED BY <1>0, <2>1, <2>4, <3>1 DEF QuarantineIsComplete
  <2> QED BY <2>5, <2>6, <2>7, <2>8, <2>9 DEF FileInv
<1>2. ASSUME NEW c \in FileCalls, StoreObject(c) PROVE FileInv'
  <2> DEFINE call == [fileCall[c] EXCEPT !.pc = "stored"]
  <2>1. /\ fileCall' = [fileCall EXCEPT ![c] = call] /\ fileCall[c].pc = "streamed"
        /\ objects' = objects \cup {fileCall[c].key} /\ quarantined' = quarantined \ {fileCall[c].key}
        /\ UNCHANGED <<fileRow, versionRows, passed, crossed, cut>>
    BY <1>2 DEF StoreObject, Goto
  <2>2. call \in FileCallStates /\ call.pc = "stored" /\ call.key = fileCall[c].key
    BY <1>0 DEF FileTypes, FileCallStates, FilePcs
  <2> HIDE DEF call
  <2>3. /\ fileCall' \in [FileCalls -> FileCallStates] /\ fileCall'[c] = call
        /\ \A d \in FileCalls : d # c => fileCall'[d] = fileCall[d]
    BY <1>0, <2>1, <2>2, OneFileCallMoves
  <2>4. FileTypes'
    BY <1>0, <2>1, <2>3 DEF FileTypes
  <2>5. FileCallIsRight(c)'
    BY <1>0, <2>1, <2>2, <2>3 DEF FileCallIsRight
  <2>6. ASSUME NEW d \in FileCalls, d # c PROVE FileCallIsRight(d)'
    BY <1>0, <2>1, <2>3, <2>4, <2>6, FileCallStaysRight DEF FileTypes, FileRows
  <2>7. FileRowIsRight' /\ VersionHasObject'
    BY <1>0, <2>1 DEF FileRowIsRight, VersionHasObject
  <2>8. QuarantineIsComplete'
    BY <1>0, <2>1, <2>3 DEF QuarantineIsComplete
  <2> QED BY <2>4, <2>5, <2>6, <2>7, <2>8 DEF FileInv
<1>3. ASSUME NEW c \in FileCalls, StreamFails(c) \/ CommitRefused(c) PROVE FileInv'
  <2>1. /\ fileCall' = [fileCall EXCEPT ![c] = FreeCall] /\ fileCall[c].pc \in {"streamed", "stored"}
        /\ UNCHANGED <<fileRow, versionRows, objects, quarantined, passed, crossed, cut>>
    BY <1>3 DEF StreamFails, CommitRefused, Done
  <2>3. /\ fileCall' \in [FileCalls -> FileCallStates] /\ fileCall'[c] = FreeCall
        /\ \A d \in FileCalls : d # c => fileCall'[d] = fileCall[d]
    BY <1>0, <2>1, FreeCallIsTyped, OneFileCallMoves
  <2>4. FileTypes'
    BY <1>0, <2>1, <2>3 DEF FileTypes
  <2>5. FileCallIsRight(c)'
    BY <2>3, FreeCallIsTyped DEF FileCallIsRight
  <2>6. ASSUME NEW d \in FileCalls, d # c PROVE FileCallIsRight(d)'
    BY <1>0, <2>1, <2>3, <2>4, <2>6, FileCallStaysRight DEF FileTypes, FileRows
  <2>7. FileRowIsRight' /\ VersionHasObject'
    BY <1>0, <2>1 DEF FileRowIsRight, VersionHasObject
  <2>8. QuarantineIsComplete'
    BY <1>0, <2>1, <2>3 DEF QuarantineIsComplete
  <2> QED BY <2>4, <2>5, <2>6, <2>7, <2>8 DEF FileInv
<1>4. ASSUME NEW c \in FileCalls, CommitVersion(c) PROVE FileInv'
  <2> DEFINE call == [fileCall[c] EXCEPT !.pc = "scanning"]
             key == fileCall[c].key
  <2>1. /\ fileCall' = [fileCall EXCEPT ![c] = call] /\ fileCall[c].pc = "stored"
        /\ \A v \in versionRows : v.n # key.n
        /\ versionRows' = versionRows \cup {key}
        /\ fileRow' = [fileRow EXCEPT !.count = key.n, !.current = key, !.scan = "pending"]
        /\ UNCHANGED <<objects, passed, quarantined, crossed, cut>>
    BY <1>4 DEF CommitVersion, Goto, Versioned
  <2>2. call \in FileCallStates /\ call.pc = "scanning" /\ call.key = key
    BY <1>0 DEF FileTypes, FileCallStates, FilePcs
  <2>a. key \in StorageKeys /\ key.n \in 1..MaxVersions /\ key \in objects \cup quarantined
    BY <1>0, <2>1 DEF FileCallIsRight, StorageKeys
  <2>b. ~crossed => key.n <= fileRow.count + 1
    BY <1>0, <2>1 DEF FileCallIsRight
  <2>c. fileRow \in FileRows /\ fileRow.count \in Nat
    BY <1>0 DEF FileTypes, FileRows
  <2> HIDE DEF call, key
  <2>d. fileRow' \in FileRows /\ fileRow'.count = key.n /\ fileRow'.current = key /\ fileRow'.scan = "pending" /\ fileRow'.deleted = fileRow.deleted
    <3> DEFINE row == [fileRow EXCEPT !.count = key.n, !.current = key, !.scan = "pending"]
    <3>1. key.n \in 0..MaxVersions /\ key \in StorageKeys \cup {NoKey} /\ "pending" \in ScanStatuses
      BY <2>a DEF ScanStatuses
    <3>2. row \in FileRows /\ row.count = key.n /\ row.current = key /\ row.scan = "pending" /\ row.deleted = fileRow.deleted
      BY <2>c, <3>1 DEF FileRows
    <3> QED BY <2>1, <3>2
  <2>3. /\ fileCall' \in [FileCalls -> FileCallStates] /\ fileCall'[c] = call
        /\ \A d \in FileCalls : d # c => fileCall'[d] = fileCall[d]
    BY <1>0, <2>1, <2>2, OneFileCallMoves
  <2>4. FileTypes'
    BY <1>0, <2>1, <2>3, <2>a, <2>d DEF FileTypes
  <2>5. FileCallIsRight(c)'
    BY <2>1, <2>2, <2>3, <2>a DEF FileCallIsRight
  <2>e. ~crossed => key.n = fileRow.count + 1
    <3>1. ~crossed /\ key.n \in 1..fileRow.count => FALSE
      BY <1>0, <2>1 DEF FileRowIsRight
    <3> QED BY <2>a, <2>b, <2>c, <3>1
  <2>f. crossed \/ fileRow.count <= fileRow'.count
    BY <2>c, <2>d, <2>e
  <2>6. ASSUME NEW d \in FileCalls, d # c PROVE FileCallIsRight(d)'
    BY <1>0, <2>1, <2>3, <2>4, <2>6, <2>f, FileCallStaysRight
  <2>7. VersionHasObject'
    BY <1>0, <2>1, <2>a DEF VersionHasObject
  <2>8. QuarantineIsComplete'
    BY <1>0, <2>1, <2>3, <2>d DEF QuarantineIsComplete
  <2>9. FileRowIsRight'
    <3>1. ~crossed => \A v \in versionRows' : v.n <= fileRow'.count
      <4> SUFFICES ASSUME ~crossed, NEW v \in versionRows' PROVE v.n <= fileRow'.count
        OBVIOUS
      <4>1. CASE v \in versionRows
        <5>1. v.n <= fileRow.count /\ v.n \in Nat
          BY <1>0, <4>1 DEF FileRowIsRight, FileTypes, StorageKeys
        <5> QED BY <2>c, <2>d, <2>e, <5>1
      <4>2. CASE v = key
        BY <2>a, <2>d, <4>2
      <4> QED BY <2>1, <4>1, <4>2
    <3>2. ~crossed => \A n \in 1..fileRow'.count : \E v \in versionRows' : v.n = n
      <4> SUFFICES ASSUME ~crossed, NEW n \in 1..fileRow'.count PROVE \E v \in versionRows' : v.n = n
        OBVIOUS
      <4>1. CASE n = key.n
        BY <2>1, <4>1
      <4>2. CASE n # key.n
        <5>1. n \in 1..fileRow.count
          BY <2>c, <2>d, <2>e, <4>2
        <5> QED BY <1>0, <2>1, <5>1 DEF FileRowIsRight
      <4> QED BY <4>1, <4>2
    <3> QED BY <2>1, <2>d, <3>1, <3>2 DEF FileRowIsRight
  <2> QED BY <2>4, <2>5, <2>6, <2>7, <2>8, <2>9 DEF FileInv
<1>5. ASSUME NEW c \in FileCalls, Scan(c) PROVE FileInv'
  <2>0. PICK failed \in BOOLEAN :
          /\ fileCall' = [fileCall EXCEPT ![c].pc = "verdict", ![c].verdict = Verdict(fileCall[c].key.content, failed)]
          /\ passed' = IF ~failed /\ fileCall[c].key.content = "harmless" THEN passed \cup {fileCall[c].key} ELSE passed
    BY <1>5 DEF Scan
  <2> DEFINE verdict == Verdict(fileCall[c].key.content, failed)
             call == [fileCall[c] EXCEPT !.pc = "verdict", !.verdict = verdict]
  <2>1. /\ fileCall' = [fileCall EXCEPT ![c] = call] /\ fileCall[c].pc = "scanning"
        /\ UNCHANGED <<fileRow, versionRows, objects, quarantined, crossed, cut>>
    BY <1>0, <1>5, <2>0 DEF Scan, FileTypes
  <2>a. fileCall[c].key \in StorageKeys /\ fileCall[c].key.content \in Contents /\ versionRows # {}
    BY <1>0, <2>1 DEF FileCallIsRight, StorageKeys
  <2>b. verdict \in ScanStatuses /\ (verdict = "clean" => ~failed /\ fileCall[c].key.content = "harmless")
    BY <2>a DEF Verdict, ScanStatuses, Contents
  <2>c. passed \subseteq passed' /\ (verdict = "clean" => fileCall[c].key \in passed')
    BY <2>0, <2>b
  <2> HIDE DEF verdict
  <2>2. call \in FileCallStates /\ call.pc = "verdict" /\ call.key = fileCall[c].key /\ call.verdict = verdict
    BY <1>0, <2>b DEF FileTypes, FileCallStates, FilePcs
  <2> HIDE DEF call
  <2>3. /\ fileCall' \in [FileCalls -> FileCallStates] /\ fileCall'[c] = call
        /\ \A d \in FileCalls : d # c => fileCall'[d] = fileCall[d]
    BY <1>0, <2>1, <2>2, OneFileCallMoves
  <2>4. FileTypes'
    BY <1>0, <2>1, <2>3 DEF FileTypes
  <2>5. FileCallIsRight(c)'
    BY <2>1, <2>2, <2>3, <2>a, <2>c DEF FileCallIsRight
  <2>6. ASSUME NEW d \in FileCalls, d # c PROVE FileCallIsRight(d)'
    BY <1>0, <2>1, <2>3, <2>4, <2>6, <2>c, FileCallStaysRight DEF FileTypes, FileRows
  <2>7. FileRowIsRight' /\ VersionHasObject'
    BY <1>0, <2>1, <2>c DEF FileRowIsRight, VersionHasObject
  <2>8. QuarantineIsComplete'
    BY <1>0, <2>1, <2>3 DEF QuarantineIsComplete
  <2> QED BY <2>4, <2>5, <2>6, <2>7, <2>8 DEF FileInv
<1>6. ASSUME NEW c \in FileCalls, LoadForVerdict(c) \/ DeleteFileLoad(c) PROVE FileInv'
  <2>0. PICK pc \in {"loaded", "deleting"} :
          /\ fileCall' = [fileCall EXCEPT ![c].pc = pc, ![c].copy = fileRow]
          /\ pc = "loaded" => fileCall[c].pc = "verdict"
          /\ pc = "deleting" => fileCall[c].pc = "idle" /\ fileRow.count > 0
    BY <1>6 DEF LoadForVerdict, DeleteFileLoad
  <2> DEFINE call == [fileCall[c] EXCEPT !.pc = pc, !.copy = fileRow]
  <2>1. /\ fileCall' = [fileCall EXCEPT ![c] = call]
        /\ UNCHANGED <<fileRow, versionRows, objects, quarantined, passed, crossed, cut>>
    BY <1>0, <1>6, <2>0 DEF LoadForVerdict, DeleteFileLoad, FileTypes
  <2>2. call \in FileCallStates /\ call.pc = pc /\ call.key = fileCall[c].key /\ call.verdict = fileCall[c].verdict /\ call.copy = fileRow
    BY <1>0 DEF FileTypes, FileCallStates, FilePcs
  <2>a. versionRows # {} /\ fileRow.current \in versionRows
    BY <1>0, <2>0 DEF FileCallIsRight, FileRowIsRight
  <2> HIDE DEF call
  <2>3. /\ fileCall' \in [FileCalls -> FileCallStates] /\ fileCall'[c] = call
        /\ \A d \in FileCalls : d # c => fileCall'[d] = fileCall[d]
    BY <1>0, <2>1, <2>2, OneFileCallMoves
  <2>4. FileTypes'
    BY <1>0, <2>1, <2>3 DEF FileTypes
  <2>5. FileCallIsRight(c)'
    BY <1>0, <2>0, <2>1, <2>2, <2>3, <2>a DEF FileCallIsRight
  <2>6. ASSUME NEW d \in FileCalls, d # c PROVE FileCallIsRight(d)'
    BY <1>0, <2>1, <2>3, <2>4, <2>6, FileCallStaysRight DEF FileTypes, FileRows
  <2>7. FileRowIsRight' /\ VersionHasObject'
    BY <1>0, <2>1 DEF FileRowIsRight, VersionHasObject
  <2>8. QuarantineIsComplete'
    BY <1>0, <2>0, <2>1, <2>3 DEF QuarantineIsComplete
  <2> QED BY <2>4, <2>5, <2>6, <2>7, <2>8 DEF FileInv
<1>7. ASSUME NEW c \in FileCalls, Quarantine(c) PROVE FileInv'
  <2> DEFINE call == [fileCall[c] EXCEPT !.pc = "emptied"]
  <2>1. /\ fileCall' = [fileCall EXCEPT ![c] = call] /\ fileCall[c].pc = "loaded"
        /\ UNCHANGED <<fileRow, versionRows, passed, crossed, cut>>
    BY <1>7 DEF Quarantine, Goto
  <2>2. call \in FileCallStates /\ call.pc = "emptied" /\ call.key = fileCall[c].key /\ call.copy = fileCall[c].copy
    BY <1>0 DEF FileTypes, FileCallStates, FilePcs
  <2>a. RemovedObjects(c) = versionRows
    BY <1>0, <2>1 DEF FileCallIsRight, RemovedObjects
  <2>b. \/ objects' = objects \ versionRows /\ quarantined' = quarantined \cup versionRows
        \/ objects' = objects /\ quarantined' \in {quarantined, quarantined \cup versionRows} /\ (quarantined' # quarantined => versionRows = {})
    BY <1>7, <2>a DEF Quarantine
  <2>c. objects \cup quarantined \subseteq objects' \cup quarantined'
    BY <2>b
  <2> HIDE DEF call
  <2>3. /\ fileCall' \in [FileCalls -> FileCallStates] /\ fileCall'[c] = call
        /\ \A d \in FileCalls : d # c => fileCall'[d] = fileCall[d]
    BY <1>0, <2>1, <2>2, OneFileCallMoves
  <2>4. FileTypes'
    BY <1>0, <2>1, <2>3 DEF FileTypes
  <2>5. FileCallIsRight(c)'
    BY <1>0, <2>1, <2>2, <2>3 DEF FileCallIsRight
  <2>6. ASSUME NEW d \in FileCalls, d # c PROVE FileCallIsRight(d)'
    BY <1>0, <2>1, <2>3, <2>4, <2>6, <2>c, FileCallStaysRight DEF FileTypes, FileRows
  <2>7. FileRowIsRight' /\ VersionHasObject'
    BY <1>0, <2>1, <2>c DEF FileRowIsRight, VersionHasObject
  <2>8. QuarantineIsComplete'
    <3>1. quarantined' \cap objects' = {}
      BY <1>0, <2>b DEF QuarantineIsComplete
    <3> QED BY <2>2, <2>3, <3>1 DEF QuarantineIsComplete
  <2> QED BY <2>4, <2>5, <2>6, <2>7, <2>8 DEF FileInv
<1>8. ASSUME NEW c \in FileCalls, SaveVerdict(c) \/ DeleteFileSave(c) PROVE FileInv'
  <2> DEFINE copy == fileCall[c].copy
  <2>0. PICK scan, deleted :
          /\ fileRow' = [copy EXCEPT !.scan = scan, !.deleted = deleted]
          /\ scan \in ScanStatuses /\ deleted \in BOOLEAN
          /\ copy.deleted => deleted
          /\ fileCall[c].pc = "emptied" => deleted
          /\ ~crossed' => ~crossed /\ fileRow = copy
          /\ ~crossed' => (scan = "clean" => copy.scan = "clean" \/ copy.current \in passed)
    <3>a. copy \in FileRows /\ fileCall[c] \in FileCallStates
      BY <1>0 DEF FileTypes, FileCallStates
    <3>1. CASE SaveVerdict(c)
      <4> DEFINE call == fileCall[c]
      <4>1. /\ call.pc = (IF call.verdict = "infected" THEN "emptied" ELSE "loaded")
            /\ fileRow' = Judged(copy, call.verdict)
            /\ crossed' = (crossed \/ fileRow # copy \/ copy.current # call.key)
        BY <3>1 DEF SaveVerdict
      <4>2. fileRow' = [copy EXCEPT !.scan = call.verdict, !.deleted = (copy.deleted \/ call.verdict = "infected")]
        BY <4>1 DEF Judged
      <4>3. call.verdict \in ScanStatuses /\ copy.deleted \in BOOLEAN
        BY <3>a DEF FileCallStates, FileRows
      <4>4. call.pc = "emptied" => call.verdict = "infected"
        BY <4>1
      <4>5. ~crossed' => ~crossed /\ fileRow = copy /\ copy.current = call.key
        BY <4>1
      <4>6. ~crossed' => (call.verdict = "clean" => copy.current \in passed)
        BY <1>0, <4>1, <4>5 DEF FileCallIsRight
      <4>7. (copy.deleted \/ call.verdict = "infected") \in BOOLEAN
        OBVIOUS
      <4> DEFINE deleted == (copy.deleted \/ call.verdict = "infected")
      <4>8. (copy.deleted => deleted) /\ (fileCall[c].pc = "emptied" => deleted)
        BY <4>4
      <4> HIDE DEF call, copy, deleted
      <4>9. fileRow' = [copy EXCEPT !.scan = call.verdict, !.deleted = deleted] /\ deleted \in BOOLEAN
        BY <4>2, <4>7 DEF deleted
      <4> QED BY <4>3, <4>5, <4>6, <4>8, <4>9
    <3>2. CASE DeleteFileSave(c)
      <4>1. fileRow' = [copy EXCEPT !.deleted = TRUE] /\ crossed' = (crossed \/ fileRow # copy)
        BY <3>2 DEF DeleteFileSave
      <4>2. fileRow' = [copy EXCEPT !.scan = copy.scan, !.deleted = TRUE]
        BY <3>a, <4>1 DEF FileRows
      <4>3. copy.scan \in ScanStatuses
        BY <3>a DEF FileRows
      <4> HIDE DEF copy
      <4> WITNESS copy.scan, TRUE
      <4> QED BY <4>1, <4>2, <4>3
    <3> QED BY <1>8, <3>1, <3>2
  <2>1. /\ fileCall' = [fileCall EXCEPT ![c] = FreeCall] /\ fileCall[c].pc \in {"loaded", "emptied", "deleting"}
        /\ UNCHANGED <<versionRows, objects, quarantined, passed, cut>>
    BY <1>8 DEF SaveVerdict, DeleteFileSave, Done
  <2>3. /\ fileCall' \in [FileCalls -> FileCallStates] /\ fileCall'[c] = FreeCall
        /\ \A d \in FileCalls : d # c => fileCall'[d] = fileCall[d]
    BY <1>0, <2>1, FreeCallIsTyped, OneFileCallMoves
  <2>a. copy \in FileRows /\ copy.current \in versionRows
    BY <1>0, <2>1 DEF FileTypes, FileCallStates, FileCallIsRight
  <2> HIDE DEF copy
  <2>b. /\ fileRow' \in FileRows /\ fileRow'.count = copy.count /\ fileRow'.current = copy.current
        /\ fileRow'.scan = scan /\ fileRow'.deleted = deleted
    BY <2>0, <2>a DEF FileRows
  <2>c. crossed => crossed'
    BY <2>0
  <2>4. FileTypes'
    BY <1>0, <2>1, <2>3, <2>b DEF FileTypes
  <2>5. FileCallIsRight(c)'
    BY <2>3, FreeCallIsTyped DEF FileCallIsRight
  <2>d. crossed \/ crossed' \/ fileRow.count <= fileRow'.count
    BY <1>0, <2>0, <2>b DEF FileTypes, FileRows
  <2>6. ASSUME NEW d \in FileCalls, d # c PROVE FileCallIsRight(d)'
    BY <1>0, <2>1, <2>3, <2>4, <2>6, <2>c, <2>d, FileCallStaysRight
  <2>7. FileRowIsRight'
    <3>1. fileRow'.current \in versionRows' /\ versionRows' # {}
      BY <2>1, <2>a, <2>b
    <3>2. ~crossed' => (fileRow'.scan = "clean" => fileRow'.current \in passed')
      BY <1>0, <2>0, <2>1, <2>b DEF FileRowIsRight
    <3>3. ~crossed' => fileRow'.count = fileRow.count /\ ~crossed
      BY <2>0, <2>b
    <3> QED BY <1>0, <2>1, <3>1, <3>2, <3>3 DEF FileRowIsRight
  <2>8. VersionHasObject'
    BY <1>0, <2>1 DEF VersionHasObject
  <2>9. QuarantineIsComplete'
    <3>1. ASSUME quarantined # {}, ~crossed', ~cut, ~fileRow'.deleted PROVE \E d \in FileCalls : fileCall'[d].pc = "emptied"
      <4>1. fileCall[c].pc # "emptied" /\ ~fileRow.deleted
        BY <2>0, <2>b, <3>1
      <4>2. PICK d \in FileCalls : fileCall[d].pc = "emptied"
        BY <1>0, <2>0, <3>1, <4>1 DEF QuarantineIsComplete
      <4> QED BY <2>3, <4>1, <4>2
    <3> QED BY <1>0, <2>1, <3>1 DEF QuarantineIsComplete
  <2> QED BY <2>4, <2>5, <2>6, <2>7, <2>8, <2>9 DEF FileInv
<1>9. CASE CrashOfFiles
  <2>1. /\ fileCall' = [c \in FileCalls |-> FreeCall]
        /\ cut' = (cut \/ \E c \in FileCalls : fileCall[c].pc # "idle")
        /\ UNCHANGED <<fileRow, versionRows, objects, quarantined, passed, crossed>>
    BY <1>9 DEF CrashOfFiles
  <2>2. FileTypes'
    BY <1>0, <2>1, FreeCallIsTyped DEF FileTypes
  <2>3. \A c \in FileCalls : FileCallIsRight(c)'
    BY <2>1, FreeCallIsTyped DEF FileCallIsRight
  <2>4. FileRowIsRight' /\ VersionHasObject'
    BY <1>0, <2>1 DEF FileRowIsRight, VersionHasObject
  <2>5. QuarantineIsComplete'
    BY <1>0, <2>1 DEF QuarantineIsComplete
  <2> QED BY <2>2, <2>3, <2>4, <2>5 DEF FileInv
<1>10. CASE UNCHANGED fileVars
  <2>1. UNCHANGED <<fileRow, versionRows, objects, fileCall, passed, quarantined, crossed, cut>>
    BY <1>10 DEF fileVars
  <2> QED BY <1>0, <2>1 DEF FileInv, FileTypes, FileRowIsRight, VersionHasObject, QuarantineIsComplete, FileCallIsRight
<1> QED BY <1>1, <1>2, <1>3, <1>4, <1>5, <1>6, <1>7, <1>8, <1>9, <1>10 DEF FileVersionsNext

\* For any number of uploads, downloads and scans: what can be downloaded was scanned,
\* a version has its object unless it was quarantined, an infected file has none left,
\* and the next upload finds its version number free, unless a stale save or a crash
\* came between, as the properties say (files.service.ts).
THEOREM FilesAgreeWithObjects == FileVersionsSpec => []FileProperties
BY FileInvIsEnough, FileInitInv, FileNextInv, PTL DEF FileVersionsSpec

-----------------------------------------------------------------------------
\* Incidents.
\* A status that is stamped has its stamp.
StatusIsTimed(row) == row.status \in StampedStatuses => row.status \in row.stamps

\* The inductive invariant.
IncidentsInv ==
  /\ IncidentsTypeOK
  /\ \A c \in IncidentCalls :
       /\ StatusIsTimed(incidentCall[c].copy)
       /\ incidentCall[c].pc \in {"verifying", "resolving"} => "reported" \in incidentCall[c].gis
       /\ incidentCall[c].pc = "resolving" => "resolved" \notin incidentCall[c].gis
  /\ rowOvertaken \/ (resolvedEvents = 0 \/ (resolvedEvents = 1 /\ "resolved" \in location))
  /\ rowOvertaken \/ \A c \in IncidentCalls :
       incidentCall[c].auto /\ incidentCall[c].pc \in {"updating", "loaded"} /\ incidentCall[c].to \in WorkingStatuses
         => incidentCall[c].copy.status = "open"

\* It holds at the start.
LEMMA IncidentsInitInv == IncidentsInit => IncidentsInv
<1> SUFFICES ASSUME IncidentsInit PROVE IncidentsInv
  OBVIOUS
<1>1. FreeIncidentCall \in IncidentCallStates /\ NoIncident \in IncidentRows
  BY DEF FreeIncidentCall, IncidentCallStates, NoIncident, IncidentRows, IncidentPcs, IncidentStatuses
<1>2. IncidentsTypeOK
  <2>1. incidentCall \in [IncidentCalls -> IncidentCallStates] /\ incident \in IncidentRows
    BY <1>1 DEF IncidentsInit
  <2>2. incident.status \notin StampedStatuses
    BY DEF IncidentsInit, NoIncident, StampedStatuses
  <2>3. rowOvertaken \in BOOLEAN /\ missed \in BOOLEAN
    BY Zenon DEF IncidentsInit
  <2>4. location = {} /\ resolvedEvents \in Nat /\ incidentCrashes \in 0..MaxIncidentCrashes
    BY IncidentsAssumption DEF IncidentsInit
  <2> QED BY <2>1, <2>2, <2>3, <2>4 DEF IncidentsTypeOK
<1> QED BY <1>2 DEF IncidentsInit, IncidentsInv, StatusIsTimed, FreeIncidentCall, NoIncident, StampedStatuses

\* A step of call c that keeps the rows sound and leaves the other calls alone.
LEMMA IncidentStepKeeps ==
  ASSUME IncidentsInv, NEW c \in IncidentCalls, NEW state \in IncidentCallStates,
         SetIncidentCall(c, state),
         location' \subseteq GisFacts, location \subseteq location' \/ "reported" \in location', location' # {} => "reported" \in location',
         incident' \in IncidentRows, StatusIsTimed(incident'),
         rowOvertaken' \in BOOLEAN, rowOvertaken => rowOvertaken', missed' \in BOOLEAN, UNCHANGED incidentCrashes,
         resolvedEvents' \in Nat,
         StatusIsTimed(state.copy),
         state.pc \in {"verifying", "resolving"} => "reported" \in state.gis,
         state.pc = "resolving" => "resolved" \notin state.gis,
         rowOvertaken' \/ (resolvedEvents' = 0 \/ (resolvedEvents' = 1 /\ "resolved" \in location')),
         rowOvertaken' \/ (state.auto /\ state.pc \in {"updating", "loaded"} /\ state.to \in WorkingStatuses
                            => state.copy.status = "open")
  PROVE  IncidentsInv'
<1>1. /\ incidentCall' \in [IncidentCalls -> IncidentCallStates] /\ incidentCall'[c] = state
      /\ \A d \in IncidentCalls : d # c => incidentCall'[d] = incidentCall[d]
  BY DEF IncidentsInv, IncidentsTypeOK, SetIncidentCall
<1>2. IncidentsTypeOK'
  BY <1>1 DEF IncidentsInv, IncidentsTypeOK, StatusIsTimed
<1>3. ASSUME NEW d \in IncidentCalls
      PROVE  /\ StatusIsTimed(incidentCall'[d].copy)
             /\ incidentCall'[d].pc \in {"verifying", "resolving"} => "reported" \in incidentCall'[d].gis
             /\ incidentCall'[d].pc = "resolving" => "resolved" \notin incidentCall'[d].gis
             /\ \/ rowOvertaken'
                \/ incidentCall'[d].auto /\ incidentCall'[d].pc \in {"updating", "loaded"} /\ incidentCall'[d].to \in WorkingStatuses
                     => incidentCall'[d].copy.status = "open"
  <2>1. CASE d = c
    BY <1>1, <2>1
  <2>2. CASE d # c
    BY <1>1, <2>2 DEF IncidentsInv
  <2> QED BY <2>1, <2>2
<1> QED BY <1>2, <1>3 DEF IncidentsInv, StatusIsTimed

\* Every step of a call keeps the invariant.
LEMMA IncidentStepsKeep ==
  ASSUME IncidentsInv, NEW c \in IncidentCalls,
         \/ ReportIncident(c) \/ VerifyIncidentLoad(c) \/ VerifyIncidentSave(c)
         \/ ResolveIncidentLoad(c) \/ ResolveIncidentSave(c)
         \/ RegisterIncident(c) \/ FindRegistered(c) \/ InsertIncident(c)
         \/ OnGisIncidentResolved(c)
         \/ \E to \in WorkingStatuses : RecordResponse(c, to)
         \/ \E to \in UpdateStatuses \cup {"kept"} : UpdateIncident(c, to)
         \/ UpdateIncidentLoad(c) \/ UpdateIncidentSave(c)
  PROVE  IncidentsInv'
<1> DEFINE call == incidentCall[c]
<1>0. /\ call \in IncidentCallStates /\ incident \in IncidentRows /\ StatusIsTimed(incident) /\ StatusIsTimed(call.copy)
      /\ resolvedEvents \in Nat /\ rowOvertaken \in BOOLEAN /\ missed \in BOOLEAN /\ location \subseteq GisFacts
      /\ location # {} => "reported" \in location
  BY DEF IncidentsInv, IncidentsTypeOK, StatusIsTimed
<1>a. /\ call.gis \subseteq GisFacts /\ call.copy \in IncidentRows /\ call.to \in IncidentStatuses \cup {"kept"} /\ call.auto \in BOOLEAN
  BY <1>0 DEF IncidentCallStates
<1>b. /\ FreeIncidentCall \in IncidentCallStates
      /\ FreeIncidentCall.pc = "idle" /\ FreeIncidentCall.gis = {} /\ FreeIncidentCall.copy = NoIncident
      /\ FreeIncidentCall.to = "kept" /\ FreeIncidentCall.auto = FALSE /\ StatusIsTimed(NoIncident)
  BY DEF FreeIncidentCall, IncidentCallStates, NoIncident, IncidentRows, IncidentPcs, IncidentStatuses, StatusIsTimed, StampedStatuses
<1>c. {"verifying", "resolving", "registering", "absent", "resolved_emitted", "updating", "loaded"} \subseteq IncidentPcs
      /\ WorkingStatuses \subseteq IncidentStatuses /\ "resolved" \in IncidentStatuses /\ "resolved" \notin WorkingStatuses
  BY DEF IncidentPcs, WorkingStatuses, IncidentStatuses
<1>1. CASE ReportIncident(c)
  <2> DEFINE next == [FreeIncidentCall EXCEPT !.pc = "registering", !.auto = TRUE]
  <2>1. /\ SetIncidentCall(c, next) /\ location = {} /\ location' = {"reported"}
        /\ UNCHANGED <<incident, resolvedEvents, rowOvertaken, missed, incidentCrashes>>
    BY <1>1 DEF ReportIncident
  <2>2. next \in IncidentCallStates /\ next.pc = "registering" /\ next.copy = NoIncident
    BY <1>b, <1>c DEF IncidentCallStates
  <2> HIDE DEF next
  <2> QED BY <1>0, <1>b, <2>1, <2>2, IncidentStepKeeps DEF IncidentsInv, GisFacts
<1>2. ASSUME NEW pc \in {"verifying", "resolving"}, NEW fact \in {"verified", "resolved"},
             pc = "resolving" => fact = "resolved", LoadLocation(c, pc, fact) PROVE IncidentsInv'
  <2> DEFINE next == [FreeIncidentCall EXCEPT !.pc = pc, !.gis = location]
  <2>1. /\ SetIncidentCall(c, next) /\ location # {} /\ fact \notin location
        /\ UNCHANGED <<location, incident, resolvedEvents, rowOvertaken, missed, incidentCrashes>>
    BY <1>2 DEF LoadLocation, MayRecord
  <2>2. next \in IncidentCallStates /\ next.pc = pc /\ next.gis = location /\ next.copy = NoIncident
    <3>1. pc \in IncidentPcs /\ location \in SUBSET GisFacts
      BY <1>0, <1>c
    <3> QED BY <1>b, <3>1 DEF IncidentCallStates
  <2> HIDE DEF next
  <2> QED BY <1>0, <1>b, <1>2, <2>1, <2>2, IncidentStepKeeps DEF IncidentsInv
<1>3. CASE VerifyIncidentSave(c)
  <2>1. /\ SetIncidentCall(c, FreeIncidentCall) /\ call.pc = "verifying"
        /\ location' = call.gis \cup {"verified"} /\ rowOvertaken' = (rowOvertaken \/ location # call.gis)
        /\ UNCHANGED <<incident, resolvedEvents, missed, incidentCrashes>>
    BY <1>3 DEF VerifyIncidentSave, FreeIncident, Recorded
  <2>2. "reported" \in call.gis
    BY <2>1 DEF IncidentsInv
  <2>3. rowOvertaken' \in BOOLEAN /\ (rowOvertaken => rowOvertaken')
        /\ (rowOvertaken' \/ location' = location \cup {"verified"})
    BY <2>1
  <2> QED BY <1>0, <1>a, <1>b, <2>1, <2>2, <2>3, IncidentStepKeeps DEF IncidentsInv, GisFacts
<1>4. CASE ResolveIncidentSave(c)
  <2> DEFINE next == [FreeIncidentCall EXCEPT !.pc = "resolved_emitted", !.auto = TRUE]
  <2>1. /\ SetIncidentCall(c, next) /\ call.pc = "resolving"
        /\ location' = call.gis \cup {"resolved"} /\ rowOvertaken' = (rowOvertaken \/ location # call.gis)
        /\ resolvedEvents' = resolvedEvents + 1
        /\ UNCHANGED <<incident, missed, incidentCrashes>>
    BY <1>4 DEF ResolveIncidentSave, Recorded
  <2>2. next \in IncidentCallStates /\ next.pc = "resolved_emitted" /\ next.copy = NoIncident
    BY <1>b, <1>c DEF IncidentCallStates
  <2>3. "reported" \in call.gis /\ "resolved" \notin call.gis
    BY <2>1 DEF IncidentsInv
  <2>4. rowOvertaken' \in BOOLEAN /\ (rowOvertaken => rowOvertaken')
    BY <2>1
  <2>5. rowOvertaken' \/ resolvedEvents = 0
    <3>1. rowOvertaken \/ location # call.gis \/ resolvedEvents = 0
      BY <2>3 DEF IncidentsInv
    <3>2. rowOvertaken \/ location # call.gis => rowOvertaken'
      BY <2>1
    <3> QED BY <3>1, <3>2
  <2>6. rowOvertaken' \/ (resolvedEvents' = 1 /\ "resolved" \in location')
    BY <2>1, <2>5
  <2>7. location' \subseteq GisFacts /\ "reported" \in location' /\ resolvedEvents' \in Nat
    BY <1>0, <1>a, <2>1, <2>3 DEF GisFacts
  <2> HIDE DEF next
  <2> QED BY <1>0, <1>b, <2>1, <2>2, <2>4, <2>6, <2>7, IncidentStepKeeps DEF IncidentsInv
<1>5. CASE RegisterIncident(c)
  <2> DEFINE next == [FreeIncidentCall EXCEPT !.pc = "registering"]
  <2>1. /\ SetIncidentCall(c, next)
        /\ UNCHANGED <<location, incident, resolvedEvents, rowOvertaken, missed, incidentCrashes>>
    BY <1>5 DEF RegisterIncident
  <2>2. next \in IncidentCallStates /\ next.pc = "registering" /\ next.copy = NoIncident
    BY <1>b, <1>c DEF IncidentCallStates
  <2> HIDE DEF next
  <2> QED BY <1>0, <1>b, <2>1, <2>2, IncidentStepKeeps DEF IncidentsInv
<1>6. CASE FindRegistered(c)
  <2> DEFINE next == [call EXCEPT !.pc = "absent"]
  <2>1. /\ SetIncidentCall(c, FreeIncidentCall) \/ SetIncidentCall(c, next)
        /\ UNCHANGED <<location, incident, resolvedEvents, rowOvertaken, missed, incidentCrashes>>
    BY <1>6 DEF FindRegistered
  <2>2. next \in IncidentCallStates /\ next.pc = "absent" /\ next.copy = call.copy
    BY <1>0, <1>c DEF IncidentCallStates
  <2> HIDE DEF next
  <2> QED BY <1>0, <1>b, <2>1, <2>2, IncidentStepKeeps DEF IncidentsInv
<1>7. CASE InsertIncident(c)
  <2>1. /\ SetIncidentCall(c, FreeIncidentCall) /\ incident' \in {incident, [status |-> "open", stamps |-> {}]}
        /\ UNCHANGED <<location, resolvedEvents, rowOvertaken, missed, incidentCrashes>>
    BY <1>7 DEF InsertIncident, FreeIncident
  <2>3. incident' \in IncidentRows /\ StatusIsTimed(incident')
    BY <1>0, <2>1 DEF IncidentRows, IncidentStatuses, StatusIsTimed, StampedStatuses
  <2> QED BY <1>0, <1>b, <2>1, <2>3, IncidentStepKeeps DEF IncidentsInv
<1>8. CASE OnGisIncidentResolved(c)
  <2> DEFINE next == [call EXCEPT !.pc = "updating", !.to = "resolved", !.copy = incident]
  <2>1. /\ SetIncidentCall(c, FreeIncidentCall) \/ SetIncidentCall(c, next)
        /\ missed' = (missed \/ ~Registered)
        /\ UNCHANGED <<location, incident, resolvedEvents, rowOvertaken, incidentCrashes>>
    BY <1>8 DEF OnGisIncidentResolved, FreeIncident
  <2>2. next \in IncidentCallStates /\ next.pc = "updating" /\ next.copy = incident /\ next.to = "resolved"
    <3>1. "updating" \in IncidentPcs /\ "resolved" \in IncidentStatuses \cup {"kept"}
      BY <1>c
    <3> QED BY <1>0, <3>1 DEF IncidentCallStates
  <2>3. missed' \in BOOLEAN
    BY <2>1
  <2> HIDE DEF next
  <2> QED BY <1>0, <1>b, <1>c, <2>1, <2>2, <2>3, IncidentStepKeeps DEF IncidentsInv
<1>9. ASSUME NEW to \in WorkingStatuses, RecordResponse(c, to) PROVE IncidentsInv'
  <2> DEFINE next == [FreeIncidentCall EXCEPT !.pc = "updating", !.to = to, !.auto = TRUE, !.copy = incident]
  <2>1. /\ SetIncidentCall(c, next) /\ incident.status = "open"
        /\ UNCHANGED <<location, incident, resolvedEvents, rowOvertaken, missed, incidentCrashes>>
    BY <1>9 DEF RecordResponse, AutoStatusDue
  <2>2. next \in IncidentCallStates /\ next.pc = "updating" /\ next.copy = incident
    <3>1. "updating" \in IncidentPcs /\ to \in IncidentStatuses \cup {"kept"}
      BY <1>c
    <3> QED BY <1>0, <1>b, <3>1 DEF IncidentCallStates
  <2> HIDE DEF next
  <2> QED BY <1>0, <1>b, <2>1, <2>2, IncidentStepKeeps DEF IncidentsInv
<1>10. ASSUME NEW to \in UpdateStatuses \cup {"kept"}, UpdateIncident(c, to) PROVE IncidentsInv'
  <2> DEFINE next == [FreeIncidentCall EXCEPT !.pc = "updating", !.to = to]
  <2>1. /\ SetIncidentCall(c, next)
        /\ UNCHANGED <<location, incident, resolvedEvents, rowOvertaken, missed, incidentCrashes>>
    BY <1>10 DEF UpdateIncident
  <2>2. next \in IncidentCallStates /\ next.pc = "updating" /\ next.copy = NoIncident /\ next.auto = FALSE
    <3>1. "updating" \in IncidentPcs /\ to \in IncidentStatuses \cup {"kept"}
      BY <1>c, IncidentsAssumption
    <3> QED BY <1>b, <3>1 DEF IncidentCallStates
  <2> HIDE DEF next
  <2> QED BY <1>0, <1>b, <2>1, <2>2, IncidentStepKeeps DEF IncidentsInv
<1>11. CASE UpdateIncidentLoad(c)
  <2> DEFINE next == [call EXCEPT !.pc = "loaded", !.copy = incident]
  <2>1. /\ SetIncidentCall(c, next) /\ call.pc = "updating"
        /\ rowOvertaken' = (rowOvertaken \/ (call.copy # NoIncident /\ call.copy # incident))
        /\ UNCHANGED <<location, incident, resolvedEvents, missed, incidentCrashes>>
    BY <1>11 DEF UpdateIncidentLoad
  <2>2. next \in IncidentCallStates /\ next.pc = "loaded" /\ next.copy = incident /\ next.to = call.to /\ next.auto = call.auto
    <3>1. "loaded" \in IncidentPcs
      BY <1>c
    <3> QED BY <1>0, <3>1 DEF IncidentCallStates
  <2>3. rowOvertaken' \in BOOLEAN /\ (rowOvertaken => rowOvertaken')
        /\ (~rowOvertaken' => call.copy = NoIncident \/ call.copy = incident)
    BY <2>1
  <2>4. rowOvertaken' \/ (call.auto /\ call.to \in WorkingStatuses => incident.status = "open")
    <3>1. "open" # NoIncident.status
      BY DEF NoIncident
    <3> QED BY <2>1, <2>3, <3>1 DEF IncidentsInv
  <2> HIDE DEF next
  <2> QED BY <1>0, <2>1, <2>2, <2>3, <2>4, IncidentStepKeeps DEF IncidentsInv
<1>12. CASE UpdateIncidentSave(c)
  <2>1. /\ SetIncidentCall(c, FreeIncidentCall) /\ incident' = Updated(call.copy, call.to)
        /\ rowOvertaken' = (rowOvertaken \/ incident # call.copy)
        /\ UNCHANGED <<location, resolvedEvents, missed, incidentCrashes>>
    BY <1>12 DEF UpdateIncidentSave, FreeIncident
  <2>3. incident' \in IncidentRows /\ StatusIsTimed(incident')
    BY <1>0, <1>a, <2>1 DEF IncidentRows, IncidentStatuses, StatusIsTimed, StampedStatuses, Updated
  <2>4. rowOvertaken' \in BOOLEAN /\ (rowOvertaken => rowOvertaken')
    BY <2>1
  <2> QED BY <1>0, <1>b, <2>1, <2>3, <2>4, IncidentStepKeeps DEF IncidentsInv
<1> QED BY <1>1, <1>2, <1>3, <1>4, <1>5, <1>6, <1>7, <1>8, <1>9, <1>10, <1>11, <1>12 DEF VerifyIncidentLoad, ResolveIncidentLoad

\* Every step of the specification keeps the inductive invariant.
LEMMA IncidentsNextInv == IncidentsInv /\ [IncidentsNext]_incidentVars => IncidentsInv'
<1> SUFFICES ASSUME IncidentsInv, [IncidentsNext]_incidentVars PROVE IncidentsInv'
  OBVIOUS
<1>1. CASE EnrichIncident
  BY <1>1 DEF EnrichIncident, IncidentsInv, IncidentsTypeOK, GisFacts, StatusIsTimed
<1>2. CASE CrashOfIncidents
  <2>1. /\ incidentCall' = [c \in IncidentCalls |-> FreeIncidentCall] /\ missed' \in BOOLEAN
        /\ incidentCrashes' = incidentCrashes + 1 /\ incidentCrashes < MaxIncidentCrashes
        /\ UNCHANGED <<location, incident, resolvedEvents, rowOvertaken>>
    BY <1>2 DEF CrashOfIncidents
  <2>2. /\ FreeIncidentCall \in IncidentCallStates /\ FreeIncidentCall.pc = "idle" /\ FreeIncidentCall.auto = FALSE
        /\ StatusIsTimed(FreeIncidentCall.copy)
    BY DEF FreeIncidentCall, IncidentCallStates, NoIncident, IncidentRows, IncidentPcs, IncidentStatuses, StatusIsTimed, StampedStatuses
  <2>3. IncidentsTypeOK'
    BY <2>1, <2>2, IncidentsAssumption DEF IncidentsInv, IncidentsTypeOK
  <2> QED BY <2>1, <2>2, <2>3 DEF IncidentsInv
<1>3. CASE UNCHANGED incidentVars
  BY <1>3 DEF incidentVars, IncidentsInv, IncidentsTypeOK
<1> QED BY <1>1, <1>2, <1>3, IncidentStepsKeep DEF IncidentsNext

\* An automatic update of a finished incident back to work was overtaken.
LEMMA UpdatesReopenNothing ==
  ASSUME IncidentsInv, NEW c \in IncidentCalls, UpdateIncidentSave(c),
         incident.status \in FinishedStatuses, incident'.status \in WorkingStatuses
  PROVE  rowOvertaken' \/ (incidentCall[c].pc = "loaded" /\ ~incidentCall[c].auto /\ incidentCall'[c].pc = "idle")
<1> DEFINE call == incidentCall[c]
<1>1. /\ call.pc = "loaded" /\ call \in IncidentCallStates /\ incident' = Updated(call.copy, call.to)
      /\ rowOvertaken' = (rowOvertaken \/ incident # call.copy)
      /\ incidentCall' = [incidentCall EXCEPT ![c] = FreeIncidentCall]
  BY DEF UpdateIncidentSave, FreeIncident, SetIncidentCall, IncidentsInv, IncidentsTypeOK
<1>2. incidentCall'[c].pc = "idle"
  BY <1>1 DEF IncidentsInv, IncidentsTypeOK, FreeIncidentCall
<1>3. FinishedStatuses \cap WorkingStatuses = {} /\ "open" \notin FinishedStatuses /\ "kept" \notin WorkingStatuses
  BY DEF FinishedStatuses, WorkingStatuses
<1>4. CASE ~ rowOvertaken /\ incident = call.copy /\ call.auto
  <2>1. call.to # "kept" /\ incident'.status = call.to
    BY <1>1, <1>3, <1>4 DEF Updated
  <2> QED BY <1>1, <1>3, <1>4, <2>1 DEF IncidentsInv
<1>5. CASE rowOvertaken \/ incident # call.copy
  BY <1>1, <1>5
<1>6. CASE ~ call.auto
  BY <1>1, <1>2, <1>6
<1> QED BY <1>4, <1>5, <1>6

\* Every step of an incident keeps the facts, and only people reopen.
IncidentFactsStay ==
  /\ rowOvertaken' \/ (location \subseteq location' /\ incident.stamps \subseteq incident'.stamps)
  /\ (incident.status \in FinishedStatuses /\ incident'.status \in WorkingStatuses) =>
       \/ rowOvertaken'
       \/ \E c \in IncidentCalls : incidentCall[c].pc = "loaded" /\ ~incidentCall[c].auto /\ incidentCall'[c].pc = "idle"

\* It says so of every step the specification allows.
LEMMA IncidentStepsKeepFacts == IncidentsInv /\ [IncidentsNext]_incidentVars => IncidentFactsStay \/ UNCHANGED incidentVars
<1> SUFFICES ASSUME IncidentsInv, IncidentsNext PROVE IncidentFactsStay
  OBVIOUS
<1>0. FinishedStatuses \cap WorkingStatuses = {} /\ NoIncident.status \notin FinishedStatuses /\ NoIncident.stamps = {}
  BY DEF FinishedStatuses, WorkingStatuses, NoIncident
<1>1. ASSUME UNCHANGED incident, location \subseteq location' PROVE IncidentFactsStay
  BY <1>0, <1>1 DEF IncidentFactsStay
<1>2. ASSUME NEW c \in IncidentCalls, VerifyIncidentSave(c) \/ ResolveIncidentSave(c) PROVE IncidentFactsStay
  <2>1. UNCHANGED incident /\ (rowOvertaken' \/ location \subseteq location')
    BY <1>2 DEF VerifyIncidentSave, ResolveIncidentSave, Recorded
  <2> QED BY <1>0, <2>1 DEF IncidentFactsStay
<1>3. ASSUME NEW c \in IncidentCalls, InsertIncident(c) PROVE IncidentFactsStay
  BY <1>0, <1>3 DEF IncidentFactsStay, InsertIncident, Registered
<1>4. ASSUME NEW c \in IncidentCalls, UpdateIncidentSave(c) PROVE IncidentFactsStay
  <2>1. UNCHANGED location /\ (rowOvertaken' \/ incident.stamps \subseteq incident'.stamps)
    BY <1>4 DEF UpdateIncidentSave, Updated
  <2> QED BY <1>4, <2>1, UpdatesReopenNothing DEF IncidentFactsStay
<1> QED BY <1>1, <1>2, <1>3, <1>4 DEF IncidentsNext, ReportIncident, VerifyIncidentLoad, ResolveIncidentLoad, LoadLocation,
       RegisterIncident, FindRegistered, OnGisIncidentResolved, RecordResponse, UpdateIncident, UpdateIncidentLoad, EnrichIncident,
       CrashOfIncidents

\* It implies that an incident is resolved once.
LEMMA ResolvedAtMostOnce == IncidentsInv => ResolvedOnce
<1> SUFFICES ASSUME IncidentsInv PROVE ResolvedOnce
  OBVIOUS
<1>1. CASE rowOvertaken
  BY <1>1, Zenon DEF ResolvedOnce
<1>2. CASE ~rowOvertaken
  <2>1. resolvedEvents = 0 \/ resolvedEvents = 1
    BY <1>2, Zenon DEF IncidentsInv
  <2>2. ~(resolvedEvents > 1)
    BY <2>1
  <2> QED BY <2>2, Zenon DEF ResolvedOnce
<1> QED BY <1>1, <1>2

\* For any number of calls: an incident is resolved once, what was recorded of it
\* stays, and only people take a finished one back to work, unless a stale row was
\* saved over a newer one (gis.service.ts, analytics.service.ts).
THEOREM IncidentFactsAreKept == IncidentsSpec => ([]ResolvedOnce) /\ RecordedFactsStay /\ OnlyPeopleReopen
<1>1. IncidentsInv /\ [IncidentsNext]_incidentVars =>
        /\ [rowOvertaken' \/ (location \subseteq location' /\ incident.stamps \subseteq incident'.stamps)]_incidentVars
        /\ [(incident.status \in FinishedStatuses /\ incident'.status \in WorkingStatuses) =>
             \/ rowOvertaken'
             \/ \E c \in IncidentCalls : /\ incidentCall[c].pc = "loaded" /\ ~incidentCall[c].auto
                                         /\ incidentCall'[c].pc = "idle"]_incidentVars
  BY IncidentStepsKeepFacts DEF IncidentFactsStay
<1> QED BY ResolvedAtMostOnce, <1>1, IncidentsInitInv, IncidentsNextInv, PTL DEF IncidentsSpec, RecordedFactsStay, OnlyPeopleReopen

-----------------------------------------------------------------------------
\* The archive of the audit trail.
\* The types the proof needs.
AuditTypes ==
  /\ emitted \in Nat /\ aged \in 0..emitted /\ expired \in 0..aged
  /\ emitted <= MaxEvents
  /\ hot \subseteq stored /\ stored \subseteq 1..emitted
  /\ archiveRows \in [AuditEvents -> Nat]
  /\ \A e \in AuditEvents : archiveRows[e] > 0 => e <= aged
  /\ archiver \in [Archivers -> [pc: {"idle", "read", "copied"}, ids: SUBSET AuditEvents]]
  /\ \A r \in Archivers : archiver[r].ids \subseteq 1..aged

\* What a job has copied is in the archive, or was purged from it.
CopiedIsArchived ==
  \A r \in Archivers : archiver[r].pc = "copied" =>
    \A e \in archiver[r].ids : archiveRows[e] > 0 \/ e \in purged

\* As long as no job met another, what a job has read is still to be copied, and no
\* other job has it.
JobsAreApart ==
  /\ \A r, q \in Archivers : r # q => archiver[r].ids \cap archiver[q].ids = {}
  /\ \A r \in Archivers : archiver[r].pc = "idle" => archiver[r].ids = {}
  /\ \A r \in Archivers : archiver[r].pc = "read" =>
       \A e \in archiver[r].ids : e \in hot /\ archiveRows[e] = 0

\* An event is archived once, and found in both places only before its job deletes it.
AccountedFor(e) ==
  /\ archiveRows[e] <= 1
  /\ archiveRows[e] = 1 /\ e \in hot => \E r \in Archivers : archiver[r].pc = "copied" /\ e \in archiver[r].ids

\* So it is for every event.
AllAccounted == \A e \in stored : AccountedFor(e)

\* The inductive invariant.
AuditInv ==
  /\ AuditTypes /\ CopiedIsArchived /\ NothingIsLost
  /\ entangled \/ (JobsAreApart /\ AllAccounted)

\* It implies the properties.
LEMMA AccountedMeansOnce == AuditInv => ArchivedOnce
BY DEF AuditInv, AllAccounted, AccountedFor, ArchivedOnce

\* It holds at the start.
LEMMA AuditInitInv == AuditTrailInit => AuditInv
<1> SUFFICES ASSUME AuditTrailInit PROVE AuditInv
  OBVIOUS
<1>1. IdleArchiver = [pc |-> "idle", ids |-> {}] /\ hot = {} /\ stored = {}
  BY DEF IdleArchiver, AuditTrailInit
<1>2. AuditTypes
  BY <1>1, AuditTrailAssumption DEF AuditTrailInit, AuditTypes
<1> QED BY <1>1, <1>2 DEF AuditTrailInit, AuditInv, CopiedIsArchived, NothingIsLost, JobsAreApart, AllAccounted, AccountedFor

\* One archiver goes on.
LEMMA OneArchiverMoves ==
  ASSUME AuditTypes, NEW r \in Archivers, NEW pc \in {"idle", "read", "copied"}, NEW ids \in SUBSET (1..aged),
         archiver' = [archiver EXCEPT ![r] = [pc |-> pc, ids |-> ids]]
  PROVE  /\ archiver' \in [Archivers -> [pc: {"idle", "read", "copied"}, ids: SUBSET AuditEvents]]
         /\ archiver'[r].pc = pc /\ archiver'[r].ids = ids
         /\ \A q \in Archivers : q # r => archiver'[q] = archiver[q]
         /\ \A q \in Archivers : archiver'[q].ids \subseteq 1..aged
<1>1. ids \subseteq AuditEvents
  BY AuditTrailAssumption DEF AuditTypes, AuditEvents
<1>2. [pc |-> pc, ids |-> ids] \in [pc: {"idle", "read", "copied"}, ids: SUBSET AuditEvents]
  BY <1>1
<1> QED BY <1>2 DEF AuditTypes

\* Every step of the specification keeps the inductive invariant.
LEMMA AuditNextInv == AuditInv /\ [AuditTrailNext]_auditVars => AuditInv'
<1> SUFFICES ASSUME AuditInv, [AuditTrailNext]_auditVars PROVE AuditInv'
  OBVIOUS
<1> USE AuditTrailAssumption
<1>0. AuditTypes /\ CopiedIsArchived /\ NothingIsLost
  BY DEF AuditInv
<1>1. CASE EmitAudit
  <2>1. PICK saved \in SUBSET {emitted + 1} : hot' = hot \cup saved /\ stored' = stored \cup saved
    BY <1>1 DEF EmitAudit
  <2>2. /\ emitted' = emitted + 1 /\ emitted < MaxEvents
        /\ UNCHANGED <<archiveRows, aged, expired, purged, archiver, entangled, auditCrashes>>
    BY <1>1 DEF EmitAudit
  <2>3. AuditTypes'
    BY <1>0, <2>1, <2>2 DEF AuditTypes
  <2>4. CopiedIsArchived' /\ NothingIsLost'
    BY <1>0, <2>1, <2>2 DEF CopiedIsArchived, NothingIsLost
  <2>5. \A e \in saved : archiveRows[e] = 0
    BY <1>0, <2>1, <2>2 DEF AuditTypes, AuditEvents
  <2>6. JobsAreApart => JobsAreApart'
    BY <2>1, <2>2 DEF JobsAreApart
  <2>7. AllAccounted => AllAccounted'
    <3> SUFFICES ASSUME AllAccounted, NEW e \in stored' PROVE AccountedFor(e)'
      BY DEF AllAccounted
    <3>1. CASE e \in saved
      BY <2>2, <2>5, <3>1 DEF AccountedFor
    <3>2. CASE e \notin saved
      BY <2>1, <2>2, <3>2 DEF AllAccounted, AccountedFor
    <3> QED BY <3>1, <3>2
  <2> QED BY <2>2, <2>3, <2>4, <2>6, <2>7 DEF AuditInv
<1>2. CASE AgeEvent \/ ExpireEvent
  <2>1. /\ aged' \in aged..emitted /\ expired' \in 0..aged' /\ UNCHANGED <<emitted, hot, archiveRows, stored, purged, archiver, entangled>>
    BY <1>0, <1>2 DEF AgeEvent, ExpireEvent, AuditTypes
  <2>2. AuditTypes'
    BY <1>0, <2>1 DEF AuditTypes, AuditEvents
  <2> QED BY <1>0, <2>1, <2>2 DEF AuditInv, CopiedIsArchived, NothingIsLost, JobsAreApart, AllAccounted, AccountedFor
<1>3. ASSUME NEW r \in Archivers, ReadOldEvents(r) PROVE AuditInv'
  <2>1. /\ archiver[r].pc = "idle" /\ archiver' = [archiver EXCEPT ![r] = [pc |-> "read", ids |-> Batch]]
        /\ entangled' = (entangled \/ \E q \in Archivers : archiver[q].ids \cap Batch # {})
        /\ UNCHANGED <<emitted, hot, archiveRows, stored, aged, expired, purged>>
    BY <1>3 DEF ReadOldEvents
  <2>2. Batch \in SUBSET (1..aged) /\ Batch \subseteq hot
    BY DEF Batch, OldEvents
  <2>3. /\ archiver' \in [Archivers -> [pc: {"idle", "read", "copied"}, ids: SUBSET AuditEvents]]
        /\ archiver'[r].pc = "read" /\ archiver'[r].ids = Batch
        /\ \A q \in Archivers : q # r => archiver'[q] = archiver[q]
        /\ \A q \in Archivers : archiver'[q].ids \subseteq 1..aged
    BY <1>0, <2>1, <2>2, OneArchiverMoves
  <2>4. AuditTypes'
    BY <1>0, <2>1, <2>3 DEF AuditTypes
  <2>5. CopiedIsArchived' /\ NothingIsLost'
    BY <1>0, <2>1, <2>3 DEF CopiedIsArchived, NothingIsLost
  <2>6. CASE ~ entangled /\ \A q \in Archivers : archiver[q].ids \cap Batch = {}
    <3>1. JobsAreApart /\ AllAccounted /\ ~ entangled
      BY <2>6 DEF AuditInv
    <3>2. \A e \in Batch : e \in stored /\ e \in AuditEvents /\ e \in hot
      BY <1>0, <2>2 DEF AuditTypes, AuditEvents
    <3>3. \A e \in Batch : archiveRows[e] = 0
      <4> SUFFICES ASSUME NEW e \in Batch PROVE archiveRows[e] = 0
        OBVIOUS
      <4>1. archiveRows[e] \in Nat /\ archiveRows[e] <= 1
        BY <1>0, <3>1, <3>2 DEF AllAccounted, AccountedFor, AuditTypes
      <4>2. archiveRows[e] # 1
        BY <2>6, <3>1, <3>2 DEF AllAccounted, AccountedFor
      <4> QED BY <4>1, <4>2
    <3>4. JobsAreApart'
      BY <2>1, <2>3, <2>6, <3>1, <3>2, <3>3 DEF JobsAreApart
    <3>5. AllAccounted'
      <4> SUFFICES ASSUME NEW e \in stored PROVE AccountedFor(e)'
        BY <2>1 DEF AllAccounted
      <4>1. archiveRows[e] <= 1
        BY <3>1 DEF AllAccounted, AccountedFor
      <4>2. ASSUME archiveRows[e] = 1, e \in hot PROVE \E q \in Archivers : archiver'[q].pc = "copied" /\ e \in archiver'[q].ids
        <5>1. PICK q \in Archivers : archiver[q].pc = "copied" /\ e \in archiver[q].ids
          BY <3>1, <4>2 DEF AllAccounted, AccountedFor
        <5> QED BY <2>1, <2>3, <5>1
      <4> QED BY <2>1, <4>1, <4>2 DEF AccountedFor
    <3> QED BY <2>4, <2>5, <3>4, <3>5 DEF AuditInv
  <2>7. CASE entangled \/ \E q \in Archivers : archiver[q].ids \cap Batch # {}
    BY <2>1, <2>4, <2>5, <2>7 DEF AuditInv
  <2> QED BY <2>6, <2>7
<1>4. ASSUME NEW r \in Archivers, CopyToArchive(r) PROVE AuditInv'
  <2>1. /\ archiver[r].pc = "read" /\ archiver' = [archiver EXCEPT ![r].pc = "copied"]
        /\ archiveRows' = [e \in AuditEvents |-> archiveRows[e] + (IF e \in archiver[r].ids THEN 1 ELSE 0)]
        /\ UNCHANGED <<emitted, hot, stored, aged, expired, purged, entangled>>
    BY <1>4 DEF CopyToArchive
  <2>2. archiver' = [archiver EXCEPT ![r] = [pc |-> "copied", ids |-> archiver[r].ids]] /\ archiver[r].ids \in SUBSET (1..aged)
    <3>1. archiver[r] \in [pc: {"idle", "read", "copied"}, ids: SUBSET AuditEvents] /\ archiver[r].ids \in SUBSET (1..aged)
      BY <1>0 DEF AuditTypes
    <3>2. [archiver[r] EXCEPT !.pc = "copied"] = [pc |-> "copied", ids |-> archiver[r].ids]
      BY <3>1
    <3> QED BY <2>1, <3>1, <3>2
  <2>3. /\ archiver' \in [Archivers -> [pc: {"idle", "read", "copied"}, ids: SUBSET AuditEvents]]
        /\ archiver'[r].pc = "copied" /\ archiver'[r].ids = archiver[r].ids
        /\ \A q \in Archivers : q # r => archiver'[q] = archiver[q]
        /\ \A q \in Archivers : archiver'[q].ids \subseteq 1..aged
    BY <1>0, <2>2, OneArchiverMoves
  <2>4. /\ archiveRows' \in [AuditEvents -> Nat]
        /\ \A e \in AuditEvents : archiveRows'[e] > 0 => archiveRows[e] > 0 \/ e \in archiver[r].ids
        /\ \A e \in AuditEvents : archiveRows[e] > 0 => archiveRows'[e] > 0
        /\ \A e \in archiver[r].ids : archiveRows'[e] > 0 /\ archiveRows'[e] = archiveRows[e] + 1
        /\ \A e \in AuditEvents : e \notin archiver[r].ids => archiveRows'[e] = archiveRows[e]
    BY <1>0, <2>1 DEF AuditTypes, AuditEvents
  <2>5. AuditTypes'
    BY <1>0, <2>1, <2>2, <2>3, <2>4 DEF AuditTypes
  <2>a. (\A q \in Archivers : archiver[q].ids \subseteq AuditEvents) /\ stored \subseteq AuditEvents
    BY <1>0 DEF AuditTypes, AuditEvents
  <2>6. CopiedIsArchived'
    <3> SUFFICES ASSUME NEW q \in Archivers, archiver'[q].pc = "copied", NEW e \in archiver'[q].ids
                 PROVE  archiveRows'[e] > 0 \/ e \in purged
      BY <2>1 DEF CopiedIsArchived
    <3> QED BY <1>0, <2>3, <2>4, <2>a DEF CopiedIsArchived
  <2>7. NothingIsLost'
    BY <1>0, <2>1, <2>4, <2>a DEF NothingIsLost
  <2>8. CASE ~ entangled
    <3>1. JobsAreApart /\ AllAccounted
      BY <2>8 DEF AuditInv
    <3>2. JobsAreApart'
      <4>1. \A q, p \in Archivers : q # p => archiver'[q].ids \cap archiver'[p].ids = {}
        BY <2>3, <3>1 DEF JobsAreApart
      <4>2. \A q \in Archivers : archiver'[q].pc = "idle" => archiver'[q].ids = {}
        BY <2>3, <3>1 DEF JobsAreApart
      <4>3. ASSUME NEW q \in Archivers, archiver'[q].pc = "read", NEW e \in archiver'[q].ids PROVE e \in hot /\ archiveRows'[e] = 0
        <5>1. q # r /\ archiver'[q] = archiver[q]
          BY <2>3, <4>3
        <5> QED BY <2>4, <2>a, <3>1, <4>3, <5>1 DEF JobsAreApart
      <4> QED BY <2>1, <4>1, <4>2, <4>3 DEF JobsAreApart
    <3>3. AllAccounted'
      <4> SUFFICES ASSUME NEW e \in stored PROVE AccountedFor(e)'
        BY <2>1 DEF AllAccounted
      <4>1. CASE e \in archiver[r].ids
        <5>1. archiveRows[e] = 0 /\ archiveRows'[e] = archiveRows[e] + 1
          BY <2>1, <2>4, <3>1, <4>1 DEF JobsAreApart
        <5>2. archiver'[r].pc = "copied" /\ e \in archiver'[r].ids
          BY <2>3, <4>1
        <5>3. archiveRows'[e] <= 1
          BY <5>1
        <5> QED BY <5>2, <5>3 DEF AccountedFor
      <4>2. CASE e \notin archiver[r].ids
        <5>1. archiveRows'[e] = archiveRows[e] /\ archiveRows[e] <= 1
          BY <2>4, <2>8, <2>a, <3>1, <4>2 DEF AllAccounted, AccountedFor
        <5>2. ASSUME archiveRows[e] = 1, e \in hot PROVE \E q \in Archivers : archiver'[q].pc = "copied" /\ e \in archiver'[q].ids
          <6>1. PICK q \in Archivers : archiver[q].pc = "copied" /\ e \in archiver[q].ids
            BY <2>8, <3>1, <5>2 DEF AllAccounted, AccountedFor
          <6> QED BY <2>3, <6>1
        <5>3. archiveRows'[e] <= 1 /\ (archiveRows'[e] = 1 => archiveRows[e] = 1)
          BY <5>1
        <5> QED BY <2>1, <5>2, <5>3 DEF AccountedFor
      <4> QED BY <4>1, <4>2
    <3> QED BY <2>5, <2>6, <2>7, <3>2, <3>3 DEF AuditInv
  <2> QED BY <2>1, <2>5, <2>6, <2>7, <2>8 DEF AuditInv
<1>5. ASSUME NEW r \in Archivers, DeleteArchived(r) PROVE AuditInv'
  <2>1. /\ archiver[r].pc = "copied" /\ archiver' = [archiver EXCEPT ![r] = [pc |-> "idle", ids |-> {}]]
        /\ hot' = hot \ archiver[r].ids
        /\ UNCHANGED <<emitted, archiveRows, stored, aged, expired, purged, entangled>>
    BY <1>5 DEF DeleteArchived, Deleted, IdleArchiver
  <2>2. /\ archiver' \in [Archivers -> [pc: {"idle", "read", "copied"}, ids: SUBSET AuditEvents]]
        /\ archiver'[r].pc = "idle" /\ archiver'[r].ids = {}
        /\ \A q \in Archivers : q # r => archiver'[q] = archiver[q]
        /\ \A q \in Archivers : archiver'[q].ids \subseteq 1..aged
    <3>1. {} \in SUBSET (1..aged) /\ "idle" \in {"idle", "read", "copied"}
      OBVIOUS
    <3> QED BY <1>0, <2>1, <3>1, OneArchiverMoves
  <2>3. AuditTypes' /\ CopiedIsArchived' /\ NothingIsLost'
    BY <1>0, <2>1, <2>2 DEF AuditTypes, CopiedIsArchived, NothingIsLost
  <2>4. CASE ~ entangled
    <3>1. JobsAreApart /\ AllAccounted
      BY <2>4 DEF AuditInv
    <3>2. JobsAreApart'
      BY <2>1, <2>2, <3>1 DEF JobsAreApart
    <3>3. AllAccounted'
      <4> SUFFICES ASSUME NEW e \in stored PROVE AccountedFor(e)'
        BY <2>1 DEF AllAccounted
      <4>1. ASSUME archiveRows[e] = 1, e \in hot' PROVE \E q \in Archivers : archiver'[q].pc = "copied" /\ e \in archiver'[q].ids
        <5>1. PICK q \in Archivers : archiver[q].pc = "copied" /\ e \in archiver[q].ids
          BY <2>1, <2>4, <3>1, <4>1 DEF AllAccounted, AccountedFor
        <5> QED BY <2>1, <2>2, <4>1, <5>1
      <4>2. archiveRows[e] <= 1
        BY <3>1 DEF AllAccounted, AccountedFor
      <4> QED BY <2>1, <4>1, <4>2 DEF AccountedFor
    <3> QED BY <2>3, <3>2, <3>3 DEF AuditInv
  <2> QED BY <2>1, <2>3, <2>4 DEF AuditInv
<1>6. CASE PurgeArchives
  <2>1. /\ archiveRows' = [e \in AuditEvents |-> IF e <= expired THEN 0 ELSE archiveRows[e]]
        /\ purged' = purged \cup {e \in 1..expired : archiveRows[e] > 0}
        /\ UNCHANGED <<emitted, hot, stored, aged, expired, archiver, entangled>>
    BY <1>6 DEF PurgeArchives
  <2>2. /\ archiveRows' \in [AuditEvents -> Nat]
        /\ \A e \in AuditEvents : archiveRows'[e] \in {0, archiveRows[e]}
        /\ \A e \in AuditEvents : archiveRows[e] > 0 => archiveRows'[e] > 0 \/ e \in purged'
    BY <1>0, <2>1 DEF AuditTypes, AuditEvents
  <2>3. (\A q \in Archivers : archiver[q].ids \subseteq AuditEvents) /\ stored \subseteq AuditEvents
    BY <1>0 DEF AuditTypes, AuditEvents
  <2>4. AuditTypes'
    BY <1>0, <2>1, <2>2 DEF AuditTypes
  <2>5. CopiedIsArchived' /\ NothingIsLost'
    <3>1. purged \subseteq purged'
      BY <2>1
    <3>2. CopiedIsArchived'
      BY <1>0, <2>1, <2>2, <2>3, <3>1 DEF CopiedIsArchived
    <3>3. ASSUME NEW e \in stored PROVE e \in hot \/ archiveRows'[e] > 0 \/ e \in purged'
      <4>1. e \in AuditEvents /\ (e \in hot \/ archiveRows[e] > 0 \/ e \in purged)
        BY <1>0, <2>3 DEF NothingIsLost
      <4> QED BY <2>2, <3>1, <4>1
    <3> QED BY <2>1, <3>2, <3>3 DEF NothingIsLost
  <2>6. JobsAreApart => JobsAreApart'
    BY <2>1, <2>2, <2>3 DEF JobsAreApart
  <2>7. AllAccounted => AllAccounted'
    <3> SUFFICES ASSUME AllAccounted, NEW e \in stored PROVE AccountedFor(e)'
      BY <2>1 DEF AllAccounted
    <3>1. archiveRows'[e] <= 1 /\ (archiveRows'[e] = 1 => archiveRows[e] = 1)
      BY <2>2, <2>3 DEF AllAccounted, AccountedFor
    <3>2. archiveRows[e] = 1 /\ e \in hot => \E r \in Archivers : archiver[r].pc = "copied" /\ e \in archiver[r].ids
      BY DEF AllAccounted, AccountedFor
    <3> QED BY <2>1, <3>1, <3>2 DEF AccountedFor
  <2> QED BY <2>1, <2>4, <2>5, <2>6, <2>7 DEF AuditInv
<1>7. ASSUME NEW r \in Archivers, CrashOfArchiver(r) PROVE AuditInv'
  <2>1. /\ archiver' = [archiver EXCEPT ![r] = [pc |-> "idle", ids |-> {}]]
        /\ entangled' = (entangled \/ archiver[r].pc = "copied")
        /\ UNCHANGED <<emitted, hot, archiveRows, stored, aged, expired, purged>>
    BY <1>7 DEF CrashOfArchiver, IdleArchiver
  <2>2. /\ archiver' \in [Archivers -> [pc: {"idle", "read", "copied"}, ids: SUBSET AuditEvents]]
        /\ archiver'[r].pc = "idle" /\ archiver'[r].ids = {}
        /\ \A q \in Archivers : q # r => archiver'[q] = archiver[q]
        /\ \A q \in Archivers : archiver'[q].ids \subseteq 1..aged
    <3>1. {} \in SUBSET (1..aged) /\ "idle" \in {"idle", "read", "copied"}
      OBVIOUS
    <3> QED BY <1>0, <2>1, <3>1, OneArchiverMoves
  <2>3. AuditTypes' /\ CopiedIsArchived' /\ NothingIsLost'
    BY <1>0, <2>1, <2>2 DEF AuditTypes, CopiedIsArchived, NothingIsLost
  <2>4. CASE ~ entangled /\ archiver[r].pc # "copied"
    <3>1. JobsAreApart /\ AllAccounted
      BY <2>4 DEF AuditInv
    <3>2. JobsAreApart'
      BY <2>1, <2>2, <3>1 DEF JobsAreApart
    <3>3. AllAccounted'
      <4> SUFFICES ASSUME NEW e \in stored PROVE AccountedFor(e)'
        BY <2>1 DEF AllAccounted
      <4>1. ASSUME archiveRows[e] = 1, e \in hot PROVE \E q \in Archivers : archiver'[q].pc = "copied" /\ e \in archiver'[q].ids
        <5>1. PICK q \in Archivers : archiver[q].pc = "copied" /\ e \in archiver[q].ids
          BY <2>4, <3>1, <4>1 DEF AllAccounted, AccountedFor
        <5> QED BY <2>2, <2>4, <5>1
      <4>2. archiveRows[e] <= 1
        BY <3>1 DEF AllAccounted, AccountedFor
      <4> QED BY <2>1, <4>1, <4>2 DEF AccountedFor
    <3> QED BY <2>3, <3>2, <3>3 DEF AuditInv
  <2> QED BY <2>1, <2>3, <2>4 DEF AuditInv
<1>8. CASE UNCHANGED auditVars
  <2>1. UNCHANGED <<emitted, hot, archiveRows, stored, aged, expired, purged, archiver, entangled>>
    BY <1>8 DEF auditVars
  <2> QED BY <2>1 DEF AuditInv, AuditTypes, CopiedIsArchived, NothingIsLost, JobsAreApart, AllAccounted, AccountedFor
<1> QED BY <1>1, <1>2, <1>3, <1>4, <1>5, <1>6, <1>7, <1>8 DEF AuditTrailNext

\* For any number of archivers, events and crashes: no stored event is lost, and none
\* is archived twice unless a job met another's or a crashed one's batch
\* (siem-export.service.ts).
THEOREM ArchiveLosesNothing == AuditTrailSpec => [](NothingIsLost /\ ArchivedOnce)
<1>1. AuditInv => NothingIsLost /\ ArchivedOnce
  BY AccountedMeansOnce DEF AuditInv
<1> QED BY <1>1, AuditInitInv, AuditNextInv, PTL DEF AuditTrailSpec

-----------------------------------------------------------------------------
\* The reports of a day.
\* The types the proof needs.
ReportTypes ==
  /\ slot \in Nat /\ ticked \subseteq ReportReplicas
  /\ execution \in [Executions -> [status: ExecutionStatuses \cup {"none"}, source: {"manual", "scheduled", "analytics"},
                                   day: Nat, on: ReportReplicas \cup {NoReplica}]]

\* A day has its report, or a reason for having none.
DayIsCovered(date) == ScheduledOn(date) # {} \/ date \in excused

\* In the slot in which the definition is due, every replica that has ticked stored one
\* execution, and the day is covered as soon as one has; in the other slots it is.
ReportsInv ==
  /\ ReportTypes
  /\ \A e \in Executions : execution[e].status # "none" => execution[e].day <= Day
  /\ \A date \in Nat : Cardinality(ScheduledOn(date)) <= Cardinality(ReportReplicas)
  /\ slot % SlotsPerDay = 0 => Cardinality(ScheduledOn(Day)) <= Cardinality(ticked)
  /\ slot % SlotsPerDay = 0 /\ ticked # {} => DayIsCovered(Day) \/ ~definition.active \/ definition.schedule # "daily"
  /\ slot % SlotsPerDay # 0 => DayIsCovered(Day)
  /\ \A date \in Nat : date < Day => DayIsCovered(date)

\* A slot is the last of its day, or the next one is of the same day.
LEMMA DayAdvances ==
  ASSUME NEW s \in Nat, NEW length \in Nat \ {0}
  PROVE  /\ s \div length \in Nat /\ s % length \in 0..(length - 1)
         /\ (s + 1) % length = 0 => (s + 1) \div length = (s \div length) + 1
         /\ (s + 1) % length # 0 => (s + 1) \div length = s \div length
<1> DEFINE q == s \div length
           r == s % length
           p == (s + 1) \div length
           t == (s + 1) % length
<1>1. q \in Int /\ p \in Int /\ r \in 0..(length - 1) /\ t \in 0..(length - 1)
  OBVIOUS
<1>2. s = length * q + r /\ s + 1 = length * p + t
  OBVIOUS
<1>3. q >= 0
  OBVIOUS
<1>4. (t = 0 => p = q + 1) /\ (t # 0 => p = q)
  OBVIOUS
<1> QED BY <1>1, <1>2, <1>3, <1>4

\* Days are numbers.
LEMMA DayIsNat == ReportTypes => Day \in Nat /\ slot % SlotsPerDay \in Nat
BY DayAdvances, ReportRunsAssumption DEF ReportTypes, Day

\* It implies the properties.
LEMMA ReportsInvIsEnough == ReportsInv => OncePerReplica /\ NoDayIsMissed
<1> SUFFICES ASSUME ReportsInv PROVE OncePerReplica /\ NoDayIsMissed
  OBVIOUS
<1>1. Day \in Nat
  BY DayIsNat DEF ReportsInv
<1> QED BY <1>1 DEF ReportsInv, OncePerReplica, NoDayIsMissed, DayIsCovered

\* The executions of a day can be counted,
LEMMA ExecutionsAreFinite == \A date : IsFiniteSet(ScheduledOn(date)) /\ Cardinality(ScheduledOn(date)) \in Nat
<1> SUFFICES ASSUME NEW date PROVE IsFiniteSet(ScheduledOn(date)) /\ Cardinality(ScheduledOn(date)) \in Nat
  OBVIOUS
<1>1. IsFiniteSet(Executions)
  BY FS_Interval, ReportRunsAssumption DEF Executions
<1>2. ScheduledOn(date) \subseteq Executions
  BY DEF ScheduledOn
<1> QED BY <1>1, <1>2, FS_Subset, FS_CardinalityType

\* and so can the replicas that have ticked.
LEMMA ReplicasAreFinite ==
  ASSUME NEW some \in SUBSET ReportReplicas
  PROVE  IsFiniteSet(some) /\ Cardinality(some) \in Nat /\ Cardinality(some) <= Cardinality(ReportReplicas) /\ Cardinality(ReportReplicas) \in Nat
BY FS_Subset, FS_CardinalityType, ReportRunsAssumption

\* It holds at the start.
LEMMA ReportsInitInv == ReportRunsInit => ReportsInv
<1> SUFFICES ASSUME ReportRunsInit PROVE ReportsInv
  OBVIOUS
<1>1. ReportTypes
  BY DEF ReportRunsInit, ReportTypes, NoExecution, ExecutionStatuses
<1>2. \A date : ScheduledOn(date) = {}
  BY DEF ReportRunsInit, ScheduledOn, NoExecution
<1>3. Day = 0 /\ slot % SlotsPerDay = 0
  BY ReportRunsAssumption DEF ReportRunsInit, Day
<1>4. Cardinality({}) = 0 /\ ticked = {}
  BY FS_EmptySet DEF ReportRunsInit
<1>5. Cardinality(ReportReplicas) \in Nat
  BY ReplicasAreFinite
<1>6. \A e \in Executions : execution[e].status = "none"
  BY DEF ReportRunsInit, NoExecution
<1>7. \A date \in Nat : Cardinality(ScheduledOn(date)) <= Cardinality(ReportReplicas)
  BY <1>2, <1>4, <1>5
<1> QED BY <1>1, <1>2, <1>3, <1>4, <1>6, <1>7 DEF ReportsInv

\* triggerReport takes a row nobody uses.
LEMMA StoredTakesAFreeRow ==
  ASSUME ReportTypes, FreeExecutions # {}, NEW r \in ReportReplicas, NEW source \in {"manual", "scheduled", "analytics"},
         execution' = Stored(r, source)
  PROVE  \E e \in Executions :
           /\ execution[e].status = "none"
           /\ execution' \in [Executions -> [status: ExecutionStatuses \cup {"none"}, source: {"manual", "scheduled", "analytics"},
                                            day: Nat, on: ReportReplicas \cup {NoReplica}]]
           /\ execution'[e].status # "none" /\ execution'[e].source = source /\ execution'[e].day = Day /\ execution'[e].on = r
           /\ \A f \in Executions : f # e => execution'[f] = execution[f]
<1> DEFINE e == CHOOSE e \in FreeExecutions : \A f \in FreeExecutions : e <= f
           status == IF source = "analytics" THEN "running" ELSE "pending"
           row == [status |-> status, source |-> source, day |-> Day, on |-> r]
<1>1. \E x \in FreeExecutions : \A f \in FreeExecutions : x <= f
  <2>1. FreeExecutions \in SUBSET Nat
    BY ReportRunsAssumption DEF FreeExecutions, Executions
  <2> QED BY <2>1, MinOfNat
<1>2. e \in FreeExecutions
  BY <1>1
<1>3. execution' = [execution EXCEPT ![e] = row]
  BY DEF Stored
<1>4. status \in ExecutionStatuses /\ status # "none"
  BY DEF ExecutionStatuses
<1> HIDE DEF e, status
<1>5. row \in [status: ExecutionStatuses \cup {"none"}, source: {"manual", "scheduled", "analytics"},
               day: Nat, on: ReportReplicas \cup {NoReplica}] /\ row.status # "none" /\ row.source = source /\ row.day = Day /\ row.on = r
  BY <1>4, DayIsNat
<1> HIDE DEF row
<1>6. e \in Executions /\ execution[e].status = "none"
  BY <1>2 DEF FreeExecutions
<1> QED BY <1>3, <1>5, <1>6 DEF ReportTypes

\* The rows of other days and of other sources leave the reports of a day alone.
LEMMA ScheduledGrows ==
  ASSUME ReportTypes, NEW e \in Executions, execution[e].status = "none",
         execution'[e].status # "none",
         \A f \in Executions : f # e => execution'[f] = execution[f]
  PROVE  \A date : ScheduledOn(date)' = IF execution'[e].source = "scheduled" /\ execution'[e].day = date
                                          THEN ScheduledOn(date) \cup {e} ELSE ScheduledOn(date)
BY DEF ScheduledOn

\* A step that leaves slot, ticks and days of the reports alone keeps the invariant.
LEMMA ReportsStay ==
  ASSUME ReportsInv, ReportTypes', slot' = slot, ticked' = ticked, excused \subseteq excused',
         definition' = definition \/ Day \in excused',
         \A date : ScheduledOn(date)' = ScheduledOn(date),
         \A e \in Executions : execution'[e].status # "none" => execution'[e].day <= Day
  PROVE  ReportsInv'
<1>1. Day' = Day
  BY DEF Day
<1>2. \A date : DayIsCovered(date) => DayIsCovered(date)'
  BY DEF DayIsCovered
<1>3. \A date \in Nat : Cardinality(ScheduledOn(date)') <= Cardinality(ReportReplicas)
  BY DEF ReportsInv
<1>4. slot' % SlotsPerDay = 0 => Cardinality(ScheduledOn(Day)') <= Cardinality(ticked')
  <2>1. ScheduledOn(Day)' = ScheduledOn(Day)
    BY <1>1 DEF ScheduledOn
  <2> QED BY <2>1 DEF ReportsInv
<1>5. slot' % SlotsPerDay = 0 /\ ticked' # {} => DayIsCovered(Day)' \/ ~definition'.active \/ definition'.schedule # "daily"
  BY <1>1, <1>2 DEF ReportsInv, DayIsCovered
<1>6. slot' % SlotsPerDay # 0 => DayIsCovered(Day)'
  BY <1>1, <1>2 DEF ReportsInv
<1>7. \A date \in Nat : date < Day' => DayIsCovered(date)'
  BY <1>1, <1>2 DEF ReportsInv
<1> QED BY <1>1, <1>3, <1>4, <1>5, <1>6, <1>7 DEF ReportsInv

\* Every step of the specification keeps the inductive invariant.
LEMMA ReportsNextInv == ReportsInv /\ [ReportRunsNext]_reportVars => ReportsInv'
<1> SUFFICES ASSUME ReportsInv, [ReportRunsNext]_reportVars PROVE ReportsInv'
  OBVIOUS
<1>0. ReportTypes /\ Day \in Nat /\ slot % SlotsPerDay \in Nat
  BY DayIsNat DEF ReportsInv
<1> DEFINE Rows == [status: ExecutionStatuses \cup {"none"}, source: {"manual", "scheduled", "analytics"},
                    day: Nat, on: ReportReplicas \cup {NoReplica}]
<1>1. ASSUME NEW r \in ReportReplicas, NEW source \in {"manual", "analytics"}, TriggerReport(r, source) PROVE ReportsInv'
  <2>1. /\ FreeExecutions # {} /\ execution' = Stored(r, source)
        /\ UNCHANGED <<definition, slot, ticked, excused>>
    BY <1>1 DEF TriggerReport
  <2>2. source \in {"manual", "scheduled", "analytics"} /\ source # "scheduled"
    OBVIOUS
  <2>3. PICK e \in Executions :
           /\ execution[e].status = "none"
           /\ execution' \in [Executions -> Rows]
           /\ execution'[e].status # "none" /\ execution'[e].source = source /\ execution'[e].day = Day
           /\ \A f \in Executions : f # e => execution'[f] = execution[f]
    BY <1>0, <2>1, <2>2, StoredTakesAFreeRow
  <2>4. \A date : ScheduledOn(date)' = ScheduledOn(date)
    BY <1>0, <2>2, <2>3, ScheduledGrows
  <2>5. ReportTypes'
    BY <1>0, <2>1, <2>3 DEF ReportTypes
  <2>6. \A f \in Executions : execution'[f].status # "none" => execution'[f].day <= Day
    BY <1>0, <2>3 DEF ReportsInv
  <2> QED BY <2>1, <2>4, <2>5, <2>6, ReportsStay
<1>2. ASSUME NEW r \in ReportReplicas, RunScheduledReports(r) PROVE ReportsInv'
  <2>1. /\ r \notin ticked /\ ticked' = ticked \cup {r}
        /\ UNCHANGED <<definition, slot, excused>>
    BY <1>2 DEF RunScheduledReports
  <2>2. /\ Day' = Day
        /\ Cardinality(ticked') = Cardinality(ticked) + 1 /\ Cardinality(ticked) \in Nat
        /\ Cardinality(ticked') <= Cardinality(ReportReplicas) /\ ticked' \subseteq ReportReplicas /\ Cardinality(ReportReplicas) \in Nat
    <3>1. ticked \in SUBSET ReportReplicas /\ ticked' \in SUBSET ReportReplicas
      BY <1>0, <2>1 DEF ReportTypes
    <3> QED BY <2>1, <3>1, ReplicasAreFinite, FS_AddElement DEF Day
  <2>3. CASE definition.active /\ CronDue(definition.schedule)
    <3>1. FreeExecutions # {} /\ execution' = Stored(r, "scheduled") /\ definition.schedule = "daily" /\ slot % SlotsPerDay = 0
      BY <1>2, <2>3 DEF RunScheduledReports, CronDue
    <3>2. PICK e \in Executions :
             /\ execution[e].status = "none"
             /\ execution' \in [Executions -> Rows]
             /\ execution'[e].status # "none" /\ execution'[e].source = "scheduled" /\ execution'[e].day = Day
             /\ \A f \in Executions : f # e => execution'[f] = execution[f]
      BY <1>0, <3>1, StoredTakesAFreeRow
    <3>3. \A date : ScheduledOn(date)' = IF date = Day THEN ScheduledOn(date) \cup {e} ELSE ScheduledOn(date)
      <4>1. \A date : ScheduledOn(date)' = IF execution'[e].source = "scheduled" /\ execution'[e].day = date
                                          THEN ScheduledOn(date) \cup {e} ELSE ScheduledOn(date)
        BY <1>0, <3>2, ScheduledGrows
      <4> QED BY <3>2, <4>1
    <3>4. e \notin ScheduledOn(Day)
      BY <3>2 DEF ScheduledOn
    <3>5. /\ Cardinality(ScheduledOn(Day) \cup {e}) = Cardinality(ScheduledOn(Day)) + 1
          /\ Cardinality(ScheduledOn(Day)) \in Nat /\ Cardinality(ScheduledOn(Day)) <= Cardinality(ticked)
      BY <3>1, <3>4, ExecutionsAreFinite, FS_AddElement DEF ReportsInv
    <3>6. ReportTypes'
      BY <1>0, <2>1, <2>2, <3>2 DEF ReportTypes
    <3>7. \A f \in Executions : execution'[f].status # "none" => execution'[f].day <= Day'
      BY <1>0, <2>2, <3>2 DEF ReportsInv
    <3>8. Cardinality(ScheduledOn(Day) \cup {e}) <= Cardinality(ticked') /\ Cardinality(ScheduledOn(Day) \cup {e}) <= Cardinality(ReportReplicas)
      BY <2>2, <3>5
    <3>9. \A date \in Nat : Cardinality(ScheduledOn(date)') <= Cardinality(ReportReplicas)
      BY <3>3, <3>8 DEF ReportsInv
    <3>10. (ScheduledOn(Day))' = ScheduledOn(Day) \cup {e}
      <4>1. \A date : date = Day => ScheduledOn(date)' = ScheduledOn(Day) \cup {e}
        BY <3>3
      <4> QED BY <2>2, <4>1 DEF ScheduledOn
    <3>11. \A date \in Nat : DayIsCovered(date) => DayIsCovered(date)'
      BY <2>1, <3>3 DEF DayIsCovered
    <3>12. DayIsCovered(Day)'
      BY <3>10 DEF DayIsCovered
    <3>13. \A date \in Nat : date < Day' => DayIsCovered(date)'
      BY <2>2, <3>11 DEF ReportsInv
    <3>14. (Cardinality(ScheduledOn(Day)) <= Cardinality(ticked))'
      BY <3>8, <3>10
    <3> QED BY <3>6, <3>7, <3>9, <3>12, <3>13, <3>14 DEF ReportsInv
  <2>4. CASE ~ (definition.active /\ CronDue(definition.schedule))
    <3>1. execution' = execution
      BY <1>2, <2>4 DEF RunScheduledReports
    <3>2. /\ \A date : ScheduledOn(date)' = ScheduledOn(date)
          /\ (ScheduledOn(Day))' = ScheduledOn(Day)
      BY <2>2, <3>1 DEF ScheduledOn
    <3>3. \A date : DayIsCovered(date)' = DayIsCovered(date)
      BY <2>1, <3>2 DEF DayIsCovered
    <3>4. DayIsCovered(Day)' <=> DayIsCovered(Day)
      BY <2>1, <2>2, <3>2 DEF DayIsCovered
    <3>5. ReportTypes'
      BY <1>0, <2>1, <2>2, <3>1 DEF ReportTypes
    <3>6. slot % SlotsPerDay = 0 => ~definition.active \/ definition.schedule # "daily"
      BY <2>4 DEF CronDue
    <3>7. slot % SlotsPerDay = 0 => Cardinality(ScheduledOn(Day)) <= Cardinality(ticked')
      <4>1. Cardinality(ScheduledOn(Day)) \in Nat
        BY ExecutionsAreFinite
      <4> QED BY <2>2, <4>1 DEF ReportsInv
    <3>8. slot' % SlotsPerDay = 0 => (Cardinality(ScheduledOn(Day)) <= Cardinality(ticked))'
      BY <2>1, <3>2, <3>7
    <3>9. \A date \in Nat : Cardinality(ScheduledOn(date)') <= Cardinality(ReportReplicas)
      BY <3>2 DEF ReportsInv
    <3>10. \A date \in Nat : date < Day' => DayIsCovered(date)'
      BY <2>2, <3>3 DEF ReportsInv
    <3>11. slot' % SlotsPerDay # 0 => DayIsCovered(Day)'
      BY <2>1, <3>4 DEF ReportsInv
    <3>12. slot' % SlotsPerDay = 0 => ~definition'.active \/ definition'.schedule # "daily"
      BY <2>1, <3>6
    <3>13. \A f \in Executions : execution'[f].status # "none" => execution'[f].day <= Day'
      BY <2>2, <3>1 DEF ReportsInv
    <3> QED BY <3>5, <3>8, <3>9, <3>10, <3>11, <3>12, <3>13 DEF ReportsInv
  <2> QED BY <2>3, <2>4
<1>3. ASSUME NEW schedule \in Schedules, NEW active \in BOOLEAN, SetDefinition(schedule, active) PROVE ReportsInv'
  <2>1. /\ excused' = excused \cup {Day} /\ UNCHANGED <<execution, slot, ticked>>
    BY <1>3 DEF SetDefinition
  <2>2. ReportTypes' /\ \A date : ScheduledOn(date)' = ScheduledOn(date)
    BY <1>0, <2>1 DEF ReportTypes, ScheduledOn
  <2>3. \A f \in Executions : execution'[f].status # "none" => execution'[f].day <= Day
    BY <2>1 DEF ReportsInv
  <2> QED BY <2>1, <2>2, <2>3, ReportsStay
<1>4. CASE NextSlot
  <2>1. /\ slot' = slot + 1 /\ ticked' = {} /\ UNCHANGED <<definition, execution>>
        /\ excused \subseteq excused'
        /\ ticked # ReportReplicas \/ ~definition.active \/ definition.schedule # "daily" => Day \in excused'
    BY <1>4 DEF NextSlot
  <2>2. /\ slot' % SlotsPerDay = 0 => Day' = Day + 1
        /\ slot' % SlotsPerDay # 0 => Day' = Day
        /\ slot' \in Nat
    <3>1. slot \in Nat /\ SlotsPerDay \in Nat \ {0}
      BY <1>0, ReportRunsAssumption DEF ReportTypes
    <3>2. /\ (slot + 1) % SlotsPerDay = 0 => (slot + 1) \div SlotsPerDay = (slot \div SlotsPerDay) + 1
          /\ (slot + 1) % SlotsPerDay # 0 => (slot + 1) \div SlotsPerDay = slot \div SlotsPerDay
      BY <3>1, DayAdvances
    <3> QED BY <2>1, <3>1, <3>2 DEF Day
  <2>3. ReportTypes'
    BY <1>0, <2>1, <2>2 DEF ReportTypes
  <2>4. \A date : ScheduledOn(date)' = ScheduledOn(date)
    BY <2>1 DEF ScheduledOn
  <2>5. \A date \in Nat : DayIsCovered(date) => DayIsCovered(date)'
    BY <2>1, <2>4 DEF DayIsCovered
  <2>6. \A date \in Nat : date = Day => DayIsCovered(date)'
    <3>1. CASE slot % SlotsPerDay # 0
      BY <1>0, <2>5, <3>1 DEF ReportsInv
    <3>2. CASE slot % SlotsPerDay = 0 /\ ticked = ReportReplicas /\ definition.active /\ definition.schedule = "daily"
      <4>1. DayIsCovered(Day)
        BY <3>2, ReportRunsAssumption DEF ReportsInv
      <4> QED BY <1>0, <2>5, <4>1
    <3>3. CASE ticked # ReportReplicas \/ ~definition.active \/ definition.schedule # "daily"
      BY <2>1, <3>3 DEF DayIsCovered
    <3> QED BY <3>1, <3>2, <3>3
  <2>7. \A f \in Executions : execution'[f].status # "none" => execution'[f].day <= Day'
    <3> SUFFICES ASSUME NEW f \in Executions, execution[f].status # "none" PROVE execution[f].day <= Day'
      BY <2>1
    <3>1. execution[f].day \in Nat /\ execution[f].day <= Day
      BY <1>0 DEF ReportsInv, ReportTypes
    <3> QED BY <1>0, <2>2, <3>1
  <2>8. \A date \in Nat : Cardinality(ScheduledOn(date)') <= Cardinality(ReportReplicas)
    BY <2>4 DEF ReportsInv
  <2>9. slot' % SlotsPerDay = 0 => (Cardinality(ScheduledOn(Day)) <= Cardinality(ticked))'
    <3> SUFFICES ASSUME slot' % SlotsPerDay = 0 PROVE (Cardinality(ScheduledOn(Day)) <= Cardinality(ticked))'
      OBVIOUS
    <3>1. Day' = Day + 1
      BY <2>2
    <3>2. \A f \in Executions : execution'[f].status # "none" => execution'[f].day # Day'
      <4> SUFFICES ASSUME NEW f \in Executions, execution[f].status # "none" PROVE execution[f].day # Day + 1
        BY <2>1, <3>1
      <4>1. execution[f].day \in Nat /\ execution[f].day <= Day
        BY <1>0 DEF ReportsInv, ReportTypes
      <4> QED BY <1>0, <4>1
    <3>3. (ScheduledOn(Day))' = {}
      BY <3>2 DEF ScheduledOn
    <3> QED BY <2>1, <3>3, FS_EmptySet
  <2>10. slot' % SlotsPerDay # 0 => DayIsCovered(Day)'
    <3> SUFFICES ASSUME slot' % SlotsPerDay # 0 PROVE DayIsCovered(Day)'
      OBVIOUS
    <3>1. Day' = Day
      BY <2>2
    <3>2. \A date : date = Day' => DayIsCovered(date)'
      BY <1>0, <2>6, <3>1
    <3> QED BY <3>2 DEF DayIsCovered, ScheduledOn
  <2>11. \A date \in Nat : date < Day' => DayIsCovered(date)'
    <3> SUFFICES ASSUME NEW date \in Nat, date < Day' PROVE DayIsCovered(date)'
      OBVIOUS
    <3>1. CASE date = Day
      BY <2>6, <3>1
    <3>2. CASE date # Day
      <4>1. date < Day
        BY <1>0, <2>2, <2>3, <3>2, DayIsNat
      <4> QED BY <2>5, <4>1 DEF ReportsInv
    <3> QED BY <3>1, <3>2
  <2> QED BY <2>1, <2>3, <2>7, <2>8, <2>9, <2>10, <2>11 DEF ReportsInv
<1>5. ASSUME NEW e \in Executions, StartExecution(e) \/ FinishExecution(e) PROVE ReportsInv'
  <2>0. /\ execution[e].status \in {"pending", "running"}
        /\ \E status \in {"running", "complete", "failed"}, on \in ReportReplicas \cup {NoReplica} :
             execution' = [execution EXCEPT ![e] = [execution[e] EXCEPT !.status = status, !.on = on]]
        /\ UNCHANGED <<definition, slot, ticked, excused>>
    <3>1. execution[e] \in Rows /\ execution \in [Executions -> Rows]
      BY <1>0 DEF ReportTypes
    <3>2. CASE StartExecution(e)
      <4>1. execution' = [execution EXCEPT ![e] = [execution[e] EXCEPT !.status = "running", !.on = execution[e].on]]
        BY <3>1, <3>2 DEF StartExecution
      <4> QED BY <3>1, <3>2, <4>1 DEF StartExecution
    <3>3. CASE FinishExecution(e)
      <4>1. PICK outcome \in Outcomes : execution' = [execution EXCEPT ![e] = [execution[e] EXCEPT !.status = outcome, !.on = NoReplica]]
        BY <3>1, <3>3 DEF FinishExecution
      <4> QED BY <3>3, <4>1 DEF FinishExecution, Outcomes
    <3> QED BY <1>5, <3>2, <3>3
  <2>1. PICK status \in {"running", "complete", "failed"}, on \in ReportReplicas \cup {NoReplica} :
             execution' = [execution EXCEPT ![e] = [execution[e] EXCEPT !.status = status, !.on = on]]
    BY <2>0
  <2> DEFINE row == [execution[e] EXCEPT !.status = status, !.on = on]
  <2>2. row \in Rows /\ row.status # "none" /\ row.source = execution[e].source /\ row.day = execution[e].day
    BY <1>0, <2>1 DEF ReportTypes, ExecutionStatuses
  <2> HIDE DEF row
  <2>3. execution' \in [Executions -> Rows] /\ execution'[e] = row /\ \A f \in Executions : f # e => execution'[f] = execution[f]
    BY <1>0, <2>1, <2>2 DEF ReportTypes, row
  <2>4. ReportTypes'
    BY <1>0, <2>0, <2>3 DEF ReportTypes
  <2>5. \A f \in Executions : (execution'[f].status # "none" <=> execution[f].status # "none") /\ execution'[f].source = execution[f].source
                               /\ execution'[f].day = execution[f].day
    BY <2>0, <2>2, <2>3
  <2>6. \A date : ScheduledOn(date)' = ScheduledOn(date)
    BY <2>5 DEF ScheduledOn
  <2>7. \A f \in Executions : execution'[f].status # "none" => execution'[f].day <= Day
    BY <2>5 DEF ReportsInv
  <2> QED BY <2>0, <2>4, <2>6, <2>7, ReportsStay
<1>6. ASSUME NEW r \in ReportReplicas, CrashOfReports(r) PROVE ReportsInv'
  <2>1. /\ UNCHANGED <<definition, slot, ticked, excused>>
        /\ execution' = [e \in Executions |-> IF execution[e].on = r THEN [execution[e] EXCEPT !.on = NoReplica] ELSE execution[e]]
    BY <1>6 DEF CrashOfReports
  <2>2. \A f \in Executions : /\ execution'[f] \in Rows /\ execution'[f].status = execution[f].status
                               /\ execution'[f].source = execution[f].source /\ execution'[f].day = execution[f].day
    <3> SUFFICES ASSUME NEW f \in Executions
                 PROVE  /\ execution'[f] \in Rows /\ execution'[f].status = execution[f].status
                        /\ execution'[f].source = execution[f].source /\ execution'[f].day = execution[f].day
      OBVIOUS
    <3>1. execution[f] \in Rows
      BY <1>0 DEF ReportTypes
    <3> DEFINE row == [execution[f] EXCEPT !.on = NoReplica]
    <3>2. row \in Rows /\ row.status = execution[f].status /\ row.source = execution[f].source /\ row.day = execution[f].day
      BY <3>1
    <3>3. execution'[f] = row \/ execution'[f] = execution[f]
      BY <2>1
    <3> HIDE DEF row
    <3> QED BY <3>1, <3>2, <3>3
  <2>3. execution' \in [Executions -> Rows]
    BY <2>1, <2>2
  <2>4. ReportTypes'
    BY <1>0, <2>1, <2>3 DEF ReportTypes
  <2>6. \A date : ScheduledOn(date)' = ScheduledOn(date)
    BY <2>2 DEF ScheduledOn
  <2>7. \A f \in Executions : execution'[f].status # "none" => execution'[f].day <= Day
    BY <2>2 DEF ReportsInv
  <2> QED BY <2>1, <2>4, <2>6, <2>7, ReportsStay
<1>7. CASE UNCHANGED reportVars
  <2>1. UNCHANGED <<definition, execution, slot, ticked, excused>>
    BY <1>7 DEF reportVars
  <2>2. ReportTypes' /\ \A date : ScheduledOn(date)' = ScheduledOn(date)
    BY <1>0, <2>1 DEF ReportTypes, ScheduledOn
  <2>3. \A f \in Executions : execution'[f].status # "none" => execution'[f].day <= Day
    BY <2>1 DEF ReportsInv
  <2> QED BY <2>1, <2>2, <2>3, ReportsStay
<1> QED BY <1>1, <1>2, <1>3, <1>4, <1>5, <1>6, <1>7 DEF ReportRunsNext

\* For any number of replicas, slots and executions: a day's report is scheduled by
\* every replica at most once, and a day has one or a reason for having none
\* (reporting.service.ts).
THEOREM ReportsAreScheduled == ReportRunsSpec => [](OncePerReplica /\ NoDayIsMissed)
BY ReportsInvIsEnough, ReportsInitInv, ReportsNextInv, PTL DEF ReportRunsSpec

-----------------------------------------------------------------------------
\* The queue of the field application.
\* The types the proof needs; the ids that have been given bound the others.
QueueTypes ==
  /\ online \in BOOLEAN
  /\ request \in RequestStates
  /\ enqueued \in 0..MaxOps /\ queued \subseteq 1..enqueued
  /\ request \in {"sent", "reached", "store", "storeApplied"} => enqueued < MaxOps
  /\ attempts \in [OpIds -> Nat]
  /\ drain \in [Drains -> DrainStates]
  /\ \A d \in Drains : drain[d].left \subseteq 1..enqueued
  /\ \A d \in Drains : drain[d].answer # "none" => drain[d].left # {}
  /\ applied \in [OpIds -> 0..2]
  /\ \A i \in OpIds : applied[i] > 0 => i <= enqueued
  /\ delivered \subseteq 1..enqueued /\ resendable \subseteq 1..enqueued

\* d has still to send operation i.
ToSend(d, i) ==
  /\ i \in drain[d].left
  /\ drain[d].answer = "none" \/ i # Min(drain[d].left)

\* The server has confirmed operation i to d, which has not recorded it yet.
Confirmed(d, i) ==
  drain[d].answer = "ok" /\ i = Min(drain[d].left)

\* A confirmed operation has been applied.
ConfirmedWasApplied ==
  \A d \in Drains : drain[d].answer = "ok" => applied[Min(drain[d].left)] > 0

\* An operation in two copies may be sent twice.
SharedIsResendable ==
  \A d, e \in Drains, i \in OpIds :
    d # e /\ i \in drain[d].left /\ i \in drain[e].left => i \in resendable

\* What is going to be sent has not been applied, or is known to be sent twice.
FreshOrResendable ==
  \A d \in Drains, i \in OpIds :
    ToSend(d, i) /\ applied[i] > 0 => i \in resendable

\* An applied operation leaves the queue with the drain it was confirmed to, or
\* is known to be sent twice.
AppliedLeavesQueue ==
  \A i \in queued :
    applied[i] > 0 => i \in resendable \/ \E d \in Drains : Confirmed(d, i)

\* A drain has at least tried what it leaves behind.
PassedWasTried ==
  \A d \in Drains, j \in OpIds :
    j \in drain[d].left =>
      \A i \in 1..(j - 1) : i \in drain[d].left \/ applied[i] > 0 \/ attempts[i] > 0

\* The inductive invariant.
QueueInv ==
  /\ QueueTypes
  /\ SyncForgetsNothing
  /\ ConfirmedWasApplied
  /\ SharedIsResendable
  /\ FreshOrResendable
  /\ AppliedLeavesQueue
  /\ PassedWasTried

\* The copy of a drain is empty, or its least operation is the one it works on.
LEMMA NextOfCopy ==
  ASSUME QueueTypes, NEW d \in Drains, drain[d].left # {}
  PROVE  /\ Min(drain[d].left) \in drain[d].left
         /\ Min(drain[d].left) \in 1..enqueued
         /\ Min(drain[d].left) \in OpIds
         /\ \A j \in drain[d].left : Min(drain[d].left) <= j
<1>1. enqueued \in Nat /\ MaxOps \in Nat /\ enqueued <= MaxOps
  BY OfflineQueueAssumption DEF QueueTypes
<1>2. drain[d].left \subseteq 1..enqueued
  BY DEF QueueTypes
<1>3. drain[d].left \in SUBSET Nat
  BY <1>1, <1>2
<1> QED BY <1>1, <1>2, <1>3, MinOfNat DEF OpIds

\* It holds at the start.
LEMMA QueueInitInv == OfflineQueueInit => QueueInv
<1> SUFFICES ASSUME OfflineQueueInit PROVE QueueInv
  OBVIOUS
<1>1. QueueTypes
  BY OfflineQueueAssumption DEF OfflineQueueInit, QueueTypes, RequestStates, OpIds, DrainStates, IdleDrain
<1>2. SyncForgetsNothing
  BY DEF OfflineQueueInit, SyncForgetsNothing, NothingIsForgotten, OnceUnlessExcused, OvertakenHadFailed
<1>3. ConfirmedWasApplied /\ SharedIsResendable /\ FreshOrResendable /\ AppliedLeavesQueue /\ PassedWasTried
  BY DEF OfflineQueueInit, ConfirmedWasApplied, SharedIsResendable, FreshOrResendable, AppliedLeavesQueue,
     PassedWasTried, IdleDrain, ToSend, Confirmed
<1> QED BY <1>1, <1>2, <1>3 DEF QueueInv

\* Everything the proof speaks about, but for the request and the connection.
QueueCore == <<queued, attempts, enqueued, drain, applied, delivered, resendable>>

\* A step that leaves queue, drains and server alone only has to keep the types.
LEMMA CoreUnchanged ==
  ASSUME QueueInv, UNCHANGED QueueCore, QueueTypes'
  PROVE  QueueInv'
BY DEF QueueInv, QueueCore, SyncForgetsNothing, NothingIsForgotten, OnceUnlessExcused, OvertakenHadFailed,
   ConfirmedWasApplied, SharedIsResendable, FreshOrResendable, AppliedLeavesQueue, PassedWasTried,
   ToSend, Confirmed

\* The request of a form keeps the invariant,
LEMMA RequestKeepsQueue ==
  ASSUME QueueInv, SubmitForm \/ FormAnswered \/ FormFails \/ RegisterSync
  PROVE  QueueInv'
<1>1. UNCHANGED QueueCore
  BY DEF QueueCore, SubmitForm, FormAnswered, FormFails, RegisterSync
<1>2. QueueTypes'
  BY OfflineQueueAssumption DEF QueueInv, QueueTypes, SubmitForm, FormAnswered, FormFails, RegisterSync, RequestStates
<1> QED BY <1>1, <1>2, CoreUnchanged

\* and so does the connection.
LEMMA ConnectionKeepsQueue ==
  ASSUME QueueInv, GoOffline \/ GoOnline \/ OpenPage \/ \E d \in PageDrains : SyncNow(d)
  PROVE  QueueInv'
<1>1. UNCHANGED QueueCore
  BY DEF QueueCore, GoOffline, GoOnline, OpenPage, SyncNow
<1>2. QueueTypes'
  BY DEF QueueInv, QueueTypes, GoOffline, GoOnline, OpenPage, SyncNow
<1> QED BY <1>1, <1>2, CoreUnchanged

\* The new operation comes after all others and is in no copy.
LEMMA EnqueueKeepsQueue ==
  ASSUME QueueInv, EnqueueOperation
  PROVE  QueueInv'
<1> DEFINE id == enqueued + 1
<1> USE OfflineQueueAssumption
<1>0. QueueTypes
  BY DEF QueueInv
<1>1. /\ id \in OpIds /\ id \in Nat /\ enqueued \in Nat /\ id <= MaxOps
      /\ applied[id] = 0 /\ \A i \in 1..enqueued : i \in OpIds /\ i < id
  BY <1>0 DEF EnqueueOperation, QueueTypes, OpIds
<1>2. /\ queued' = queued \cup {id} /\ enqueued' = id /\ request' = "queued"
      /\ UNCHANGED <<online, drain, attempts, delivered>>
  BY DEF EnqueueOperation
<1>3. /\ \A i \in OpIds : i # id => applied'[i] = applied[i]
      /\ applied'[id] > 0 => applied'[id] = 1 /\ id \in resendable'
      /\ resendable \subseteq resendable' /\ resendable' \subseteq resendable \cup {id}
      /\ applied' \in [OpIds -> 0..2]
  BY <1>0, <1>1 DEF EnqueueOperation, QueueTypes
<1> HIDE DEF id
<1>4. QueueTypes'
  <2>1. \A i \in 1..enqueued : i \in 1..id
    BY <1>1 DEF id
  <2>2. id \in 1..id /\ id \in 0..MaxOps
    BY <1>1 DEF id
  <2> QED BY <1>0, <1>1, <1>2, <1>3, <2>1, <2>2 DEF QueueTypes, RequestStates
<1>5. \A d \in Drains : \A i \in drain[d].left : i # id /\ i \in OpIds
  BY <1>0, <1>1 DEF QueueTypes
<1>6. \A d \in Drains : drain[d].answer = "ok" => Min(drain[d].left) \in drain[d].left
  BY <1>0, NextOfCopy DEF QueueTypes
<1>7. SyncForgetsNothing'
  <2>1. \A i \in 1..id : i = id \/ i \in 1..enqueued
    BY <1>1 DEF id
  <2>2. NothingIsForgotten' /\ OnceUnlessExcused'
    BY <1>1, <1>2, <1>3, <2>1 DEF QueueInv, SyncForgetsNothing, NothingIsForgotten, OnceUnlessExcused
  <2>3. \A j \in delivered : \A i \in 1..(j - 1) : i \in OpIds /\ i # id /\ j \in 1..enqueued
    BY <1>0, <1>1 DEF QueueTypes
  <2>4. OvertakenHadFailed'
    BY <1>2, <1>3, <2>3 DEF QueueInv, SyncForgetsNothing, OvertakenHadFailed
  <2> QED BY <2>2, <2>4 DEF SyncForgetsNothing
<1>8. ConfirmedWasApplied' /\ SharedIsResendable'
  BY <1>2, <1>3, <1>5, <1>6 DEF QueueInv, ConfirmedWasApplied, SharedIsResendable
<1>9. FreshOrResendable'
  BY <1>2, <1>3, <1>5 DEF QueueInv, FreshOrResendable, ToSend
<1>10. AppliedLeavesQueue'
  <2>1. \A i \in queued : i \in OpIds
    BY <1>0, <1>1 DEF QueueTypes
  <2> QED BY <1>2, <1>3, <2>1 DEF QueueInv, AppliedLeavesQueue, Confirmed
<1>11. PassedWasTried'
  <2>1. \A d \in Drains, j \in OpIds : \A i \in 1..(j - 1) : j \in drain[d].left => i \in OpIds /\ i # id
    BY <1>0, <1>1 DEF QueueTypes, OpIds
  <2> QED BY <1>2, <1>3, <2>1 DEF QueueInv, PassedWasTried
<1> QED BY <1>4, <1>7, <1>8, <1>9, <1>10, <1>11 DEF QueueInv

\* A new copy holds what waits with attempts left; what it shares with another
\* copy becomes resendable, and so does what another drain has just confirmed.
LEMMA CopyKeepsQueue ==
  ASSUME QueueInv, NEW d \in Drains, drain[d] = IdleDrain, TakeCopy(d),
         UNCHANGED <<online, request, queued, attempts, enqueued, applied, delivered>>
  PROVE  QueueInv'
<1>0. QueueTypes
  BY DEF QueueInv
<1>1. /\ drain'[d].left = Sendable /\ drain'[d].answer = "none"
      /\ \A e \in Drains : e # d => drain'[e] = drain[e]
      /\ drain' \in [Drains -> DrainStates]
  BY <1>0, OfflineQueueAssumption DEF TakeCopy, QueueTypes, IdleDrain, DrainStates, Sendable, OpIds
<1>2. /\ resendable' = resendable \cup (Sendable \cap InCopies)
      /\ Sendable \subseteq queued /\ Sendable \subseteq OpIds
      /\ queued \subseteq OpIds /\ queued \subseteq 1..enqueued
  BY <1>0, OfflineQueueAssumption DEF TakeCopy, QueueTypes, Sendable, OpIds
<1>3. \A e \in Drains : drain[e].left \subseteq InCopies
  BY DEF InCopies
<1>4. QueueTypes'
  BY <1>0, <1>1, <1>2 DEF QueueTypes
<1>5. SyncForgetsNothing'
  BY <1>2 DEF QueueInv, SyncForgetsNothing, NothingIsForgotten, OnceUnlessExcused, OvertakenHadFailed
<1>6. ConfirmedWasApplied'
  BY <1>1 DEF QueueInv, ConfirmedWasApplied
<1>7. SharedIsResendable'
  BY <1>1, <1>2, <1>3 DEF QueueInv, SharedIsResendable
<1>8. FreshOrResendable'
  <2>1. \A e \in Drains, i \in OpIds : Confirmed(e, i) => i \in drain[e].left
    BY <1>0, NextOfCopy DEF Confirmed, QueueTypes
  <2>2. \A i \in Sendable : applied[i] > 0 => i \in resendable'
    BY <1>2, <1>3, <2>1 DEF QueueInv, AppliedLeavesQueue
  <2> QED BY <1>1, <1>2, <2>2 DEF QueueInv, FreshOrResendable, ToSend
<1>9. AppliedLeavesQueue'
  <2>1. \A e \in Drains, i \in OpIds : Confirmed(e, i) => e # d
    BY DEF Confirmed, IdleDrain
  <2> QED BY <1>1, <1>2, <2>1 DEF QueueInv, AppliedLeavesQueue, Confirmed
<1>10. PassedWasTried'
  <2>1. ASSUME NEW j \in Sendable, NEW i \in 1..(j - 1), i \notin Sendable
        PROVE  applied[i] > 0 \/ attempts[i] > 0
    <3>1. i \in 1..enqueued /\ i \in OpIds
      BY <1>0, <1>2, OfflineQueueAssumption DEF QueueTypes, OpIds
    <3>2. i \in queued => attempts[i] > 0
      BY <1>0, <2>1, <3>1, OfflineQueueAssumption DEF Sendable, QueueTypes
    <3> QED BY <3>1, <3>2 DEF QueueInv, SyncForgetsNothing, NothingIsForgotten
  <2> QED BY <1>1, <2>1 DEF QueueInv, PassedWasTried
<1> QED BY <1>4, <1>5, <1>6, <1>7, <1>8, <1>9, <1>10 DEF QueueInv

\* A drain that starts.
LEMMA StartKeepsQueue ==
  ASSUME QueueInv, StartWorkerDrain \/ \E d \in PageDrains : StartPageDrain(d)
  PROVE  QueueInv'
<1>1. CASE StartWorkerDrain
  BY <1>1, CopyKeepsQueue DEF StartWorkerDrain, Drains
<1>2. ASSUME NEW d \in PageDrains, StartPageDrain(d), online
      PROVE  QueueInv'
  BY <1>2, CopyKeepsQueue DEF StartPageDrain, Drains
<1>3. ASSUME NEW d \in PageDrains, StartPageDrain(d), ~online
      PROVE  QueueInv'
  <2>1. UNCHANGED QueueCore /\ UNCHANGED <<online, request>>
    BY <1>3 DEF StartPageDrain, QueueCore
  <2> QED BY <2>1, CoreUnchanged DEF QueueInv, QueueTypes, QueueCore
<1> QED BY <1>1, <1>2, <1>3

\* Sending: what the server applies has been fresh, or is known to be resendable;
\* what it confirms stays the drain's until the drain records it.
LEMMA SendKeepsQueue ==
  ASSUME QueueInv, NEW d \in Drains, SendNext(d)
  PROVE  QueueInv'
<1> DEFINE id == NextInCopy(drain[d].left)
<1>0. QueueTypes
  BY DEF QueueInv
<1>1. /\ id \in drain[d].left /\ id \in 1..enqueued /\ id \in OpIds /\ id = Min(drain[d].left)
      /\ \A j \in drain[d].left : id <= j
      /\ drain[d].answer = "none"
  BY <1>0, NextOfCopy DEF SendNext, NextInCopy
<1>2. PICK apply \in {FALSE, online}, answer \in {"ok", "error"} :
        /\ answer = "ok" => apply
        /\ drain' = [drain EXCEPT ![d].answer = answer]
        /\ IF apply
             THEN /\ applied' = [applied EXCEPT ![id] = IF @ = 0 THEN 1 ELSE 2]
                  /\ delivered' = delivered \cup {id}
             ELSE UNCHANGED <<applied, delivered>>
        /\ resendable' = IF apply /\ answer = "error" THEN resendable \cup {id} ELSE resendable
  BY DEF SendNext
<1>3. UNCHANGED <<online, request, queued, attempts, enqueued>>
  BY DEF SendNext
<1> HIDE DEF id
<1>4. /\ drain' \in [Drains -> DrainStates]
      /\ \A e \in Drains : drain'[e].left = drain[e].left
      /\ \A e \in Drains : e # d => drain'[e] = drain[e]
      /\ drain'[d].answer = answer
  BY <1>0, <1>2 DEF QueueTypes, DrainStates
<1>5. /\ applied' \in [OpIds -> 0..2]
      /\ \A i \in OpIds : i # id => applied'[i] = applied[i]
      /\ \A i \in OpIds : applied[i] > 0 => applied'[i] > 0
      /\ answer = "ok" => applied'[id] > 0
      /\ applied'[id] > 1 => applied[id] > 0
      /\ applied'[id] > 0 => applied[id] > 0 \/ apply
  BY <1>0, <1>1, <1>2 DEF QueueTypes
<1>6. resendable \subseteq resendable' /\ (apply /\ answer = "error" => id \in resendable')
  BY <1>2
<1>7. applied[id] > 0 => id \in resendable
  BY <1>1 DEF QueueInv, FreshOrResendable, ToSend
<1>8. QueueTypes'
  <2>1. delivered' \subseteq 1..enqueued /\ resendable' \subseteq 1..enqueued
    BY <1>0, <1>1, <1>2 DEF QueueTypes
  <2>2. \A e \in Drains : drain'[e].answer # "none" => drain'[e].left # {}
    BY <1>0, <1>1, <1>4 DEF QueueTypes
  <2>3. \A i \in OpIds : applied'[i] > 0 => i <= enqueued
    BY <1>0, <1>1, <1>5 DEF QueueTypes, OpIds
  <2> QED BY <1>0, <1>3, <1>4, <1>5, <2>1, <2>2, <2>3 DEF QueueTypes
<1>9. SyncForgetsNothing'
  <2>1. \A i \in 1..enqueued : i \in OpIds
    BY <1>0, OfflineQueueAssumption DEF QueueTypes, OpIds
  <2>2. NothingIsForgotten' /\ OnceUnlessExcused'
    BY <1>3, <1>5, <1>6, <1>7, <2>1 DEF QueueInv, SyncForgetsNothing, NothingIsForgotten, OnceUnlessExcused
  <2>3. \A i \in 1..(id - 1) : applied[i] > 0 \/ attempts[i] > 0
    BY <1>0, <1>1 DEF QueueInv, PassedWasTried, QueueTypes
  <2>4. \A j \in delivered' : \A i \in 1..(j - 1) : i \in OpIds
    BY <1>0, <1>1, <1>2, <2>1 DEF QueueTypes
  <2>5. OvertakenHadFailed'
    BY <1>2, <1>3, <1>5, <2>3, <2>4 DEF QueueInv, SyncForgetsNothing, OvertakenHadFailed
  <2> QED BY <2>2, <2>5 DEF SyncForgetsNothing
<1>10. ConfirmedWasApplied'
  <2>1. \A e \in Drains : drain[e].answer = "ok" => Min(drain[e].left) \in OpIds
    BY <1>0, NextOfCopy DEF QueueTypes
  <2> QED BY <1>1, <1>4, <1>5, <2>1 DEF QueueInv, ConfirmedWasApplied
<1>11. SharedIsResendable'
  BY <1>4, <1>6 DEF QueueInv, SharedIsResendable
<1>12. FreshOrResendable'
  <2> SUFFICES ASSUME NEW e \in Drains, NEW i \in OpIds, ToSend(e, i)', applied'[i] > 0
               PROVE  i \in resendable'
    BY DEF FreshOrResendable
  <2>1. CASE e = d
    BY <1>1, <1>2, <1>4, <1>5, <1>6, <2>1 DEF QueueInv, FreshOrResendable, ToSend
  <2>2. CASE e # d
    BY <1>1, <1>4, <1>5, <1>6, <2>2 DEF QueueInv, FreshOrResendable, SharedIsResendable, ToSend
  <2> QED BY <2>1, <2>2
<1>13. AppliedLeavesQueue'
  <2> SUFFICES ASSUME NEW i \in queued, applied'[i] > 0
               PROVE  i \in resendable' \/ \E e \in Drains : Confirmed(e, i)'
    BY <1>3 DEF AppliedLeavesQueue
  <2>1. i \in OpIds
    BY <1>0, OfflineQueueAssumption DEF QueueTypes, OpIds
  <2>2. CASE i = id
    <3>1. CASE answer = "ok"
      BY <1>1, <1>4, <2>2, <3>1 DEF Confirmed
    <3>2. CASE answer = "error"
      BY <1>5, <1>6, <1>7, <2>2, <3>2
    <3> QED BY <3>1, <3>2
  <2>3. CASE i # id
    BY <1>1, <1>4, <1>5, <1>6, <2>1, <2>3 DEF QueueInv, AppliedLeavesQueue, Confirmed
  <2> QED BY <2>2, <2>3
<1>14. PassedWasTried'
  <2>1. \A j \in OpIds : \A i \in 1..(j - 1) : i \in OpIds
    BY OfflineQueueAssumption DEF OpIds
  <2> QED BY <1>3, <1>4, <1>5, <2>1 DEF QueueInv, PassedWasTried
<1> QED BY <1>8, <1>9, <1>10, <1>11, <1>12, <1>13, <1>14 DEF QueueInv

\* Recording an answer: the operation leaves the copy, and the queue only if it
\* was applied; otherwise its attempts are counted.
LEMMA RecordKeepsQueue ==
  ASSUME QueueInv, NEW d \in Drains, RecordAnswer(d)
  PROVE  QueueInv'
<1> DEFINE id == NextInCopy(drain[d].left)
<1>0. QueueTypes
  BY DEF QueueInv
<1>1. /\ id \in drain[d].left /\ id \in 1..enqueued /\ id \in OpIds /\ id = Min(drain[d].left)
      /\ drain[d].answer \in {"ok", "error"}
  BY <1>0, NextOfCopy DEF RecordAnswer, NextInCopy, QueueTypes, DrainStates
<1>2. /\ UNCHANGED <<online, request, enqueued, applied, delivered, resendable>>
      /\ drain' = [drain EXCEPT ![d] = [left |-> drain[d].left \ {id}, answer |-> "none"]]
      /\ IF drain[d].answer = "ok" THEN DeleteOperation(id) ELSE IncrementAttempts(id)
  BY <1>0 DEF RecordAnswer, QueueTypes
<1> HIDE DEF id
<1>3. /\ drain' \in [Drains -> DrainStates]
      /\ drain'[d].left = drain[d].left \ {id} /\ drain'[d].answer = "none"
      /\ \A e \in Drains : e # d => drain'[e] = drain[e]
      /\ \A e \in Drains : drain'[e].left \subseteq drain[e].left
  BY <1>0, <1>2 DEF QueueTypes, DrainStates
<1>4. /\ attempts' \in [OpIds -> Nat] /\ queued' \subseteq queued
      /\ \A i \in OpIds : attempts[i] > 0 => attempts'[i] > 0
      /\ \A i \in queued : i \in queued' \/ (i = id /\ drain[d].answer = "ok")
      /\ drain[d].answer = "ok" => id \notin queued'
      /\ drain[d].answer = "error" /\ id \in queued => attempts'[id] > 0
  BY <1>0, <1>1, <1>2 DEF QueueTypes, DeleteOperation, IncrementAttempts
<1>5. drain[d].answer = "ok" => applied[id] > 0
  BY <1>1 DEF QueueInv, ConfirmedWasApplied
<1>6. applied[id] > 0 \/ attempts'[id] > 0
  BY <1>1, <1>4, <1>5 DEF QueueInv, SyncForgetsNothing, NothingIsForgotten
<1>7. QueueTypes'
  BY <1>0, <1>2, <1>3, <1>4 DEF QueueTypes
<1>8. SyncForgetsNothing'
  <2>1. NothingIsForgotten' /\ OnceUnlessExcused'
    BY <1>2, <1>4, <1>5 DEF QueueInv, SyncForgetsNothing, NothingIsForgotten, OnceUnlessExcused
  <2>2. \A j \in delivered : \A i \in 1..(j - 1) : i \in OpIds
    BY <1>0, OfflineQueueAssumption DEF QueueTypes, OpIds
  <2>3. OvertakenHadFailed'
    BY <1>2, <1>4, <2>2 DEF QueueInv, SyncForgetsNothing, OvertakenHadFailed
  <2> QED BY <2>1, <2>3 DEF SyncForgetsNothing
<1>9. ConfirmedWasApplied'
  BY <1>2, <1>3 DEF QueueInv, ConfirmedWasApplied
<1>10. SharedIsResendable'
  BY <1>2, <1>3 DEF QueueInv, SharedIsResendable
<1>11. FreshOrResendable'
  BY <1>1, <1>2, <1>3 DEF QueueInv, FreshOrResendable, ToSend
<1>12. AppliedLeavesQueue'
  BY <1>1, <1>2, <1>3, <1>4 DEF QueueInv, AppliedLeavesQueue, Confirmed
<1>13. PassedWasTried'
  <2>1. \A j \in OpIds : \A i \in 1..(j - 1) : i \in OpIds
    BY OfflineQueueAssumption DEF OpIds
  <2> QED BY <1>2, <1>3, <1>4, <1>6, <2>1 DEF QueueInv, PassedWasTried
<1> QED BY <1>7, <1>8, <1>9, <1>10, <1>11, <1>12, <1>13 DEF QueueInv

\* Closing the page: its drains end, and what they had not recorded is resendable.
LEMMA CloseKeepsQueue ==
  ASSUME QueueInv, ClosePage
  PROVE  QueueInv'
<1>0. QueueTypes
  BY DEF QueueInv
<1>1. /\ UNCHANGED <<online, queued, attempts, enqueued, applied, delivered>> /\ request' = "idle"
      /\ drain' = [d \in Drains |-> IF d \in PageDrains THEN IdleDrain ELSE drain[d]]
  BY DEF ClosePage
<1>2. /\ resendable \subseteq resendable'
      /\ \A d \in PageDrains : drain[d].answer = "ok" => Min(drain[d].left) \in resendable'
      /\ resendable' \subseteq 1..enqueued
  <2>1. \A d \in PageDrains : drain[d].answer = "ok" => Min(drain[d].left) \in 1..enqueued
    BY <1>0, NextOfCopy DEF QueueTypes, Drains
  <2> QED BY <1>0, <2>1 DEF ClosePage, QueueTypes, NextInCopy
<1>3. \A d \in Drains : drain'[d] \in {drain[d], IdleDrain} /\ (drain'[d] # drain[d] => d \in PageDrains)
  BY <1>1
<1>4. QueueTypes'
  <2>1. drain' \in [Drains -> DrainStates]
    BY <1>0, <1>1 DEF QueueTypes, DrainStates, IdleDrain
  <2>2. /\ \A d \in Drains : drain'[d].left \subseteq 1..enqueued
        /\ \A d \in Drains : drain'[d].answer # "none" => drain'[d].left # {}
    BY <1>0, <1>3 DEF QueueTypes, IdleDrain
  <2> QED BY <1>0, <1>1, <1>2, <2>1, <2>2 DEF QueueTypes, RequestStates
<1>5. SyncForgetsNothing'
  BY <1>1, <1>2 DEF QueueInv, SyncForgetsNothing, NothingIsForgotten, OnceUnlessExcused, OvertakenHadFailed
<1>6. ConfirmedWasApplied' /\ SharedIsResendable'
  BY <1>1, <1>2, <1>3 DEF QueueInv, ConfirmedWasApplied, SharedIsResendable, IdleDrain
<1>7. FreshOrResendable' /\ PassedWasTried'
  BY <1>1, <1>2, <1>3 DEF QueueInv, FreshOrResendable, PassedWasTried, ToSend, IdleDrain
<1>8. AppliedLeavesQueue'
  <2> SUFFICES ASSUME NEW i \in queued, applied[i] > 0, i \notin resendable'
               PROVE  \E d \in Drains : Confirmed(d, i)'
    BY <1>1 DEF AppliedLeavesQueue
  <2>1. PICK d \in Drains : Confirmed(d, i)
    BY <1>2 DEF QueueInv, AppliedLeavesQueue
  <2>2. d \notin PageDrains
    BY <1>2, <2>1 DEF Confirmed
  <2> QED BY <1>3, <2>1, <2>2 DEF Confirmed
<1> QED BY <1>4, <1>5, <1>6, <1>7, <1>8 DEF QueueInv

\* Every step of the specification keeps the inductive invariant.
LEMMA QueueNextInv == QueueInv /\ [OfflineQueueNext]_queueVars => QueueInv'
<1> SUFFICES ASSUME QueueInv, [OfflineQueueNext]_queueVars PROVE QueueInv'
  OBVIOUS
<1>1. CASE SubmitForm \/ RequestStep
  BY <1>1, RequestKeepsQueue, EnqueueKeepsQueue DEF RequestStep
<1>2. ASSUME NEW d \in Drains, DrainStep(d) PROVE QueueInv'
  BY <1>2, StartKeepsQueue, SendKeepsQueue, RecordKeepsQueue DEF DrainStep
<1>3. CASE (\E d \in PageDrains : SyncNow(d)) \/ GoOffline \/ GoOnline \/ OpenPage
  BY <1>3, ConnectionKeepsQueue
<1>4. CASE ClosePage
  BY <1>4, CloseKeepsQueue
<1>5. CASE UNCHANGED queueVars
  BY <1>5, CoreUnchanged DEF queueVars, QueueCore, QueueInv, QueueTypes
<1> QED BY <1>1, <1>2, <1>3, <1>4, <1>5 DEF OfflineQueueNext

\* Whatever drains overlap, fail or are closed, an operation the user was told is
\* saved stays until the server has applied it, is applied twice only for a known
\* reason, and is overtaken only after a failed attempt (lib/sync.ts, sw.ts).
THEOREM QueueForgetsNothing == OfflineQueueSpec => []SyncForgetsNothing
<1>1. QueueInv => SyncForgetsNothing
  BY DEF QueueInv
<1> QED BY <1>1, QueueInitInv, QueueNextInv, PTL DEF OfflineQueueSpec

-----------------------------------------------------------------------------
\* The load of the analytical store.
\* What a run that nothing disturbed has read: the rows up to the latest time it saw, as
\* many as it passed over.
ReadSoFar == {r \in ReadSince : original[r].stamp <= etl.high}

PageRows == IF etl.pc = "write" THEN DOMAIN etl.page ELSE {}

EtlTypes ==
  /\ original \in [EtlRows -> [version: Nat, stamp: Nat]]
  /\ writing \subseteq [row: EtlRows, stamp: Nat \ {0}]
  /\ clock \in Nat \ {0}
  /\ etl.pc \in {"idle", "read", "write", "finish"} /\ etl.high \in Nat
  /\ etl.offset \in Nat /\ etl.disturbed \in BOOLEAN
  /\ PageRows \subseteq EtlRows /\ \A r \in PageRows : etl.page[r] \in Nat
  /\ store \in [EtlRows -> Nat] /\ watermark \in Nat

\* A page holds only rows behind the watermark, but for those that committed late since.
RunReads ==
  /\ etl.pc # "idle" => watermark <= etl.high
  /\ \A r \in PageRows : watermark < original[r].stamp \/ r \in late
  /\ etl.pc # "idle" /\ ~etl.disturbed =>
       /\ etl.pc # "finish" =>
            Cardinality(ReadSoFar) = IF etl.offset < Cardinality(ReadSince) THEN etl.offset ELSE Cardinality(ReadSince)
       /\ \A r \in ReadSoFar \ PageRows : store[r] = original[r].version
       /\ \A r \in PageRows : etl.page[r] = original[r].version /\ r \in ReadSince /\ original[r].stamp <= etl.high

EtlIsRun == etl = [pc |-> etl.pc, high |-> etl.high, offset |-> etl.offset, page |-> etl.page, disturbed |-> etl.disturbed]

EtlInv == EtlTypes /\ EtlIsRun /\ RunReads /\ StoreFollowsTheWatermark

LEMMA EtlInitInv == EtlInit => EtlInv
<1> SUFFICES ASSUME EtlInit PROVE EtlInv
  OBVIOUS
<1>1. /\ etl.pc = "idle" /\ etl.high = 0 /\ etl.offset = 0 /\ ~etl.disturbed /\ etl.disturbed \in BOOLEAN
      /\ EtlIsRun
  BY DEF EtlInit, EtlIdle, EtlIsRun
<1>2. PageRows = {}
  BY <1>1 DEF PageRows
<1>3. EtlTypes
  BY <1>1, <1>2 DEF EtlInit, EtlTypes
<1>4. RunReads
  BY <1>1, <1>2 DEF RunReads
<1>5. StoreFollowsTheWatermark
  BY DEF EtlInit, StoreFollowsTheWatermark
<1> QED BY <1>1, <1>3, <1>4, <1>5 DEF EtlInv

\* Sets of the first rows of the query that are of the same size are the same, unless
\* the one ends between rows of the same time.
LEMMA FirstRowsAgree ==
  ASSUME EtlTypes, NEW S \in SUBSET ReadSince, NEW T \in SUBSET ReadSince, NEW high \in Nat,
         S = {r \in ReadSince : original[r].stamp <= high},
         Cardinality(S) = Cardinality(T),
         \A r \in T, q \in ReadSince \ T : original[r].stamp <= original[q].stamp
  PROVE  S = T
<1>1. IsFiniteSet(ReadSince)
  BY EtlAssumption, FS_Subset DEF ReadSince
<1>2. IsFiniteSet(S) /\ IsFiniteSet(T)
  BY <1>1, FS_Subset
<1>3. \A r \in ReadSince : original[r].stamp \in Nat
  BY DEF EtlTypes, ReadSince
<1>4. S \subseteq T \/ T \subseteq S
  <2> SUFFICES ASSUME NEW q \in S, q \notin T, NEW r \in T, r \notin S PROVE FALSE
    OBVIOUS
  <2>1. original[r].stamp <= original[q].stamp
    OBVIOUS
  <2> QED BY <1>3, <2>1
<1>5. S \subseteq T => S = T
  BY <1>2, FS_Subset
<1>6. T \subseteq S => S = T
  BY <1>2, FS_Subset
<1> QED BY <1>4, <1>5, <1>6

LEMMA EtlReadKeeps == EtlInv /\ BatchRead => EtlInv'
<1> SUFFICES ASSUME EtlInv, BatchRead PROVE EtlInv'
  OBVIOUS
<1> USE DEF EtlInv
<1>1. PICK before \in FirstRows(etl.offset), through \in FirstRows(etl.offset + BATCH_SIZE) :
         /\ before \subseteq through
         /\ \/ through \ before = {} /\ etl' = [etl EXCEPT !.pc = "finish"]
            \/ \E last \in through \ before :
                 /\ \A r \in through \ before : original[r].stamp <= original[last].stamp
                 /\ etl' = [pc |-> "write", offset |-> etl.offset + BATCH_SIZE,
                            high |-> IF original[last].stamp > etl.high THEN original[last].stamp ELSE etl.high,
                            page |-> [r \in through \ before |-> original[r].version],
                            disturbed |-> etl.disturbed \/ EndsInTie(through)]
         /\ late' = late \ (through \ before) /\ skipped' = skipped \ (through \ before)
  BY DEF BatchRead
<1> DEFINE page == through \ before
<1>2. /\ etl.pc = "read" /\ UNCHANGED <<original, writing, clock, etlWrites, store, watermark>>
      /\ ReadSince' = ReadSince
  BY DEF BatchRead, ReadSince
<1>3. /\ before \subseteq ReadSince /\ through \subseteq ReadSince
      /\ \A r \in before, q \in ReadSince \ before : original[r].stamp <= original[q].stamp
      /\ \A r \in through, q \in ReadSince \ through : original[r].stamp <= original[q].stamp
      /\ Cardinality(before) = IF etl.offset < Cardinality(ReadSince) THEN etl.offset ELSE Cardinality(ReadSince)
      /\ Cardinality(through) = IF etl.offset + BATCH_SIZE < Cardinality(ReadSince) THEN etl.offset + BATCH_SIZE ELSE Cardinality(ReadSince)
  BY <1>1 DEF FirstRows
<1>t. /\ \A r \in EtlRows : original[r].stamp \in Nat /\ original[r].version \in Nat
      /\ ReadSince \subseteq EtlRows /\ watermark \in Nat /\ etl.high \in Nat /\ etl.offset \in Nat
      /\ BATCH_SIZE \in Nat \ {0} /\ PageRows = {}
  BY <1>2, EtlAssumption DEF EtlTypes, ReadSince, PageRows
<1>4. ~etl.disturbed => before = ReadSoFar
  BY <1>2, <1>3, <1>t, FirstRowsAgree DEF RunReads, ReadSoFar
<1>5. StoreFollowsTheWatermark'
  BY <1>1, <1>2, <1>3, <1>t DEF StoreFollowsTheWatermark, ReadSince
<1>6. CASE page = {} /\ etl' = [etl EXCEPT !.pc = "finish"]
  <2>1. /\ etl'.pc = "finish" /\ etl'.high = etl.high /\ etl'.offset = etl.offset /\ etl'.disturbed = etl.disturbed
        /\ PageRows' = {} /\ EtlIsRun'
    BY <1>6 DEF PageRows, EtlIsRun
  <2>2. ReadSoFar' = ReadSoFar
    BY <1>2, <2>1 DEF ReadSoFar
  <2>3. EtlTypes'
    BY <1>2, <1>t, <2>1 DEF EtlTypes
  <2>4. RunReads'
    BY <1>2, <1>t, <2>1, <2>2 DEF RunReads
  <2> QED BY <1>5, <2>1, <2>3, <2>4
<1>7. ASSUME NEW last \in page,
             \A r \in page : original[r].stamp <= original[last].stamp,
             etl' = [pc |-> "write", offset |-> etl.offset + BATCH_SIZE,
                     high |-> IF original[last].stamp > etl.high THEN original[last].stamp ELSE etl.high,
                     page |-> [r \in page |-> original[r].version],
                     disturbed |-> etl.disturbed \/ EndsInTie(through)]
      PROVE  EtlInv'
  <2>1. /\ etl'.pc = "write" /\ etl'.offset = etl.offset + BATCH_SIZE
        /\ etl'.high = (IF original[last].stamp > etl.high THEN original[last].stamp ELSE etl.high)
        /\ etl'.page = [r \in page |-> original[r].version]
        /\ (etl'.disturbed <=> etl.disturbed \/ EndsInTie(through)) /\ etl'.disturbed \in BOOLEAN
        /\ PageRows' = page /\ EtlIsRun'
    BY <1>7 DEF PageRows, EtlTypes, EtlIsRun
  <2>2. etl'.high \in Nat /\ etl.high <= etl'.high /\ original[last].stamp <= etl'.high
    BY <2>1, <1>3, <1>t
  <2>3. EtlTypes'
    BY <1>2, <1>3, <1>t, <2>1, <2>2 DEF EtlTypes
  <2>4. watermark <= etl'.high
    BY <1>2, <1>t, <2>2 DEF RunReads
  <2>5. \A r \in page : watermark < original[r].stamp
    BY <1>3, <1>t DEF ReadSince
  <2>6. ASSUME ~etl'.disturbed
        PROVE  /\ ReadSoFar' = through
               /\ \A r \in before : store[r] = original[r].version
    <3>1. before = ReadSoFar /\ ~EndsInTie(through) /\ ~etl.disturbed
      BY <1>4, <2>1, <2>6
    <3>2. etl'.high = original[last].stamp
      BY <1>3, <1>t, <2>1, <3>1 DEF ReadSoFar
    <3>3. \A r \in through : original[r].stamp <= etl'.high
      BY <1>3, <1>7, <1>t, <2>2, <3>1 DEF ReadSoFar
    <3>4. \A q \in ReadSince \ through : ~ (original[q].stamp <= etl'.high)
      <4> SUFFICES ASSUME NEW q \in ReadSince \ through PROVE ~ (original[q].stamp <= etl'.high)
        OBVIOUS
      <4>1. original[last].stamp <= original[q].stamp /\ original[last].stamp # original[q].stamp
        BY <1>3, <3>1 DEF EndsInTie
      <4>2. original[last].stamp \in Nat /\ original[q].stamp \in Nat
        BY <1>3, <1>t
      <4> QED BY <3>2, <4>1, <4>2
    <3>5. ReadSoFar' = through
      BY <1>2, <1>3, <3>3, <3>4 DEF ReadSoFar
    <3>6. \A r \in before : store[r] = original[r].version
      BY <1>2, <1>t, <3>1 DEF RunReads
    <3> QED BY <3>5, <3>6
  <2>7. RunReads'
    <3>1. \A r \in page : r \in ReadSince /\ etl'.page[r] = original[r].version
      BY <1>3, <2>1
    <3>2. \A r \in page : original[r].stamp <= etl'.high
      BY <1>3, <1>7, <1>t, <2>2
    <3>3. ~etl'.disturbed => \A r \in ReadSoFar' \ page : store[r] = original[r].version
      BY <1>1, <2>6
    <3>4. ~etl'.disturbed =>
            Cardinality(ReadSoFar') = IF etl'.offset < Cardinality(ReadSince) THEN etl'.offset ELSE Cardinality(ReadSince)
      BY <1>3, <2>1, <2>6
    <3> QED BY <1>2, <2>1, <2>4, <2>5, <3>1, <3>2, <3>3, <3>4 DEF RunReads
  <2> QED BY <1>5, <2>1, <2>3, <2>7
<1> QED BY <1>1, <1>6, <1>7

LEMMA EtlNextInv == EtlInv /\ [EtlNext]_etlVars => EtlInv'
<1> SUFFICES ASSUME EtlInv, [EtlNext]_etlVars PROVE EtlInv'
  OBVIOUS
<1> USE DEF EtlInv
<1>i. /\ (etl' = EtlIdle => EtlIsRun')
      /\ EtlIdle.pc = "idle" /\ EtlIdle.high = 0 /\ EtlIdle.offset = 0 /\ EtlIdle.disturbed \in BOOLEAN
  BY DEF EtlIdle, EtlIsRun
<1>1. CASE UNCHANGED etlVars
  BY <1>1 DEF etlVars, EtlTypes, EtlIsRun, RunReads, PageRows, ReadSoFar, ReadSince, StoreFollowsTheWatermark
<1>2. CASE Tick
  BY <1>2 DEF Tick, EtlTypes, EtlIsRun, RunReads, PageRows, ReadSoFar, ReadSince, StoreFollowsTheWatermark
<1>3. ASSUME NEW r \in EtlRows, BeginWrite(r) PROVE EtlInv'
  BY <1>3 DEF BeginWrite, EtlTypes, EtlIsRun, RunReads, PageRows, ReadSoFar, ReadSince, StoreFollowsTheWatermark
<1>4. ASSUME NEW t \in writing, CommitWrite(t) PROVE EtlInv'
  <2>1. t.row \in EtlRows /\ t.stamp \in Nat
    BY DEF EtlTypes
  <2>2. /\ original' \in [EtlRows -> [version: Nat, stamp: Nat]]
        /\ original'[t.row].stamp = t.stamp
        /\ \A r \in EtlRows : r # t.row => original'[r] = original[r]
    BY <1>4, <2>1 DEF CommitWrite, EtlTypes
  <2>3. /\ (t.stamp <= watermark => t.row \in late') /\ \A r \in EtlRows : r # t.row => (r \in late' <=> r \in late)
        /\ \A r \in EtlRows : r # t.row => (r \in skipped' <=> r \in skipped)
        /\ UNCHANGED <<clock, etlWrites, store, watermark>>
    BY <1>4 DEF CommitWrite
  <2>4. /\ etl'.pc = etl.pc /\ etl'.high = etl.high /\ etl'.offset = etl.offset /\ etl'.page = etl.page
        /\ (etl.pc # "idle" => etl'.disturbed = TRUE) /\ etl'.disturbed \in BOOLEAN
        /\ PageRows' = PageRows /\ EtlIsRun'
    BY <1>4 DEF CommitWrite, EtlTypes, PageRows, EtlIsRun
  <2>5. EtlTypes'
    BY <1>4, <2>1, <2>2, <2>3, <2>4 DEF CommitWrite, EtlTypes
  <2>6. StoreFollowsTheWatermark'
    BY <2>1, <2>2, <2>3 DEF StoreFollowsTheWatermark, EtlTypes
  <2>7. RunReads'
    <3>1. \A r \in PageRows : watermark < original'[r].stamp \/ r \in late'
      BY <2>1, <2>2, <2>3 DEF RunReads, EtlTypes
    <3> QED BY <2>3, <2>4, <3>1 DEF RunReads
  <2> QED BY <2>4, <2>5, <2>6, <2>7
<1>5. CASE StartEtl
  <2>1. /\ etl'.pc = "read" /\ etl'.high = watermark /\ etl'.offset = 0 /\ etl'.disturbed = FALSE /\ PageRows' = {} /\ EtlIsRun'
        /\ UNCHANGED <<original, writing, clock, store, watermark, late, skipped>>
    BY <1>5 DEF StartEtl, EtlIdle, PageRows, EtlIsRun
  <2>2. ReadSoFar' = {} /\ ReadSince' = ReadSince
    BY <2>1 DEF ReadSoFar, ReadSince, EtlTypes
  <2>3. Cardinality(ReadSince) \in Nat /\ Cardinality({}) = 0
    BY EtlAssumption, FS_Subset, FS_CardinalityType, FS_EmptySet DEF ReadSince
  <2>4. EtlTypes'
    BY <1>5, <2>1 DEF StartEtl, EtlIdle, EtlTypes
  <2>5. RunReads'
    BY <2>1, <2>2, <2>3 DEF RunReads, EtlTypes
  <2> QED BY <2>1, <2>4, <2>5 DEF StoreFollowsTheWatermark
<1>6. CASE BatchRead
  BY <1>6, EtlReadKeeps
<1>7. CASE WriteBatch
  <2>1. /\ etl.pc = "write" /\ PageRows = DOMAIN etl.page /\ PageRows' = {}
        /\ \A r \in EtlRows : store'[r] = IF r \in PageRows THEN etl.page[r] ELSE store[r]
        /\ EtlIsRun' /\ etl'.pc \in {"read", "finish"} /\ etl'.high = etl.high /\ etl'.offset = etl.offset /\ etl'.disturbed = etl.disturbed
        /\ UNCHANGED <<original, writing, clock, watermark, late, skipped>>
    BY <1>7 DEF WriteBatch, PageRows, EtlTypes, EtlIsRun
  <2>2. ReadSoFar' = ReadSoFar /\ ReadSince' = ReadSince /\ ReadSince \subseteq EtlRows
    BY <2>1 DEF ReadSoFar, ReadSince
  <2>3. EtlTypes'
    BY <1>7, <2>1 DEF WriteBatch, EtlTypes
  <2>4. RunReads'
    BY <2>1, <2>2 DEF RunReads, ReadSoFar
  <2>5. StoreFollowsTheWatermark'
    BY <2>1 DEF RunReads, StoreFollowsTheWatermark, EtlTypes
  <2> QED BY <2>1, <2>3, <2>4, <2>5
<1>8. CASE SetWatermark
  <2>1. /\ etl.pc = "finish" /\ watermark' = etl.high /\ etl' = EtlIdle /\ PageRows' = {}
        /\ skipped' = (IF etl.disturbed THEN skipped \cup LeftBehind(etl.high) ELSE skipped)
        /\ UNCHANGED <<original, writing, clock, store, late>>
    BY <1>8, <1>i DEF SetWatermark, PageRows
  <2>2. \A r \in EtlRows : original[r].stamp \in 1..etl.high =>
          store[r] = original[r].version \/ r \in late \cup skipped'
    <3> SUFFICES ASSUME NEW r \in EtlRows, original[r].stamp \in 1..etl.high
                 PROVE  store[r] = original[r].version \/ r \in late \cup skipped'
      OBVIOUS
    <3>1. CASE etl.disturbed
      BY <2>1, <3>1 DEF LeftBehind
    <3>2. CASE ~etl.disturbed /\ original[r].stamp <= watermark
      BY <2>1, <3>2 DEF StoreFollowsTheWatermark, EtlTypes
    <3>3. CASE ~etl.disturbed /\ ~ (original[r].stamp <= watermark)
      <4>1. r \in ReadSoFar /\ r \notin PageRows
        BY <2>1, <3>3 DEF ReadSoFar, ReadSince, PageRows, EtlTypes
      <4> QED BY <2>1, <3>3, <4>1 DEF RunReads
    <3> QED BY <3>1, <3>2, <3>3
  <2>3. EtlTypes'
    BY <1>i, <2>1 DEF EtlTypes
  <2>4. RunReads'
    BY <1>i, <2>1 DEF RunReads
  <2> QED BY <1>i, <2>1, <2>2, <2>3, <2>4 DEF StoreFollowsTheWatermark
<1>9. CASE EtlFails
  <2>1. etl' = EtlIdle /\ PageRows' = {} /\ UNCHANGED <<original, writing, clock, store, watermark, late, skipped>>
    BY <1>9, <1>i DEF EtlFails, PageRows
  <2>2. EtlTypes'
    BY <1>i, <2>1 DEF EtlTypes
  <2>3. RunReads'
    BY <1>i, <2>1 DEF RunReads
  <2> QED BY <1>i, <2>1, <2>2, <2>3 DEF StoreFollowsTheWatermark
<1> QED BY <1>1, <1>2, <1>3, <1>4, <1>5, <1>6, <1>7, <1>8, <1>9 DEF EtlNext

\* Whatever fails and is tried again, the rows up to the watermark are in the analytical
\* store, but for those that committed late or that the pages of a disturbed run skipped
\* (analytics_loader.py).
THEOREM StoreKeepsUp == EtlSpec => []StoreFollowsTheWatermark
<1>1. EtlInv => StoreFollowsTheWatermark
  BY DEF EtlInv
<1> QED BY <1>1, EtlInitInv, EtlNextInv, PTL DEF EtlSpec

-----------------------------------------------------------------------------
\* The ingestion of files.
\* What a run knows of the file it is at: what it refused is set aside, the rest loaded.
FileIsUnderWay ==
  LET j == ingest.job
  IN  /\ ingest.pc # "idle" => j \in ingest.list
      /\ ingest.refused \subseteq Wrong \cup Early
      /\ ingest.pc \in {"quarantine", "load"} => FileOf[j] \cap Wrong \subseteq ingest.refused
      /\ ingest.pc \in {"load", "mark", "announce"} =>
           \A f \in FileOf[j] \cap ingest.refused : <<j, f>> \in recorded \cup unrecorded
      /\ ingest.pc \in {"mark", "announce"} => FileOf[j] \subseteq loaded \cup ingest.refused

IngestInv ==
  /\ jobStatus \in [IngestJobs -> {"absent", "pending", "complete", "failed"}]
  /\ ingest \in [pc: {"idle", "fetch", "quarantine", "load", "mark", "announce", "failing"},
                 list: SUBSET IngestJobs, job: IngestJobs \cup {0}, tries: Nat, refused: SUBSET Features]
  /\ \A j \in IngestJobs, f \in Features : <<j, f>> \in recorded => f \in Wrong \cup Early
  /\ FileIsUnderWay
  /\ FilesAreAccounted

LEMMA FirstJob ==
  ASSUME NEW list \in SUBSET IngestJobs, list # {}
  PROVE  Min(list) \in list
BY MinOfNat, IngestAssumption DEF IngestJobs

LEMMA IngestInitInv == IngestInit => IngestInv
BY DEF IngestInit, IngestInv, FileIsUnderWay, FilesAreAccounted, IngestIdle

\* Where an attempt begins, nothing is known of a file.
LEMMA AttemptBegins ==
  ASSUME IngestInv
  PROVE  /\ ingest.pc # "idle" => NextAttempt \in [pc: {"idle", "fetch"}, list: SUBSET IngestJobs, job: IngestJobs \cup {0}, tries: Nat, refused: {{}}]
         /\ ingest.pc # "idle" /\ NextAttempt.pc # "idle" => NextAttempt.job \in NextAttempt.list
<1> USE DEF IngestInv
<1>1. CASE ingest.pc # "idle" /\ ingest.tries < RETRIES
  <2>1. Min(ingest.list) \in ingest.list
    BY <1>1, FirstJob DEF FileIsUnderWay
  <2>2. NextAttempt = [ingest EXCEPT !.pc = "fetch", !.tries = ingest.tries + 1, !.job = Min(ingest.list), !.refused = {}]
    BY <1>1 DEF NextAttempt
  <2>3. ingest.list \in SUBSET IngestJobs /\ ingest.tries + 1 \in Nat
    OBVIOUS
  <2> HIDE DEF IngestInv
  <2>4. ingest \in [pc: {"idle", "fetch", "quarantine", "load", "mark", "announce", "failing"}, list: SUBSET IngestJobs, job: IngestJobs \cup {0}, tries: Nat, refused: SUBSET Features]
    BY DEF IngestInv
  <2>5. NextAttempt = [pc |-> "fetch", list |-> ingest.list, job |-> Min(ingest.list), tries |-> ingest.tries + 1, refused |-> {}]
    BY <2>2, <2>4
  <2> QED BY <2>1, <2>3, <2>5
<1>2. CASE ~ (ingest.tries < RETRIES)
  BY <1>2 DEF NextAttempt, IngestIdle
<1> QED BY <1>1, <1>2

LEMMA IngestNextInv == IngestInv /\ [IngestNext]_ingestVars => IngestInv'
<1> SUFFICES ASSUME IngestInv, [IngestNext]_ingestVars PROVE IngestInv'
  OBVIOUS
<1> USE DEF IngestInv
<1>1. CASE UNCHANGED ingestVars
  BY <1>1 DEF ingestVars, FileIsUnderWay, FilesAreAccounted
<1>2. ASSUME NEW j \in IngestJobs, Upload(j) PROVE IngestInv'
  BY <1>2 DEF Upload, FileIsUnderWay, FilesAreAccounted
<1>3. ASSUME NEW f \in Early, TimeComes(f) PROVE IngestInv'
  BY <1>3 DEF TimeComes, FileIsUnderWay, FilesAreAccounted
<1>4. CASE PollIngestionJobs
  <2>1. PICK pending \in SUBSET IngestJobs :
          pending # {} /\ ingest' = [IngestIdle EXCEPT !.pc = "fetch", !.list = pending, !.job = Min(pending)]
    BY <1>4 DEF PollIngestionJobs
  <2>2. Min(pending) \in pending
    BY <2>1, FirstJob
  <2>3. ingest' = [pc |-> "fetch", list |-> pending, job |-> Min(pending), tries |-> 0, refused |-> {}]
    BY <2>1 DEF IngestIdle
  <2>4. ingest' \in [pc: {"fetch"}, list: SUBSET IngestJobs, job: IngestJobs \cup {0}, tries: Nat, refused: {{}}]
        /\ ingest'.job \in ingest'.list
    BY <2>1, <2>2, <2>3
  <2> QED BY <1>4, <2>4 DEF PollIngestionJobs, FileIsUnderWay, FilesAreAccounted
<1>5. CASE ProcessFile
  <2>1. ingest.job \in IngestJobs
    BY <1>5 DEF ProcessFile, FileIsUnderWay
  <2>2. Refused(ingest.job) \in SUBSET Features
    BY <2>1 DEF Refused, Features
  <2>3. /\ Refused(ingest.job) \subseteq Wrong \cup Early
        /\ FileOf[ingest.job] \cap Wrong \subseteq Refused(ingest.job)
    BY DEF Refused
  <2>4. ingest' \in [pc: {"load", "quarantine"}, list: {ingest.list}, job: {ingest.job}, tries: Nat, refused: {Refused(ingest.job)}]
        /\ (ingest'.pc = "load" => Refused(ingest.job) = {})
    BY <1>5 DEF ProcessFile
  <2> QED BY <1>5, <2>1, <2>2, <2>3, <2>4 DEF ProcessFile, FileIsUnderWay, FilesAreAccounted
<1>6. CASE WriteQuarantineRecords
  <2>1. /\ ingest' = [ingest EXCEPT !.pc = "load"] /\ ingest.pc = "quarantine"
        /\ recorded' \cup unrecorded' = recorded \cup unrecorded \cup ({ingest.job} \X ingest.refused)
        /\ recorded' \subseteq recorded \cup ({ingest.job} \X ingest.refused)
        /\ recorded \subseteq recorded' /\ unrecorded \subseteq unrecorded'
        /\ UNCHANGED <<jobStatus, loaded, arrived>>
    BY <1>6 DEF WriteQuarantineRecords
  <2>2. \A j \in IngestJobs, f \in Features : <<j, f>> \in recorded' => f \in Wrong \cup Early
    BY <2>1 DEF FileIsUnderWay
  <2>3. FilesAreAccounted'
    BY <2>1, <2>2 DEF FilesAreAccounted
  <2>4. FileIsUnderWay'
    BY <2>1 DEF FileIsUnderWay
  <2> QED BY <2>1, <2>2, <2>3, <2>4
<1>7. CASE UpsertFeatures
  <2>1. FileOf[ingest.job] \cap Wrong \subseteq ingest.refused
    BY <1>7 DEF UpsertFeatures, FileIsUnderWay
  <2>2. loaded' \cap Wrong = {} /\ loaded \subseteq loaded'
    BY <1>7, <2>1 DEF UpsertFeatures, FilesAreAccounted
  <2>3. \A j \in IngestJobs, f \in Features : <<j, f>> \in recorded' /\ f \in loaded' => f \in Early
    BY <1>7, <2>2 DEF UpsertFeatures
  <2>4. FilesAreAccounted'
    BY <1>7, <2>2, <2>3 DEF UpsertFeatures, FilesAreAccounted
  <2>5. FileIsUnderWay'
    BY <1>7 DEF UpsertFeatures, FileIsUnderWay
  <2> QED BY <1>7, <2>4, <2>5 DEF UpsertFeatures
<1>8. CASE MarkComplete
  <2>1. ingest.job \in IngestJobs /\ ingest.pc = "mark"
    BY <1>8 DEF MarkComplete, FileIsUnderWay
  <2>2. PICK next \in {"announce", "failing"} : ingest' = [ingest EXCEPT !.pc = next]
    BY <1>8 DEF MarkComplete
  <2>3. \A f \in FileOf[ingest.job] : f \in loaded \/ <<ingest.job, f>> \in recorded \cup unrecorded
    BY <2>1 DEF FileIsUnderWay
  <2>4. FilesAreAccounted'
    BY <1>8, <2>1, <2>3 DEF MarkComplete, FilesAreAccounted
  <2>5. FileIsUnderWay'
    BY <1>8, <2>1, <2>2 DEF MarkComplete, FileIsUnderWay
  <2> QED BY <1>8, <2>1, <2>2, <2>4, <2>5 DEF MarkComplete
<1>9. CASE PublishComplete
  <2> DEFINE rest == {j \in ingest.list : ingest.job < j}
  <2>1. rest \in SUBSET IngestJobs /\ rest \subseteq ingest.list
    OBVIOUS
  <2>2. CASE rest = {}
    BY <1>9, <2>2 DEF PublishComplete, IngestIdle, FileIsUnderWay, FilesAreAccounted
  <2>3. CASE rest # {}
    <3>1. Min(rest) \in rest
      BY <2>1, <2>3, FirstJob
    <3> QED BY <1>9, <2>1, <2>3, <3>1 DEF PublishComplete, FileIsUnderWay, FilesAreAccounted
  <2> QED BY <2>2, <2>3
<1>10. CASE JobRaises
  BY <1>10 DEF JobRaises, FileIsUnderWay, FilesAreAccounted
<1>11. CASE MarkFailed
  <2>1. ingest.pc # "idle" /\ ingest' = NextAttempt /\ UNCHANGED <<loaded, recorded, unrecorded>>
    BY <1>11 DEF MarkFailed
  <2>2. jobStatus' \in [IngestJobs -> {"absent", "pending", "complete", "failed"}]
        /\ \A j \in IngestJobs : jobStatus'[j] = "complete" => jobStatus[j] = "complete"
    BY <1>11 DEF MarkFailed
  <2> QED BY <2>1, <2>2, AttemptBegins DEF FileIsUnderWay, FilesAreAccounted
<1>12. CASE IngestWorkerDies
  <2>1. ingest.pc # "idle" /\ ingest' = NextAttempt /\ UNCHANGED <<jobStatus, loaded, recorded, unrecorded>>
    BY <1>12 DEF IngestWorkerDies
  <2> QED BY <2>1, AttemptBegins DEF FileIsUnderWay, FilesAreAccounted
<1> QED
  BY <1>1, <1>2, <1>3, <1>4, <1>5, <1>6, <1>7, <1>8, <1>9, <1>10, <1>11, <1>12 DEF IngestNext

\* Each feature of a complete job is on the map or with the data steward, whatever is
\* retried, and nothing on the map is wrong (spatial_ingest_dag.py).
THEOREM IngestAccountsForFiles == IngestSpec => []FilesAreAccounted
<1>1. IngestInv => FilesAreAccounted
  BY DEF IngestInv
<1> QED BY <1>1, IngestInitInv, IngestNextInv, PTL DEF IngestSpec

-----------------------------------------------------------------------------
\* The shapes a run holds: past the validator none is bad, and between its comparison and
\* its load what it does not take for changed is in the table, but for what others wrote.
RefreshIsSound ==
  /\ refresh.pc \in {"detect", "load", "refresh"} => \A u \in Units : refresh.got[u] \notin BadShapes
  /\ refresh.pc = "load" =>
       \A u \in Units : u \in refresh.changed \/ refresh.got[u] \in {NoShape, boundary[u]} \/ u \in touched
  /\ refresh.pc = "load" => \A u \in refresh.changed : refresh.got[u] # NoShape

BoundariesInv ==
  /\ BoundariesTypeOK
  /\ RefreshIsSound
  /\ BoundariesFollowTheSource

LEMMA BoundariesInitInv == BoundariesInit => BoundariesInv
<1> SUFFICES ASSUME BoundariesInit PROVE BoundariesInv
  OBVIOUS
<1>1. NoUnits \in [Units -> Shapes \cup {NoShape}] /\ \A u \in Units : NoUnits[u] = NoShape
  BY DEF NoUnits
<1>2. NoShape \notin BadShapes
  BY BoundaryAssumption
<1> QED BY <1>1, <1>2 DEF BoundariesInit, BoundariesInv, BoundariesTypeOK, RefreshIsSound, BoundariesFollowTheSource, RefreshIdle

LEMMA BoundariesNextInv == BoundariesInv /\ [BoundariesNext]_boundaryVars => BoundariesInv'
<1> SUFFICES ASSUME BoundariesInv, [BoundariesNext]_boundaryVars PROVE BoundariesInv'
  OBVIOUS
<1> USE DEF BoundariesInv
<1>0. RefreshIdle \in [pc: {"idle"}, got: [Units -> Shapes \cup {NoShape}], changed: SUBSET Units]
  BY DEF RefreshIdle, NoUnits
<1>a. refresh \in [pc: {"idle", "validate", "detect", "load", "refresh"}, got: [Units -> Shapes \cup {NoShape}], changed: SUBSET Units]
  BY DEF BoundariesTypeOK
<1>1. CASE UNCHANGED boundaryVars
  BY <1>1 DEF boundaryVars, BoundariesTypeOK, RefreshIsSound, BoundariesFollowTheSource
<1>2. ASSUME NEW u \in Units, SourceChanges(u) PROVE BoundariesInv'
  BY <1>2 DEF SourceChanges, BoundariesTypeOK, RefreshIsSound, BoundariesFollowTheSource
<1>3. ASSUME NEW u \in Units, OthersWrite(u) PROVE BoundariesInv'
  <2>1. PICK s \in Shapes \ BadShapes : boundary' = [boundary EXCEPT ![u] = s]
    BY <1>3 DEF OthersWrite
  <2>2. BoundariesTypeOK'
    BY <1>3, <2>1 DEF OthersWrite, BoundariesTypeOK
  <2>3. RefreshIsSound'
    BY <1>3, <2>1 DEF OthersWrite, BoundariesTypeOK, RefreshIsSound
  <2>4. BoundariesFollowTheSource'
    BY <1>3, <2>1 DEF OthersWrite, BoundariesTypeOK, BoundariesFollowTheSource
  <2> QED BY <2>2, <2>3, <2>4
<1>4. CASE FetchBoundarySource
  BY <1>4 DEF FetchBoundarySource, BoundariesTypeOK, RefreshIsSound, BoundariesFollowTheSource
<1>5. CASE ValidateBoundaries
  BY <1>0, <1>a, <1>5 DEF ValidateBoundaries, BoundariesTypeOK, RefreshIsSound, BoundariesFollowTheSource
<1>6. CASE DetectChanges
  <2>1. PICK changed \in SUBSET Units :
          /\ \A u \in changed : refresh.got[u] # NoShape
          /\ \A u \in Units : refresh.got[u] \notin {NoShape, boundary[u]} => u \in changed
          /\ refresh' = [refresh EXCEPT !.pc = "load", !.changed = changed]
    <3>1. PICK changed \in SUBSET {u \in Units : refresh.got[u] # NoShape} :
            /\ {u \in {v \in Units : refresh.got[v] # NoShape} : refresh.got[u] # boundary[u]} \subseteq changed
            /\ refresh' = [refresh EXCEPT !.pc = "load", !.changed = changed]
      BY <1>6 DEF DetectChanges
    <3> QED BY <3>1
  <2> QED BY <1>a, <1>6, <2>1 DEF DetectChanges, BoundariesTypeOK, RefreshIsSound, BoundariesFollowTheSource
<1>7. CASE LoadBoundaries
  <2>1. PICK next \in {"load", "refresh"} : refresh' = [refresh EXCEPT !.pc = next]
    BY <1>7 DEF LoadBoundaries
  <2>2. \A u \in Units : boundary'[u] = IF u \in refresh.changed THEN refresh.got[u] ELSE boundary[u]
    BY <1>7 DEF LoadBoundaries
  <2>3. BoundariesTypeOK'
    BY <1>a, <1>7, <2>1, <2>2 DEF LoadBoundaries, BoundariesTypeOK
  <2>4. RefreshIsSound'
    BY <1>a, <1>7, <2>1, <2>2 DEF LoadBoundaries, RefreshIsSound
  <2>5. BoundariesFollowTheSource'
    <3>1. \A u \in Units : boundary'[u] \notin BadShapes
      BY <1>7, <2>2 DEF LoadBoundaries, RefreshIsSound, BoundariesFollowTheSource
    <3>2. \A u \in Units : refresh'.got[u] \in {NoShape, boundary'[u]} \/ u \in touched'
      BY <1>a, <1>7, <2>1, <2>2 DEF LoadBoundaries, RefreshIsSound
    <3>3. ~owed' => boundary' = boundary /\ ~owed
      <4>1. ~owed' => refresh.changed = {} /\ ~owed
        BY <1>7 DEF LoadBoundaries
      <4>2. refresh.changed = {} => \A u \in Units : boundary'[u] = boundary[u]
        BY <2>2
      <4> QED BY <4>1, <4>2, <2>3 DEF BoundariesTypeOK
    <3> QED BY <1>7, <3>1, <3>2, <3>3 DEF LoadBoundaries, BoundariesFollowTheSource
  <2> QED BY <2>3, <2>4, <2>5
<1>8. CASE RefreshSpatialViews
  BY <1>0, <1>8 DEF RefreshSpatialViews, BoundariesTypeOK, RefreshIsSound, BoundariesFollowTheSource
<1>9. CASE RefreshFails
  BY <1>0, <1>9 DEF RefreshFails, BoundariesTypeOK, RefreshIsSound, BoundariesFollowTheSource
<1> QED BY <1>1, <1>2, <1>3, <1>4, <1>5, <1>6, <1>7, <1>8, <1>9 DEF BoundariesNext

\* Boundaries follow what was fetched and statistics the boundaries, but for what others
\* wrote and for a run that gave up between the two (boundary_refresh_dag.py).
THEOREM RefreshFollowsTheSource == BoundariesSpec => []BoundariesFollowTheSource
<1>1. BoundariesInv => BoundariesFollowTheSource
  BY DEF BoundariesInv
<1> QED BY <1>1, BoundariesInitInv, BoundariesNextInv, PTL DEF BoundariesSpec

-----------------------------------------------------------------------------
\* What a run fetched is not older than the table, nor newer than the analysis; once a
\* class is loaded, clients have to be told.
ZonesInv ==
  /\ analysis \in [Classes -> Nat] /\ zones \in [Classes -> Nat] /\ shown \in [Classes -> Nat]
  /\ zoneRun \in [pc: {"idle", "fetch", "load", "publish"}, at: Nat, got: [Classes -> Nat]]
  /\ untold \in BOOLEAN
  /\ \A k \in Classes : zoneRun.got[k] <= analysis[k]
  /\ ClientsSeeTheZones

LEMMA ZonesInitInv == ZonesInit => ZonesInv
<1> SUFFICES ASSUME ZonesInit PROVE ZonesInv
  OBVIOUS
<1>1. NoZones \in [Classes -> Nat] /\ \A k \in Classes : NoZones[k] = 0
  BY DEF NoZones
<1>2. zoneRun.got = NoZones /\ zoneRun \in [pc: {"idle"}, at: {1}, got: {NoZones}]
  BY DEF ZonesInit, ZonesIdle
<1>3. /\ zoneRun \in [pc: {"idle", "fetch", "load", "publish"}, at: Nat, got: [Classes -> Nat]]
      /\ \A k \in Classes : zoneRun.got[k] = 0
  BY <1>1, <1>2
<1>4. analysis = NoZones /\ zones = NoZones /\ shown = NoZones /\ untold = FALSE
  BY DEF ZonesInit
<1>5. ClientsSeeTheZones
  BY <1>1, <1>3, <1>4 DEF ClientsSeeTheZones
<1>6. \A k \in Classes : zoneRun.got[k] <= analysis[k]
  BY <1>1, <1>3, <1>4
<1>7. zones \in [Classes -> Nat] /\ shown \in [Classes -> Nat] /\ analysis \in [Classes -> Nat]
  BY <1>1, <1>4
<1> QED BY <1>3, <1>4, <1>5, <1>6, <1>7 DEF ZonesInv

LEMMA ZonesNextInv == ZonesInv /\ [ZonesNext]_zoneVars => ZonesInv'
<1> SUFFICES ASSUME ZonesInv, [ZonesNext]_zoneVars PROVE ZonesInv'
  OBVIOUS
<1> USE DEF ZonesInv
<1>0. /\ NoZones \in [Classes -> Nat] /\ \A k \in Classes : NoZones[k] = 0
      /\ ZonesIdle = [pc |-> "idle", at |-> 1, got |-> NoZones]
  BY DEF NoZones, ZonesIdle
<1>1. CASE UNCHANGED zoneVars
  BY <1>1 DEF zoneVars, ClientsSeeTheZones
<1>2. ASSUME NEW k \in Classes, Analyse(k) PROVE ZonesInv'
  <2>1. /\ analysis' \in [Classes -> Nat] /\ \A j \in Classes : analysis[j] <= analysis'[j]
        /\ UNCHANGED <<zones, shown, zoneRun, untold>>
    BY <1>2 DEF Analyse
  <2> QED BY <2>1 DEF ClientsSeeTheZones
<1>3. CASE StartZones
  BY <1>0, <1>3 DEF StartZones, ClientsSeeTheZones
<1>4. CASE FetchHazardZones
  <2>1. CASE zoneRun.at \in Classes
    <3>1. PICK version \in {0, analysis[zoneRun.at]} :
            zoneRun' = [zoneRun EXCEPT !.got[zoneRun.at] = version, !.at = zoneRun.at + 1]
      BY <1>4, <2>1, ZoneAssumption DEF FetchHazardZones, Classes
    <3>2. zoneRun'.pc = "fetch" /\ zoneRun'.at = zoneRun.at + 1 /\ zoneRun'.got = [zoneRun.got EXCEPT ![zoneRun.at] = version]
      BY <1>4, <3>1 DEF FetchHazardZones
    <3>3. zoneRun' = [pc |-> zoneRun'.pc, at |-> zoneRun'.at, got |-> zoneRun'.got]
      BY <3>1
    <3>4. zoneRun'.got \in [Classes -> Nat] /\ \A k \in Classes : zoneRun'.got[k] \in {zoneRun.got[k], 0, analysis[k]}
      BY <2>1, <3>1, <3>2
    <3> QED BY <1>4, <3>2, <3>3, <3>4 DEF FetchHazardZones, ClientsSeeTheZones
  <2>2. CASE zoneRun.at \notin Classes
    <3>1. zoneRun' \in [pc: {"load"}, at: {1}, got: {zoneRun.got}] /\ UNCHANGED <<analysis, zones, shown, untold>>
      BY <1>4, <2>2 DEF FetchHazardZones
    <3> QED BY <3>1 DEF ClientsSeeTheZones
  <2> QED BY <2>1, <2>2
<1>5. CASE LoadHazardZones
  <2>1. CASE zoneRun.at \in Classes /\ zoneRun.got[zoneRun.at] > 0
    <3>1. /\ zones' = [zones EXCEPT ![zoneRun.at] = zoneRun.got[zoneRun.at]]
          /\ untold' = TRUE /\ zoneRun' = [zoneRun EXCEPT !.at = zoneRun.at + 1]
          /\ UNCHANGED <<analysis, shown>>
      <4>1. zoneRun.at # MaxClass + 1
        BY <2>1, ZoneAssumption DEF Classes
      <4> QED BY <1>5, <2>1, <4>1 DEF LoadHazardZones
    <3>2. zones' \in [Classes -> Nat] /\ \A k \in Classes : zones'[k] = IF k = zoneRun.at THEN zoneRun.got[k] ELSE zones[k]
      BY <2>1, <3>1
    <3>3. \A k \in Classes : shown[k] <= zones'[k] /\ zones'[k] <= analysis[k]
      BY <2>1, <3>2 DEF ClientsSeeTheZones
    <3>4. \A k \in Classes : zoneRun'.got[k] > 0 => zones'[k] <= zoneRun'.got[k]
      BY <3>1, <3>2 DEF ClientsSeeTheZones
    <3> QED BY <3>1, <3>2, <3>3, <3>4 DEF ClientsSeeTheZones
  <2>2. CASE ~ (zoneRun.at \in Classes /\ zoneRun.got[zoneRun.at] > 0)
    <3>1. /\ UNCHANGED <<zones, untold, analysis, shown>>
          /\ zoneRun' \in [pc: {"load", "publish"}, at: Nat, got: {zoneRun.got}]
      BY <1>5, <2>2 DEF LoadHazardZones
    <3> QED BY <3>1 DEF ClientsSeeTheZones
  <2> QED BY <2>1, <2>2
<1>6. CASE RetryLoad
  BY <1>6 DEF RetryLoad, ClientsSeeTheZones
<1>7. CASE PublishHazardUpdate
  <2>1. zoneRun' = ZonesIdle /\ UNCHANGED <<analysis, zones>>
    BY <1>7 DEF PublishHazardUpdate
  <2>2. (UNCHANGED <<shown, untold>>) \/ (shown' = zones /\ untold' = FALSE)
    BY <1>7 DEF PublishHazardUpdate
  <2>3. zoneRun' \in [pc: {"idle"}, at: {1}, got: {NoZones}]
    BY <1>0, <2>1
  <2>4. /\ zoneRun' \in [pc: {"idle", "fetch", "load", "publish"}, at: Nat, got: [Classes -> Nat]]
        /\ \A k \in Classes : zoneRun'.got[k] = 0
    BY <1>0, <2>3
  <2>5. ClientsSeeTheZones'
    BY <2>1, <2>2, <2>4 DEF ClientsSeeTheZones
  <2>6. \A k \in Classes : zoneRun'.got[k] <= analysis'[k]
    BY <2>1, <2>4
  <2>7. zones' \in [Classes -> Nat] /\ shown' \in [Classes -> Nat] /\ analysis' \in [Classes -> Nat] /\ untold' \in BOOLEAN
    BY <2>1, <2>2
  <2> QED BY <2>4, <2>5, <2>6, <2>7
<1>8. CASE ZonesFail
  BY <1>0, <1>8 DEF ZonesFail, ClientsSeeTheZones
<1> QED BY <1>1, <1>2, <1>3, <1>4, <1>5, <1>6, <1>7, <1>8 DEF ZonesNext

\* Map clients see the zones in the table, but for a run that never came to tell, and no
\* retry takes a class back (hazard_zone_refresh_dag.py).
THEOREM ClientsHearOfZones == ZonesSpec => []ClientsSeeTheZones
<1>1. ZonesInv => ClientsSeeTheZones
  BY DEF ZonesInv
<1> QED BY <1>1, ZonesInitInv, ZonesNextInv, PTL DEF ZonesSpec

\* The types of the deadlines.
\* What a call or a job holds.
LEMMA DeadlineCallHolds ==
  ASSUME NEW call \in DeadlineBusy \cup {DeadlineIdle}
  PROVE  /\ call.pc = "save" => call.row \in DueRow
         /\ call.pc = "file" => call.until \in 1..(MaxDay + 1)
         /\ call.pc = "decide" => call.n \in 1..MaxRequests /\ call.decision \in {"approved", "denied"} /\ call.row \in DueRow
BY DEF DeadlineBusy, DeadlineIdle

LEMMA DeadlineJobHolds ==
  ASSUME NEW k \in JobBusy \cup {DeadlineIdle}
  PROVE  k.pc \in {"save", "send", "record"} => k.row \in DueRow /\ [k EXCEPT !.pc = "record"] \in JobBusy
BY DEF JobBusy, DeadlineIdle

LEMMA DeadlinesInitTyped == TaskDeadlinesInit => TaskDeadlinesTypeOK
<1>1. /\ MaxDay \in Nat \ {0} /\ MaxRequests \in Nat /\ MaxDeadlineCalls \in Nat /\ MaxJobFailures \in Nat
      /\ "assigned" \in TaskStatuses
  BY TaskDeadlinesAssumption DEF TaskStatuses
<1>2. /\ [status |-> "assigned", deadline |-> 1, overdue |-> FALSE, since |-> 0] \in DueRow
      /\ [status |-> "absent", until |-> 1] \in ExtensionRow
      /\ 1 \in 1..MaxDay /\ 0 \in 0..MaxDeadlineCalls /\ 0 \in 0..MaxJobFailures
  BY <1>1 DEF DueRow, ExtensionRow
<1> QED BY <1>2 DEF TaskDeadlinesInit, TaskDeadlinesTypeOK

LEMMA DeadlineCallBegins ==
  ASSUME TaskDeadlinesTypeOK, NEW c \in DeadlineCalls, NEW call \in DeadlineBusy, Call(c, call)
  PROVE  TaskDeadlinesTypeOK'
BY TaskDeadlinesAssumption DEF TaskDeadlinesTypeOK, Call

LEMMA DeadlinesNextTyped == TaskDeadlinesTypeOK /\ [TaskDeadlinesNext]_deadlineVars => TaskDeadlinesTypeOK'
<1> SUFFICES ASSUME TaskDeadlinesTypeOK, [TaskDeadlinesNext]_deadlineVars PROVE TaskDeadlinesTypeOK'
  OBVIOUS
<1> USE TaskDeadlinesAssumption DEF TaskDeadlinesTypeOK
<1>a. MaxDay \in Nat \ {0} /\ MaxDeadlineCalls \in Nat /\ MaxJobFailures \in Nat
  BY TaskDeadlinesAssumption
<1>b. day \in 0..MaxDay
  BY <1>a
<1>0. /\ \A row \in DueRow, s \in TaskStatuses : [row EXCEPT !.status = s] \in DueRow
      /\ \A row \in DueRow, d \in 1..(MaxDay + 1) : [row EXCEPT !.deadline = d] \in DueRow
      /\ \A row \in DueRow, d \in 1..(MaxDay + 1) : [row EXCEPT !.deadline = d, !.overdue = FALSE, !.since = 0] \in DueRow
      /\ \A row \in DueRow : Flagged(row) \in DueRow
  <2>1. \A row \in DueRow : Flagged(row) \in DueRow
    BY <1>b DEF DueRow, Flagged
  <2>2. \A row \in DueRow, s \in TaskStatuses : [row EXCEPT !.status = s] \in DueRow
    BY DEF DueRow
  <2>3. \A row \in DueRow, d \in 1..(MaxDay + 1) : [row EXCEPT !.deadline = d] \in DueRow
    BY DEF DueRow
  <2>4. 0 \in 0..MaxDay
    BY <1>a
  <2>5. \A row \in DueRow, d \in 1..(MaxDay + 1) : [row EXCEPT !.deadline = d, !.overdue = FALSE, !.since = 0] \in DueRow
    BY <2>4 DEF DueRow
  <2> QED BY <2>1, <2>2, <2>3, <2>5
<1>1. CASE UNCHANGED deadlineVars
  BY <1>1 DEF deadlineVars
<1>2. ASSUME NEW c \in DeadlineCalls, NEW s \in TaskStatuses, TransitionDue(c, s) PROVE TaskDeadlinesTypeOK'
  <2>1. [pc |-> "save", row |-> [due EXCEPT !.status = s]] \in DeadlineBusy
    BY <1>0 DEF DeadlineBusy
  <2> QED BY <1>2, <2>1, DeadlineCallBegins DEF TransitionDue
<1>3. ASSUME NEW c \in DeadlineCalls, NEW d \in 1..(MaxDay + 1), UpdateDeadline(c, d) \/ RequestExtension(c, d)
      PROVE  TaskDeadlinesTypeOK'
  <2>1. [pc |-> "save", row |-> [due EXCEPT !.deadline = d]] \in DeadlineBusy /\ [pc |-> "file", until |-> d] \in DeadlineBusy
    BY <1>0 DEF DeadlineBusy
  <2> QED BY <1>3, <2>1, DeadlineCallBegins DEF UpdateDeadline, RequestExtension
<1>4. ASSUME NEW c \in DeadlineCalls, NEW n \in 1..MaxRequests, NEW s \in {"approved", "denied"}, ReviewExtension(c, n, s)
      PROVE  TaskDeadlinesTypeOK'
  <2>1. [pc |-> "decide", n |-> n, decision |-> s, row |-> due] \in DeadlineBusy
    BY DEF DeadlineBusy
  <2> QED BY <1>4, <2>1, DeadlineCallBegins DEF ReviewExtension
<1>5. ASSUME NEW c \in DeadlineCalls, SaveDue(c) \/ AbortDeadlineCall(c) PROVE TaskDeadlinesTypeOK'
  BY <1>5, DeadlineCallHolds DEF SaveDue, AbortDeadlineCall
<1>6. ASSUME NEW c \in DeadlineCalls, FileExtension(c) PROVE TaskDeadlinesTypeOK'
  <2>1. [status |-> "pending", until |-> deadlineCall[c].until] \in ExtensionRow
    BY <1>6, DeadlineCallHolds DEF FileExtension, ExtensionRow
  <2> QED BY <1>6, <2>1 DEF FileExtension
<1>7. ASSUME NEW c \in DeadlineCalls, DecideExtension(c) PROVE TaskDeadlinesTypeOK'
  <2>1. PICK call \in DeadlineBusy \cup {DeadlineIdle} : call = deadlineCall[c]
    OBVIOUS
  <2>2. call.n \in 1..MaxRequests /\ call.decision \in {"approved", "denied"} /\ call.row \in DueRow
    BY <1>7, <2>1, DeadlineCallHolds DEF DecideExtension
  <2>3. [extension EXCEPT ![call.n].status = call.decision] \in [1..MaxRequests -> ExtensionRow]
    BY <2>2 DEF ExtensionRow
  <2>4. extension[call.n].until \in 1..(MaxDay + 1)
    BY <2>2 DEF ExtensionRow
  <2>5. [pc |-> "save", row |-> [call.row EXCEPT !.deadline = extension[call.n].until, !.overdue = FALSE, !.since = 0]] \in DeadlineBusy
    BY <1>0, <2>2, <2>4 DEF DeadlineBusy
  <2> QED BY <1>7, <2>1, <2>3, <2>5 DEF DecideExtension
<1>8. ASSUME NEW r \in Replicas, NEW k \in Jobs, StartJob(r, k) PROVE TaskDeadlinesTypeOK'
  <2>1. [pc |-> IF k = "overdue" THEN "save" ELSE "send", row |-> due] \in JobBusy
    BY DEF JobBusy
  <2> QED BY <1>8, <2>1 DEF StartJob
<1>9. ASSUME NEW r \in Replicas, SaveOverdue(r) PROVE TaskDeadlinesTypeOK'
  <2>1. due' \in DueRow
    BY <1>0, <1>9, DeadlineJobHolds DEF SaveOverdue, Jobs
  <2> QED BY <1>9, <2>1 DEF SaveOverdue
<1>10. ASSUME NEW r \in Replicas, NEW k \in Jobs, k # "overdue", SendEscalation(r, k) \/ RecordEscalation(r, k)
       PROVE  TaskDeadlinesTypeOK'
  <2>1. job[<<r, k>>].pc \in {"send", "record"} => [job[<<r, k>>] EXCEPT !.pc = "record"] \in JobBusy
    BY DeadlineJobHolds
  <2>2. job' \in [Replicas \X Jobs -> JobBusy \cup {DeadlineIdle}]
    BY <1>10, <2>1 DEF SendEscalation, RecordEscalation
  <2>3. k \in {"tier3", "tier4"}
    BY <1>10 DEF Jobs
  <2> QED BY <1>10, <2>2, <2>3 DEF SendEscalation, RecordEscalation, Notified
<1>11. ASSUME NEW r \in Replicas, NEW k \in Jobs, FailJob(r, k) PROVE TaskDeadlinesTypeOK'
  BY <1>11 DEF FailJob
<1>12. CASE OnTaskOverdue \/ WarnApproaching \/ NextDay
  <2>1. CASE OnTaskOverdue \/ WarnApproaching
    BY <2>1 DEF OnTaskOverdue, WarnApproaching, Notified
  <2>2. CASE NextDay
    <3>1. day' \in 1..MaxDay
      BY <1>a, <2>2 DEF NextDay
    <3> QED BY <2>2, <3>1 DEF NextDay
  <2> QED BY <1>12, <2>1, <2>2
<1> QED BY <1>1, <1>2, <1>3, <1>4, <1>5, <1>6, <1>7, <1>8, <1>9, <1>10, <1>11, <1>12 DEF TaskDeadlinesNext, JobStep

-----------------------------------------------------------------------------
\* The types of the accounts.
\* No more than one registration is under way.
OneRegisters == \A r, s \in registering : r = s

AccountTypes == AccountsTypeOK /\ OneRegisters

LEMMA AtMostOne ==
  ASSUME NEW S, \A r, s \in S : r = s
  PROVE  Cardinality(S) <= 1
<1>1. CASE S = {}
  BY <1>1, FS_EmptySet
<1>2. CASE S # {}
  <2>1. PICK r : S = {r}
    BY <1>2
  <2>2. Cardinality({r}) = 1
    BY FS_Singleton
  <2> QED BY <2>1, <2>2
<1> QED BY <1>1, <1>2

LEMMA AccountsInitTyped == AccountsInit => AccountTypes
<1> SUFFICES ASSUME AccountsInit PROVE AccountTypes
  OBVIOUS
<1>1. OneRegisters
  BY DEF AccountsInit, OneRegisters
<1> QED BY <1>1, AtMostOne, AccountsAssumption DEF OneRegisters, AccountsInit, AccountTypes, AccountsTypeOK

\* The unique indexes.
Unique(rows) ==
  \A a, b \in rows : a # b => a.username # b.username /\ a.email # b.email /\ (a.sso = NoIdentity \/ a.sso # b.sso)

\* A row the indexes accept keeps them.
LEMMA AcceptedStaysUnique ==
  ASSUME NEW rows \in SUBSET AccountRow, Unique(rows), NEW row \in AccountRow, Accepted(row, rows)
  PROVE  rows \cup {row} \in SUBSET AccountRow /\ Unique(rows \cup {row})
BY DEF Unique, Accepted

LEMMA CopyStaysUnique ==
  ASSUME AccountTypes, NEW i \in Identities, NEW copy \in AccountRow, SaveCopy(i, copy)
  PROVE  account' \in SUBSET AccountRow /\ Unique(account') /\ signedIn' \subseteq Identities
<1> DEFINE others == {a \in account : a.username # copy.username}
<1>1. others \in SUBSET AccountRow /\ Unique(others) /\ Unique(account)
  BY DEF AccountTypes, AccountsTypeOK, Unique
<1>2. Accepted(copy, others) => others \cup {copy} \in SUBSET AccountRow /\ Unique(others \cup {copy})
  BY <1>1, AcceptedStaysUnique
<1> QED BY <1>1, <1>2 DEF SaveCopy, AccountTypes, AccountsTypeOK

LEMMA SsoCallHolds ==
  ASSUME NEW call \in SsoBusy \cup {SsoIdle}
  PROVE  /\ call.pc \in {"link", "update"} => call.row \in AccountRow
         /\ call.pc = "insert" => call.username \in Usernames
BY DEF SsoBusy, SsoIdle

LEMMA SsoCallMoves ==
  ASSUME AccountTypes, NEW i \in Identities, NEW call \in SsoBusy \cup {SsoIdle}, SsoGo(i, call)
  PROVE  ssoCall' \in [Identities -> SsoBusy \cup {SsoIdle}]
BY DEF AccountTypes, AccountsTypeOK, SsoGo

LEMMA AccountsNextTyped == AccountTypes /\ [AccountsNext]_accountVars => AccountTypes'
<1> SUFFICES ASSUME AccountTypes, [AccountsNext]_accountVars PROVE AccountTypes'
  OBVIOUS
<1> USE AccountsAssumption
<1>0. /\ account \in SUBSET AccountRow /\ Unique(account)
      /\ ssoCall \in [Identities -> SsoBusy \cup {SsoIdle}]
      /\ registering \subseteq AccountRow /\ OneRegisters
      /\ registered \in 0..MaxRegistered /\ signedIn \subseteq Identities
  BY DEF AccountTypes, AccountsTypeOK, Unique
<1>a. ASSUME /\ account' \in SUBSET AccountRow /\ Unique(account')
             /\ ssoCall' \in [Identities -> SsoBusy \cup {SsoIdle}]
             /\ registering' \subseteq AccountRow /\ OneRegisters'
             /\ registered' \in 0..MaxRegistered /\ signedIn' \subseteq Identities
      PROVE  AccountTypes'
  <2>1. \A a, b \in account' :
          a # b => a.username # b.username /\ a.email # b.email /\ (a.sso = NoIdentity \/ a.sso # b.sso)
    BY <1>a DEF Unique
  <2>2. Cardinality(registering') <= 1
    BY <1>a, AtMostOne DEF OneRegisters
  <2> QED BY <1>a, <2>1, <2>2 DEF AccountTypes, AccountsTypeOK
<1>1. CASE UNCHANGED accountVars
  BY <1>0, <1>1, <1>a DEF accountVars, OneRegisters
<1>2. ASSUME NEW n \in BaseNames, NEW e \in Emails, Register(n, e) PROVE AccountTypes'
  <2>1. [username |-> <<n, 1>>, email |-> e, sso |-> NoIdentity] \in AccountRow
    BY DEF AccountRow, Usernames
  <2>2. registered' \in 0..MaxRegistered
    BY <1>0, <1>2 DEF Register
  <2> QED BY <1>0, <1>2, <1>a, <2>1, <2>2 DEF Register, OneRegisters
<1>3. CASE SaveRegistered
  <2>1. PICK r \in AccountRow : registering = {r}
    BY <1>0, <1>3 DEF SaveRegistered, OneRegisters
  <2>2. account' = IF Accepted(r, account) THEN account \cup {r} ELSE account
    BY <1>3, <2>1 DEF SaveRegistered
  <2>3. account' \in SUBSET AccountRow /\ Unique(account')
    BY <1>0, <2>2, AcceptedStaysUnique
  <2> QED BY <1>0, <1>3, <1>a, <2>3 DEF SaveRegistered, OneRegisters
<1>4. ASSUME NEW i \in Identities, FindByIdentity(i) \/ FindByEmail(i) PROVE AccountTypes'
  <2>1. UNCHANGED <<account, registering, registered, signedIn>>
    BY <1>4 DEF FindByIdentity, FindByEmail
  <2>2. \A a \in account : {[pc |-> "link", row |-> a], [pc |-> "update", row |-> a]} \subseteq SsoBusy
    BY <1>0 DEF SsoBusy
  <2>3. {[pc |-> "email"], [pc |-> "name"]} \subseteq SsoBusy
    BY DEF SsoBusy
  <2>4. \E call \in SsoBusy \cup {SsoIdle} : SsoGo(i, call)
    BY <1>4, <2>2, <2>3 DEF FindByIdentity, FindByEmail
  <2> QED BY <1>0, <1>a, <2>1, <2>4, SsoCallMoves DEF OneRegisters
<1>5. ASSUME NEW i \in Identities, LinkIdentity(i) \/ UpdateAccount(i) PROVE AccountTypes'
  <2>1. ssoCall[i].row \in AccountRow
    BY <1>0, <1>5, SsoCallHolds DEF LinkIdentity, UpdateAccount, SsoAt
  <2>2. PICK copy \in AccountRow : SaveCopy(i, copy)
    BY <1>5, <2>1 DEF LinkIdentity, UpdateAccount, AccountRow
  <2>3. SsoGo(i, SsoIdle) /\ UNCHANGED <<registering, registered>>
    BY <1>5 DEF LinkIdentity, UpdateAccount
  <2> QED BY <1>0, <1>a, <2>2, <2>3, CopyStaysUnique, SsoCallMoves DEF OneRegisters
<1>6. ASSUME NEW i \in Identities, ResolveUniqueUsername(i) PROVE AccountTypes'
  <2>1. PICK k \in 1..MaxAccounts : SsoGo(i, [pc |-> "insert", username |-> <<LocalPart[EmailOf[i]], k>>])
    BY <1>6 DEF ResolveUniqueUsername
  <2>2. [pc |-> "insert", username |-> <<LocalPart[EmailOf[i]], k>>] \in SsoBusy
    BY DEF SsoBusy, Usernames, BaseNames
  <2> QED BY <1>0, <1>6, <1>a, <2>1, <2>2, SsoCallMoves DEF ResolveUniqueUsername, OneRegisters
<1>7. ASSUME NEW i \in Identities, ProvisionAccount(i) PROVE AccountTypes'
  <2> DEFINE row == [username |-> ssoCall[i].username, email |-> EmailOf[i], sso |-> i]
  <2>1. row \in AccountRow
    BY <1>0, <1>7, SsoCallHolds DEF ProvisionAccount, SsoAt, AccountRow
  <2>2. account' = account \/ (Accepted(row, account) /\ account' = account \cup {row})
    BY <1>7 DEF ProvisionAccount
  <2>3. account' \in SUBSET AccountRow /\ Unique(account')
    BY <1>0, <2>1, <2>2, AcceptedStaysUnique
  <2>4. SsoGo(i, SsoIdle) /\ UNCHANGED <<registering, registered>> /\ signedIn' \subseteq Identities
    BY <1>0, <1>7 DEF ProvisionAccount
  <2> QED BY <1>0, <1>a, <2>3, <2>4, SsoCallMoves DEF OneRegisters
<1>8. ASSUME NEW i \in Identities, SignInAgain(i) PROVE AccountTypes'
  BY <1>0, <1>8, <1>a DEF SignInAgain, OneRegisters
<1> QED BY <1>1, <1>2, <1>3, <1>4, <1>5, <1>6, <1>7, <1>8 DEF AccountsNext, SignInStep

\* The types of the roles.
LEMMA RoleCallHolds ==
  ASSUME NEW call \in RoleBusy \cup {RoleIdle}
  PROVE  /\ call.pc = "grant" => call.new \in GrantRow
         /\ call.pc \in {"revoke", "revokeDept", "flush"} => call.n \in 1..MaxGrants
         /\ call.pc = "revoke" => [call EXCEPT !.pc = "flush"] \in RoleBusy
         /\ call.pc = "delete" => call.role \in Roles
         /\ call.pc = "cache" => call.key \in CacheKeys
BY DEF RoleBusy, RoleIdle

LEMMA RoleGrantsInitTyped == RoleGrantsInit => RoleGrantsTypeOK
BY RoleGrantsAssumption DEF RoleGrantsInit, RoleGrantsTypeOK

LEMMA RoleCallBegins ==
  ASSUME RoleGrantsTypeOK, NEW c \in RoleCalls, NEW call \in RoleBusy, RoleStart(c, call)
  PROVE  RoleGrantsTypeOK'
<1>1. roleCalls' \in 0..MaxRoleCalls
  BY RoleGrantsAssumption DEF RoleGrantsTypeOK, RoleStart
<1> QED BY <1>1 DEF RoleGrantsTypeOK, RoleStart

LEMMA TwoRolesAreARule ==
  ASSUME NEW r \in Roles, NEW s \in Roles, r # s
  PROVE  {r, s} \in SodRules
<1>1. IsFiniteSet({s}) /\ Cardinality({s}) = 1
  BY FS_Singleton
<1>2. Cardinality({s} \cup {r}) = Cardinality({s}) + 1
  BY <1>1, FS_AddElement
<1>3. {s} \cup {r} = {r, s}
  OBVIOUS
<1> QED BY <1>1, <1>2, <1>3 DEF SodRules

LEMMA RoleGrantsNextTyped == RoleGrantsTypeOK /\ [RoleGrantsNext]_roleVars => RoleGrantsTypeOK'
<1> SUFFICES ASSUME RoleGrantsTypeOK, [RoleGrantsNext]_roleVars PROVE RoleGrantsTypeOK'
  OBVIOUS
<1>0. /\ role \in [Roles -> RoleRow] /\ grant \in [1..MaxGrants -> GrantRow]
      /\ postRole \subseteq PositionRoles /\ sodRule \subseteq SodRules
      /\ cache \in [CacheKeys -> {"none", "allow", "deny"}]
      /\ roleCall \in [RoleCalls -> RoleBusy \cup {RoleIdle}]
      /\ roleCalls \in 0..MaxRoleCalls /\ MaxRoleCalls \in Nat
  BY RoleGrantsAssumption DEF RoleGrantsTypeOK
<1>1. CASE UNCHANGED roleVars
  BY <1>1 DEF roleVars, RoleGrantsTypeOK
<1>2. ASSUME NEW c \in RoleCalls, NEW u \in RoleUsers, NEW d \in Depts, Decide(c, u, d) PROVE RoleGrantsTypeOK'
  <2>1. GrantedByRole(u, d) \in BOOLEAN
    BY DEF GrantedByRole
  <2>2. [pc |-> "cache", key |-> <<u, d>>, allowed |-> GrantedByRole(u, d)] \in RoleBusy
    BY <2>1 DEF RoleBusy, CacheKeys
  <2> QED BY <1>2, <2>2, RoleCallBegins DEF Decide
<1>3. ASSUME NEW c \in RoleCalls, NEW u \in RoleUsers, NEW r \in Roles, NEW d \in Depts,
             AssignRoleToUser(c, u, r, d) \/ \E a \in RoleUsers : GrantDeptRole(c, a, u, r, d)
      PROVE  RoleGrantsTypeOK'
  <2>1. [pc |-> "grant", new |-> NewGrant(u, r, d)] \in RoleBusy
    BY DEF RoleBusy, NewGrant, GrantRow
  <2> QED BY <1>3, <2>1, RoleCallBegins DEF AssignRoleToUser, GrantDeptRole
<1>4. ASSUME NEW c \in RoleCalls, NEW n \in 1..MaxGrants, RevokeUserRole(c, n) \/ \E a \in RoleUsers : RevokeDeptRole(c, a, n)
      PROVE  RoleGrantsTypeOK'
  <2>1. [pc |-> "revoke", n |-> n] \in RoleBusy /\ [pc |-> "revokeDept", n |-> n] \in RoleBusy
    BY DEF RoleBusy
  <2> QED BY <1>4, <2>1, RoleCallBegins DEF RevokeUserRole, RevokeDeptRole
<1>5. ASSUME NEW c \in RoleCalls, NEW r \in Roles, DeleteRole(c, r) PROVE RoleGrantsTypeOK'
  <2>1. [pc |-> "delete", role |-> r] \in RoleBusy
    BY DEF RoleBusy
  <2> QED BY <1>5, <2>1, RoleCallBegins DEF DeleteRole
<1>6. ASSUME NEW c \in RoleCalls, StoreDecision(c) \/ AbortRoleCall(c) PROVE RoleGrantsTypeOK'
  <2>1. cache' \in [CacheKeys -> {"none", "allow", "deny"}]
    BY <1>0, <1>6 DEF StoreDecision, AbortRoleCall
  <2> QED BY <1>0, <1>6, <2>1 DEF StoreDecision, AbortRoleCall, RoleEnd, RoleGrantsTypeOK
<1>7. ASSUME NEW c \in RoleCalls, InsertGrant(c) PROVE RoleGrantsTypeOK'
  <2>1. roleCall[c].new \in GrantRow
    BY <1>0, <1>7, RoleCallHolds DEF InsertGrant, RoleAt
  <2>2. grant' \in [1..MaxGrants -> GrantRow]
    BY <1>0, <1>7, <2>1 DEF InsertGrant
  <2> QED BY <1>0, <1>7, <2>2 DEF InsertGrant, RoleEnd, RoleGrantsTypeOK
<1>8. ASSUME NEW c \in RoleCalls, SaveRevoked(c) PROVE RoleGrantsTypeOK'
  <2>1. roleCall[c].n \in 1..MaxGrants /\ (roleCall[c].pc = "revoke" => [roleCall[c] EXCEPT !.pc = "flush"] \in RoleBusy)
    BY <1>0, <1>8, RoleCallHolds DEF SaveRevoked
  <2>2. grant' \in [1..MaxGrants -> GrantRow]
    BY <1>0, <1>8, <2>1 DEF SaveRevoked, Revoked, GrantRow
  <2>3. roleCall' \in [RoleCalls -> RoleBusy \cup {RoleIdle}] /\ roleCalls' = roleCalls
    BY <1>0, <1>8, <2>1 DEF SaveRevoked, RoleAt, RoleEnd
  <2> QED BY <1>0, <1>8, <2>2, <2>3 DEF SaveRevoked, RoleGrantsTypeOK
<1>9. ASSUME NEW c \in RoleCalls, InvalidateUserCache(c) PROVE RoleGrantsTypeOK'
  <2>1. cache' \in [CacheKeys -> {"none", "allow", "deny"}]
    BY <1>0, <1>9 DEF InvalidateUserCache
  <2> QED BY <1>0, <1>9, <2>1 DEF InvalidateUserCache, RoleEnd, RoleGrantsTypeOK
<1>10. ASSUME NEW c \in RoleCalls, DropRole(c) PROVE RoleGrantsTypeOK'
  <2> DEFINE r == roleCall[c].role
  <2>1. role' = RoleTableWithout(r) /\ grant' = [n \in 1..MaxGrants |-> IF grant[n].role = r THEN [grant[n] EXCEPT !.status = "absent"] ELSE grant[n]]
    BY <1>10 DEF DropRole
  <2>2. postRole' \subseteq postRole /\ sodRule' \subseteq sodRule /\ RoleEnd(c) /\ UNCHANGED cache
    BY <1>10 DEF DropRole
  <2> HIDE DEF r
  <2>3. role' \in [Roles -> RoleRow]
    BY <1>0, <2>1 DEF RoleTableWithout, RoleRow
  <2>4. grant' \in [1..MaxGrants -> GrantRow]
    BY <1>0, <2>1 DEF GrantRow
  <2> QED BY <1>0, <2>2, <2>3, <2>4 DEF RoleEnd, RoleGrantsTypeOK
<1>11. ASSUME NEW k \in CacheKeys, DecisionExpires(k) PROVE RoleGrantsTypeOK'
  BY <1>0, <1>11 DEF DecisionExpires, RoleGrantsTypeOK
<1>12. ASSUME NEW n \in 1..MaxGrants, GrantExpires(n) PROVE RoleGrantsTypeOK'
  <2>1. grant' \in [1..MaxGrants -> GrantRow]
    BY <1>0, <1>12 DEF GrantExpires, GrantRow
  <2> QED BY <1>0, <1>12, <2>1 DEF GrantExpires, RoleGrantsTypeOK
<1>13. ASSUME NEW r \in Roles, NEW p \in Roles \cup {NoRole}, NEW b \in BOOLEAN, CreateRole(r, p, b) PROVE RoleGrantsTypeOK'
  <2>1. role' \in [Roles -> RoleRow]
    BY <1>0, <1>13 DEF CreateRole, RoleRow
  <2>2. roleCalls' \in 0..MaxRoleCalls
    BY <1>0, <1>13 DEF CreateRole
  <2> QED BY <1>0, <1>13, <2>1, <2>2 DEF CreateRole, RoleGrantsTypeOK
<1>14. ASSUME NEW u \in RoleUsers, NEW r \in Roles, AssignRoleToPosition(u, r) PROVE RoleGrantsTypeOK'
  <2>1. roleCalls' \in 0..MaxRoleCalls
    BY <1>0, <1>14 DEF AssignRoleToPosition
  <2> QED BY <1>0, <1>14, <2>1 DEF AssignRoleToPosition, PositionRoles, RoleGrantsTypeOK
<1>15. ASSUME NEW u \in RoleUsers, NEW r \in Roles, RevokeRoleFromPosition(u, r) PROVE RoleGrantsTypeOK'
  <2>1. cache' \in [CacheKeys -> {"none", "allow", "deny"}]
    BY <1>0, <1>15 DEF RevokeRoleFromPosition
  <2> QED BY <1>0, <1>15, <2>1 DEF RevokeRoleFromPosition, RoleGrantsTypeOK
<1>16. ASSUME NEW r \in Roles, NEW s \in Roles, CreateSodRule(r, s) PROVE RoleGrantsTypeOK'
  <2>1. roleCalls' \in 0..MaxRoleCalls
    BY <1>0, <1>16 DEF CreateSodRule
  <2>2. sodRule' \subseteq SodRules
    BY <1>0, <1>16, TwoRolesAreARule DEF CreateSodRule
  <2> QED BY <1>0, <1>16, <2>1, <2>2 DEF CreateSodRule, RoleGrantsTypeOK
<1> QED BY <1>1, <1>2, <1>3, <1>4, <1>5, <1>6, <1>7, <1>8, <1>9, <1>10, <1>11, <1>12, <1>13, <1>14, <1>15, <1>16
        DEF RoleGrantsNext, RoleCallStep

-----------------------------------------------------------------------------
\* The types of the connections.
\* A socket stays in the map of its instance until its disconnect drops it.
DroppedLast == \A s \in connections : StepOf(s, "disconnect") = "idle" => socket[s] = "open"

LEMMA GatewayTyped ==
  ASSUME GatewayInv, DroppedLast, presence \in PresenceStatuses, disturbed \in BOOLEAN
  PROVE  RealtimeGatewayTypeOK
<1>1. \A s \in connections : handler[s, "disconnect"] = HandlerIdle => socket[s] = "open"
  <2> SUFFICES ASSUME NEW s \in connections, handler[<<s, "disconnect">>] = HandlerIdle PROVE socket[s] = "open"
    OBVIOUS
  <2>1. handler[<<s, "disconnect">>].pc = "idle"
    BY DEF HandlerIdle
  <2> QED BY <2>1 DEF DroppedLast, StepOf
<1> QED BY <1>1 DEF GatewayInv, GatewayTypes, RealtimeGatewayTypeOK

LEMMA DroppedLastInit == RealtimeGatewayInit => DroppedLast /\ disturbed = FALSE
BY DEF RealtimeGatewayInit, DroppedLast

LEMMA DroppedLastNext ==
  GatewayInv /\ GatewayInv' /\ DroppedLast /\ [RealtimeGatewayNext]_gatewayVars => DroppedLast'
<1> SUFFICES ASSUME GatewayInv, GatewayInv', DroppedLast, [RealtimeGatewayNext]_gatewayVars PROVE DroppedLast'
  OBVIOUS
<1>0. /\ handler \in [Sockets \X SocketEvents -> Handler] /\ connections \subseteq Sockets
      /\ socket \in [Sockets -> {"new", "open", "closed"}] /\ \A s \in Sockets : SocketIsTyped(s)
  BY DEF GatewayInv, GatewayTypes
<1> USE DEF StepOf
<1>1. ASSUME NEW s \in Sockets, HandleConnection(s) PROVE DroppedLast'
  <2>1. handler' = [handler EXCEPT ![<<s, "connect">>] = [HandlerIdle EXCEPT !.pc = "regRead", !.status = "online"]]
    BY <1>1 DEF HandleConnection, GatewayBegin
  <2>2. \A t \in Sockets : handler'[<<t, "disconnect">>] = handler[<<t, "disconnect">>]
    BY <1>0, <2>1 DEF SocketEvents
  <2> QED BY <1>0, <1>1, <2>2 DEF HandleConnection, DroppedLast
<1>2. ASSUME NEW s \in Sockets, HandleDisconnect(s) PROVE DroppedLast'
  <2>1. handler' = [handler EXCEPT ![<<s, "disconnect">>] = [HandlerIdle EXCEPT !.pc = "regRead", !.status = "offline"]]
    BY <1>2 DEF HandleDisconnect, GatewayBegin
  <2>2. handler'[<<s, "disconnect">>].pc = "regRead"
        /\ \A t \in Sockets : t # s => handler'[<<t, "disconnect">>] = handler[<<t, "disconnect">>]
    BY <1>0, <2>1 DEF SocketEvents, HandlerIdle
  <2> QED BY <1>0, <1>2, <2>2 DEF HandleDisconnect, DroppedLast
<1>3. ASSUME NEW s \in Sockets, OnHeartbeat(s) \/ \E status \in PresenceStatuses : OnSetPresence(s, status) PROVE DroppedLast'
  <2>1. PICK e \in {"heartbeat", "set"} : \E pc, status : GatewayBegin(<<s, e>>, pc, status)
    BY <1>3 DEF OnHeartbeat, OnSetPresence
  <2>2. \A t \in Sockets : handler'[<<t, "disconnect">>] = handler[<<t, "disconnect">>]
    BY <1>0, <2>1 DEF SocketEvents, GatewayBegin
  <2>3. UNCHANGED <<socket, connections>>
    BY <1>3 DEF OnHeartbeat, OnSetPresence
  <2> QED BY <1>0, <2>2, <2>3 DEF DroppedLast
<1>4. ASSUME NEW h \in Sockets \X SocketEvents, HandlerStep(h) PROVE DroppedLast'
  <2>1. PICK s \in Sockets, e \in SocketEvents : h = <<s, e>>
    OBVIOUS
  <2>2. UNCHANGED socket
    BY <1>4 DEF HandlerStep, ReadRegistry, WriteRegistry, CheckRemaining, DropConnection, Beat, BeatWrite, WritePresence
  <2>3. connections' \subseteq connections
    BY <1>4 DEF HandlerStep, ReadRegistry, WriteRegistry, CheckRemaining, DropConnection, Beat, BeatWrite, WritePresence
  <2>4. \A g \in Sockets \X SocketEvents : g # h => handler'[g] = handler[g]
    <3>1. CASE ReadRegistry(h)
      BY <1>0, <3>1 DEF ReadRegistry
    <3>2. CASE \E pc : GatewayGo(h, pc)
      BY <1>0, <3>2 DEF GatewayGo
    <3> QED BY <1>4, <3>1, <3>2 DEF HandlerStep, WriteRegistry, CheckRemaining, DropConnection, Beat, BeatWrite, WritePresence
  <2>5. CASE e = "disconnect"
    <3>1. handler[h].pc \in {"regRead", "regWrite", "remaining", "presWrite", "drop"}
      <4>1. handler[h].pc \in {"idle", "regRead", "regWrite", "remaining", "presWrite", "drop"}
        BY <1>0, <2>1, <2>5 DEF SocketIsTyped
      <4> QED BY <1>4, <4>1 DEF HandlerStep, ReadRegistry, WriteRegistry, CheckRemaining, DropConnection, Beat, BeatWrite, WritePresence, GatewayAt
    <3>2. CASE DropConnection(h)
      <4>1. s \notin connections'
        BY <2>1, <3>2 DEF DropConnection
      <4> QED BY <1>0, <2>1, <2>2, <2>3, <2>4, <4>1 DEF DroppedLast, SocketEvents
    <3>3. CASE ~DropConnection(h)
      <4>1. handler'[h].pc # "idle"
        <5>1. ReadRegistry(h) \/ WriteRegistry(h) \/ CheckRemaining(h) \/ WritePresence(h)
          BY <1>4, <3>1, <3>3 DEF HandlerStep, Beat, BeatWrite, GatewayAt
        <5>2. CASE ReadRegistry(h)
          <6>1. handler'[h].pc = (IF h[2] = "heartbeat" /\ h[1] \notin registry THEN "beat" ELSE "regWrite")
            BY <1>0, <5>2 DEF ReadRegistry, Handler
          <6> QED BY <6>1
        <5>3. CASE ~ReadRegistry(h)
          BY <1>0, <2>1, <2>5, <5>1, <5>3 DEF WriteRegistry, CheckRemaining, WritePresence, GatewayGo, HandlerIdle
        <5> QED BY <5>2, <5>3
      <4> QED BY <1>0, <2>1, <2>2, <2>3, <2>4, <2>5, <4>1 DEF DroppedLast, SocketEvents
    <3> QED BY <3>2, <3>3
  <2>6. CASE e # "disconnect"
    <3>1. \A t \in Sockets : handler'[<<t, "disconnect">>] = handler[<<t, "disconnect">>]
      BY <2>1, <2>4, <2>6 DEF SocketEvents
    <3> QED BY <1>0, <2>2, <2>3, <3>1 DEF DroppedLast
  <2> QED BY <2>5, <2>6
<1>5. CASE RegistryExpires \/ PresenceExpires \/ UNCHANGED gatewayVars
  BY <1>5 DEF RegistryExpires, PresenceExpires, gatewayVars, DroppedLast
<1>6. ASSUME NEW i, InstanceStops(i) PROVE DroppedLast'
  BY <1>0, <1>6 DEF InstanceStops, DroppedLast, SocketEvents
<1> QED BY <1>1, <1>2, <1>3, <1>4, <1>5, <1>6 DEF RealtimeGatewayNext

LEMMA PresenceTypedNext ==
  GatewayInv /\ presence \in PresenceStatuses /\ disturbed \in BOOLEAN /\ [RealtimeGatewayNext]_gatewayVars
  => presence' \in PresenceStatuses /\ disturbed' \in BOOLEAN
<1> SUFFICES ASSUME GatewayInv, presence \in PresenceStatuses, disturbed \in BOOLEAN, [RealtimeGatewayNext]_gatewayVars
             PROVE  presence' \in PresenceStatuses /\ disturbed' \in BOOLEAN
  OBVIOUS
<1>1. \A h \in Sockets \X SocketEvents : handler[h].status \in PresenceStatuses
  BY DEF GatewayInv, GatewayTypes, Handler
<1>2. ASSUME NEW h \in Sockets \X SocketEvents, HandlerStep(h) PROVE presence' \in PresenceStatuses /\ disturbed' \in BOOLEAN
  BY <1>1, <1>2 DEF HandlerStep, ReadRegistry, WriteRegistry, CheckRemaining, DropConnection, Beat, BeatWrite, WritePresence,
     Overtaken, PresenceStatuses
<1>3. CASE ~ \E h \in Sockets \X SocketEvents : HandlerStep(h)
  BY <1>3 DEF RealtimeGatewayNext, HandleConnection, HandleDisconnect, OnHeartbeat, OnSetPresence,
     RegistryExpires, PresenceExpires, InstanceStops, gatewayVars, PresenceStatuses
<1> QED BY <1>2, <1>3

\* The powers of two are numbers.
LEMMA PowersAreNumbers ==
  ASSUME NEW n \in Nat
  PROVE  2^n \in Nat \ {0}
<1>1. IsFiniteSet(1..n) /\ Cardinality(1..n) = n
  BY FS_Interval
<1>2. IsFiniteSet(SUBSET (1..n)) /\ Cardinality(SUBSET (1..n)) = 2^n
  BY <1>1, FS_SUBSET
<1>3. Cardinality(SUBSET (1..n)) # 0
  BY <1>2, FS_EmptySet
<1>4. Cardinality(SUBSET (1..n)) \in Nat
  BY <1>2, FS_CardinalityType
<1> QED BY <1>2, <1>3, <1>4

\* The delay of a reconnect stays below its cap.
LEMMA DelayStaysTyped ==
  ASSUME delay \in 1..MaxDelay, NEW n \in Nat
  PROVE  DelayAfter(n) \in 1..MaxDelay
<1>1. PICK p \in Nat \ {0} : p = 2^n
  BY PowersAreNumbers
<1>2. MaxDelay \in Nat \ {0} /\ delay \in Nat \ {0}
  BY GatewayFanoutAssumption
<1>3. delay * p \in Nat \ {0}
  <2>1. \A a, b \in Nat \ {0} : a * b \in Nat \ {0}
    OBVIOUS
  <2> QED BY <1>1, <1>2, <2>1
<1>4. DelayAfter(n) = IF delay * p < MaxDelay THEN delay * p ELSE MaxDelay
  BY <1>1 DEF DelayAfter
<1>5. CASE delay * p < MaxDelay
  <2>1. \A a \in Nat \ {0} : a < MaxDelay => a \in 1..MaxDelay
    BY <1>2
  <2> QED BY <1>3, <1>4, <1>5, <2>1
<1> QED BY <1>2, <1>4, <1>5

LEMMA FanoutInitTyped == GatewayFanoutInit => GatewayFanoutTypeOK
<1> SUFFICES ASSUME GatewayFanoutInit PROVE GatewayFanoutTypeOK
  OBVIOUS
<1>1. <<>> \in Seq(1..MaxRoomEvents)
  OBVIOUS
<1>2. NoLink \in Link
  BY <1>1 DEF NoLink, Link
<1>3. 1 \in 0..MaxReconnect
  BY GatewayFanoutAssumption
<1>4. 1 \in 1..MaxDelay /\ 0 \in 0..MaxOutages /\ 0 \in 0..MaxRoomEvents
  BY GatewayFanoutAssumption
<1>5. link \in [Links -> Link] /\ \A k \in Links : link[k] = NoLink
  BY <1>2 DEF GatewayFanoutInit
<1> QED BY <1>1, <1>3, <1>4, <1>5 DEF GatewayFanoutInit, GatewayFanoutTypeOK

LEMMA FanoutNextTyped == GatewayFanoutTypeOK /\ [GatewayFanoutNext]_fanoutVars => GatewayFanoutTypeOK'
<1> SUFFICES ASSUME GatewayFanoutTypeOK, [GatewayFanoutNext]_fanoutVars PROVE GatewayFanoutTypeOK'
  OBVIOUS
<1> DEFINE Events == 1..MaxRoomEvents
<1>0. /\ brokerUp \in BOOLEAN /\ outages \in 0..MaxOutages /\ link \in [Links -> Link]
      /\ ~brokerUp => \A k \in Links : link[k] = NoLink
      /\ timers \in 0..MaxReconnect /\ delay \in 1..MaxDelay /\ publisher \in {"none", "open", "broken"}
      /\ roomEvents \in 0..MaxRoomEvents /\ joined \in BOOLEAN /\ received \in Seq(Events) /\ doubled \in BOOLEAN
      /\ MaxReconnect \in Nat /\ MaxDelay \in Nat \ {0} /\ MaxRoomEvents \in Nat /\ MaxOutages \in Nat
  BY GatewayFanoutAssumption DEF GatewayFanoutTypeOK
<1>a. NoLink \in Link /\ NoLink.state = "none" /\ NoLink.queue = <<>>
  <2>1. <<>> \in Seq(1..MaxRoomEvents)
    OBVIOUS
  <2> QED BY <2>1 DEF NoLink, Link
<1>b. \A k \in Links : link[k].state \in {"none", "setup", "consuming"} /\ link[k].queue \in Seq(Events)
  BY <1>0 DEF Link
<1>1. ASSUME NEW k \in Links, Connect(k) \/ Consume(k) PROVE GatewayFanoutTypeOK'
  <2>1. PICK st \in {"setup", "consuming"} : link' = [link EXCEPT ![k].state = st]
    BY <1>1 DEF Connect, Consume
  <2>2. link' \in [Links -> Link]
    BY <1>0, <1>b, <2>1 DEF Link
  <2>3. brokerUp
    BY <1>0, <1>1, <1>a DEF Connect, Consume
  <2>4. timers' \in 0..MaxReconnect /\ delay' \in 1..MaxDelay
    BY <1>0, <1>1 DEF Connect, Consume
  <2> QED BY <1>0, <1>1, <2>2, <2>3, <2>4 DEF Connect, Consume, GatewayFanoutTypeOK
<1>2. ASSUME NEW broken \in SUBSET Links, NEW up \in BOOLEAN, Break(broken, up),
             up => brokerUp, ~up => broken = Links,
             publisher' \in {"none", "open", "broken"}, UNCHANGED <<roomEvents, joined, received>>
      PROVE  GatewayFanoutTypeOK'
  <2> DEFINE setup == {k \in broken : link[k].state = "setup"}
             lost == {k \in broken : link[k].state # "none"}
  <2>1. /\ outages < MaxOutages /\ outages' = outages + 1 /\ brokerUp' = up
        /\ link' = [k \in Links |-> IF k \in broken THEN NoLink ELSE link[k]]
        /\ ScheduleReconnect(Cardinality(lost) + Cardinality(setup))
        /\ doubled' = (doubled \/ setup # {})
    BY <1>2 DEF Break
  <2>2. Cardinality(lost) \in Nat /\ Cardinality(setup) \in Nat
    <3>1. IsFiniteSet(Links) /\ lost \subseteq Links /\ setup \subseteq Links
      BY GatewayFanoutAssumption
    <3>2. IsFiniteSet(lost) /\ IsFiniteSet(setup)
      BY <3>1, FS_Subset
    <3> QED BY <3>2, FS_CardinalityType
  <2> HIDE DEF lost, setup
  <2>3. PICK n \in Nat : n = Cardinality(lost) + Cardinality(setup)
    <3>1. \A a, b \in Nat : \E n \in Nat : n = a + b
      OBVIOUS
    <3> QED BY <2>2, <3>1
  <2>4. timers' \in 0..MaxReconnect /\ delay' = DelayAfter(n)
    BY <1>0, <2>1, <2>3 DEF ScheduleReconnect
  <2>5. delay' \in 1..MaxDelay
    BY <1>0, <2>4, DelayStaysTyped
  <2>6. link' \in [Links -> Link] /\ (~brokerUp' => \A k \in Links : link'[k] = NoLink)
    BY <1>0, <1>2, <1>a, <2>1
  <2>7. outages' \in 0..MaxOutages /\ doubled' \in BOOLEAN
    BY <1>0, <2>1
  <2> QED BY <1>0, <1>2, <2>1, <2>4, <2>5, <2>6, <2>7 DEF GatewayFanoutTypeOK
<1>3. ASSUME NEW k \in Links, ConnectionCloses(k) PROVE GatewayFanoutTypeOK'
  <2>1. brokerUp
    BY <1>0, <1>3, <1>a DEF ConnectionCloses
  <2> QED BY <1>0, <1>2, <1>3, <2>1 DEF ConnectionCloses
<1>4. CASE BrokerStops
  BY <1>0, <1>2, <1>4 DEF BrokerStops
<1>5. CASE BrokerStarts
  BY <1>0, <1>5 DEF BrokerStarts, GatewayFanoutTypeOK
<1>6. CASE ConnectFails
  <2>1. delay' \in 1..MaxDelay
    BY <1>0, <1>6, DelayStaysTyped DEF ConnectFails
  <2> QED BY <1>0, <1>6, <2>1 DEF ConnectFails, GatewayFanoutTypeOK
<1>7. CASE PublishToRoom
  <2> DEFINE opens == publisher = "open" \/ (publisher = "none" /\ brokerUp)
  <2>1. /\ roomEvents + 1 \in Events /\ roomEvents' = roomEvents + 1
        /\ publisher' = IF opens THEN "open" ELSE publisher
        /\ link' = [k \in Links |-> IF opens /\ link[k].state = "consuming"
                                      THEN [link[k] EXCEPT !.queue = Append(@, roomEvents + 1)] ELSE link[k]]
        /\ UNCHANGED <<brokerUp, outages, timers, delay, joined, received, doubled>>
    BY <1>0, <1>7 DEF PublishToRoom
  <2> HIDE DEF opens
  <2>2. ASSUME NEW k \in Links PROVE link'[k] \in Link /\ (link[k] = NoLink => link'[k] = NoLink)
    <3>1. Append(link[k].queue, roomEvents + 1) \in Seq(Events)
      <4> HIDE DEF Events
      <4> QED BY <1>b, <2>1
    <3>2. [link[k] EXCEPT !.queue = Append(@, roomEvents + 1)] \in Link
      BY <1>0, <1>b, <3>1 DEF Link
    <3> QED BY <1>0, <1>a, <2>1, <3>2
  <2>3. link' \in [Links -> Link]
    BY <2>1, <2>2
  <2>4. roomEvents' \in 0..MaxRoomEvents /\ publisher' \in {"none", "open", "broken"}
    BY <1>0, <2>1
  <2> QED BY <1>0, <2>1, <2>2, <2>3, <2>4 DEF GatewayFanoutTypeOK
<1>8. ASSUME NEW k \in Links, HandleMessage(k) PROVE GatewayFanoutTypeOK'
  <2>1. link[k].queue \in Seq(Events) /\ link[k].queue # <<>>
    BY <1>b, <1>8 DEF HandleMessage
  <2>2. Head(link[k].queue) \in Events /\ Tail(link[k].queue) \in Seq(Events)
    <3> HIDE DEF Events
    <3> QED BY <2>1
  <2>3. link' \in [Links -> Link]
    <3>1. link' = [link EXCEPT ![k] = [link[k] EXCEPT !.queue = Tail(link[k].queue)]]
      BY <1>0, <1>8 DEF HandleMessage, Link
    <3>2. [link[k] EXCEPT !.queue = Tail(link[k].queue)] \in Link
      BY <1>0, <1>b, <2>2 DEF Link
    <3> QED BY <1>0, <3>1, <3>2
  <2>4. brokerUp
    BY <1>0, <1>a, <2>1
  <2>5. received' \in Seq(Events)
    <3>1. Append(received, Head(link[k].queue)) \in Seq(Events)
      <4> HIDE DEF Events
      <4> QED BY <1>0, <2>2
    <3> QED BY <1>0, <1>8, <3>1 DEF HandleMessage
  <2> QED BY <1>0, <1>8, <2>3, <2>4, <2>5 DEF HandleMessage, GatewayFanoutTypeOK
<1>9. ASSUME NEW wanted \in BOOLEAN, OnChannelSubscribe(wanted) PROVE GatewayFanoutTypeOK'
  BY <1>0, <1>9 DEF OnChannelSubscribe, GatewayFanoutTypeOK
<1>10. CASE UNCHANGED fanoutVars
  BY <1>0, <1>10 DEF fanoutVars, GatewayFanoutTypeOK
<1> QED BY <1>1, <1>3, <1>4, <1>5, <1>6, <1>7, <1>8, <1>9, <1>10 DEF GatewayFanoutNext

-----------------------------------------------------------------------------
\* The types of the recordings.
\* The recordings a step of the backend, a message or the media server names.
Named(n) ==
  \/ n \in stopping \/ (\E e \in recordingEvent : e[2] = n) \/ n \in recordingsById
  \/ (\E i \in 1..Len(command) : command[i][2] = n)
  \/ pipeline[n] # "none" \/ stops[n] > 0

\* Whatever names a recording names one that has a row, and every start that
\* passed the check finds a number.
RecordingTypes ==
  /\ CallRecordingsTypeOK
  /\ \A n \in Recordings : Named(n) => recording[n] # "none"
  /\ starting <= Cardinality(Unused)

LEMMA RecordingsAreFinite ==
  /\ IsFiniteSet(Recordings)
  /\ \A S \in SUBSET Recordings : IsFiniteSet(S) /\ Cardinality(S) \in Nat
  /\ \A S \in SUBSET Recordings : Cardinality(S) # 0 => S # {}
  /\ \A S \in SUBSET Recordings, n \in Recordings : n \in S => Cardinality(S \ {n}) = Cardinality(S) - 1
<1>1. IsFiniteSet(Recordings)
  BY CallRecordingsAssumption, FS_Interval DEF Recordings
<1>2. \A S \in SUBSET Recordings : IsFiniteSet(S) /\ Cardinality(S) \in Nat
  BY <1>1, FS_Subset, FS_CardinalityType
<1>3. \A S \in SUBSET Recordings, n \in Recordings : n \in S => Cardinality(S \ {n}) = Cardinality(S) - 1
  BY <1>2, FS_RemoveElement
<1> QED BY <1>1, <1>2, <1>3, FS_EmptySet

LEMMA RecordingsInitTyped == CallRecordingsInit => RecordingTypes
<1> SUFFICES ASSUME CallRecordingsInit PROVE RecordingTypes
  OBVIOUS
<1>1. CallRecordingsTypeOK
  <2>1. <<>> \in Seq(Command) /\ 0 \in 0..MaxRecordings /\ 0 \in 0..MaxFaults
    BY CallRecordingsAssumption
  <2>2. recording \in [Recordings -> RecordingStatus] /\ pipeline \in [Recordings -> {"none", "mkdir", "tracks", "running"}]
        /\ stops \in [Recordings -> Nat]
    BY DEF CallRecordingsInit, RecordingStatus
  <2>3. artifact = {} /\ stopping = {} /\ recordingsById = {} /\ gapMet = {} /\ starting = 0
    BY DEF CallRecordingsInit
  <2>4. artifact \cup stopping \cup recordingsById \cup gapMet \subseteq Recordings
    BY <2>3
  <2>5. callEnded \in BOOLEAN /\ inMedia \in BOOLEAN /\ recordingEvent \subseteq RecordingEvent
    BY DEF CallRecordingsInit
  <2>7. starting \in 0..2
    BY <2>3
  <2>6. command \in Seq(Command) /\ recordingIdBySessionId = 0 /\ faults \in 0..MaxFaults
    BY <2>1 DEF CallRecordingsInit
  <2> QED BY <2>1, <2>2, <2>4, <2>5, <2>6, <2>7 DEF CallRecordingsTypeOK
<1>2. \A n \in Recordings : ~Named(n)
  BY DEF CallRecordingsInit, Named
<1>3. starting <= Cardinality(Unused)
  <2>1. Unused \in SUBSET Recordings /\ starting = 0
    BY DEF Unused, CallRecordingsInit
  <2> QED BY <2>1, RecordingsAreFinite
<1> QED BY <1>1, <1>2, <1>3 DEF RecordingTypes

\* The least number that is not in use, when there is one.
LEMMA LeastUnused ==
  ASSUME CallRecordingsTypeOK, Unused # {}
  PROVE  (CHOOSE n \in Unused : \A m \in Unused : n <= m) \in Unused
<1>1. Unused \subseteq Nat
  BY CallRecordingsAssumption DEF Unused, Recordings
<1>2. \E n \in Unused : \A m \in Unused : n <= m
  BY <1>1, MinOfNat
<1> QED BY <1>2

\* The recordings that have a row keep it, and a step names no other.
LEMMA NamesStay ==
  ASSUME RecordingTypes, CallRecordingsTypeOK',
         \A n \in Recordings : Named(n)' => Named(n) \/ recording'[n] # "none",
         \A n \in Recordings : recording'[n] = "none" <=> recording[n] = "none",
         starting' <= starting
  PROVE  RecordingTypes'
<1>1. Unused' = Unused
  BY DEF Unused
<1>2. starting \in Int /\ starting' \in Int /\ Cardinality(Unused) \in Nat
  BY RecordingsAreFinite DEF RecordingTypes, CallRecordingsTypeOK, Unused
<1>3. \A a, b, c \in Int : a <= b /\ b <= c => a <= c
  OBVIOUS
<1>4. starting' <= Cardinality(Unused)'
  BY <1>1, <1>2, <1>3 DEF RecordingTypes
<1>5. \A n \in Recordings : Named(n)' => recording'[n] # "none"
  BY DEF RecordingTypes
<1> QED BY <1>4, <1>5 DEF RecordingTypes

\* What a sequence holds after one more.
LEMMA OneMore ==
  ASSUME NEW S, NEW s \in Seq(S), NEW c \in S
  PROVE  /\ Append(s, c) \in Seq(S)
         /\ \A i \in 1..Len(Append(s, c)) : Append(s, c)[i] = c \/ \E j \in 1..Len(s) : Append(s, c)[i] = s[j]
OBVIOUS

LEMMA OneLess ==
  ASSUME NEW S, NEW s \in Seq(S), s # <<>>
  PROVE  /\ Tail(s) \in Seq(S) /\ Head(s) \in S /\ 1 \in 1..Len(s) /\ Head(s) = s[1]
         /\ \A i \in 1..Len(Tail(s)) : \E j \in 1..Len(s) : Tail(s)[i] = s[j]
<1>1. \A i \in 1..Len(Tail(s)) : i + 1 \in 1..Len(s) /\ Tail(s)[i] = s[i + 1]
  OBVIOUS
<1> QED BY <1>1

LEMMA RecordingsNextTyped == RecordingTypes /\ [CallRecordingsNext]_recordingVars => RecordingTypes'
<1> SUFFICES ASSUME RecordingTypes, [CallRecordingsNext]_recordingVars PROVE RecordingTypes'
  OBVIOUS
<1>0. /\ recording \in [Recordings -> RecordingStatus]
      /\ artifact \cup stopping \cup recordingsById \cup gapMet \subseteq Recordings
      /\ callEnded \in BOOLEAN /\ starting \in 0..2 /\ command \in Seq(Command)
      /\ recordingEvent \subseteq RecordingEvent /\ inMedia \in BOOLEAN
      /\ pipeline \in [Recordings -> {"none", "mkdir", "tracks", "running"}]
      /\ recordingIdBySessionId \in 0..MaxRecordings
      /\ recordingIdBySessionId # 0 => recordingIdBySessionId \in recordingsById
      /\ stops \in [Recordings -> Nat] /\ faults \in 0..MaxFaults
  BY DEF RecordingTypes, CallRecordingsTypeOK
<1>a. /\ \A n \in Recordings : Named(n) => recording[n] # "none"
      /\ starting <= Cardinality(Unused) /\ Unused \in SUBSET Recordings /\ Cardinality(Unused) \in Nat
  BY RecordingsAreFinite DEF RecordingTypes, Unused
<1>b. MaxRecordings \in Nat /\ MaxFaults \in Nat /\ Recordings = 1..MaxRecordings
  BY CallRecordingsAssumption DEF Recordings
<1>1. CASE StartRecording
  <2>1. /\ starting < 2 /\ starting < Cardinality(Unused) /\ starting' = starting + 1
        /\ UNCHANGED <<recording, artifact, callEnded, stopping, command, recordingEvent, mediaRecordingVars, faults, gapMet>>
    BY <1>1 DEF StartRecording
  <2>2. starting' \in 0..2 /\ starting' <= Cardinality(Unused)
    BY <1>0, <1>a, <2>1
  <2>3. CallRecordingsTypeOK'
    BY <1>0, <2>1, <2>2 DEF CallRecordingsTypeOK, mediaRecordingVars
  <2> QED BY <1>a, <2>1, <2>2, <2>3 DEF RecordingTypes, Named, Unused, mediaRecordingVars
<1>2. CASE SaveRecording
  <2> DEFINE n == CHOOSE n \in Unused : \A m \in Unused : n <= m
  <2>1. n \in Unused
    <3>1. Unused # {}
      <4>1. Cardinality(Unused) # 0
        BY <1>0, <1>2, <1>a DEF SaveRecording
      <4> QED BY <1>a, <4>1, RecordingsAreFinite
    <3> QED BY <3>1, LeastUnused DEF RecordingTypes
  <2>2. /\ starting > 0 /\ starting' = starting - 1 /\ recording' = [recording EXCEPT ![n] = "recording"]
        /\ command' = Append(command, <<"start", n>>) /\ gapMet' \in {gapMet \cup {n}, gapMet}
        /\ UNCHANGED <<artifact, callEnded, stopping, recordingEvent, mediaRecordingVars, faults>>
    BY <1>2 DEF SaveRecording
  <2> HIDE DEF n
  <2>3. n \in Recordings /\ recording[n] = "none"
    BY <2>1 DEF Unused
  <2>4. recording' \in [Recordings -> RecordingStatus] /\ Unused' = Unused \ {n}
        /\ \A m \in Recordings : recording'[m] # "none" <=> recording[m] # "none" \/ m = n
    BY <1>0, <2>2, <2>3 DEF RecordingStatus, Unused
  <2>5. <<"start", n>> \in Command
    BY <2>3 DEF Command
  <2>6. /\ command' \in Seq(Command)
        /\ \A i \in 1..Len(command') : command'[i] = <<"start", n>> \/ \E j \in 1..Len(command) : command'[i] = command[j]
    BY <1>0, <2>2, <2>5, OneMore
  <2>7. \A m \in Recordings : Named(m)' => Named(m) \/ m = n
    BY <2>2, <2>6 DEF Named, mediaRecordingVars
  <2>8. starting' \in 0..2 /\ starting' <= Cardinality(Unused')
    <3>1. Cardinality(Unused') = Cardinality(Unused) - 1
      BY <1>a, <2>1, <2>3, <2>4, RecordingsAreFinite
    <3> QED BY <1>0, <1>a, <2>2, <3>1
  <2>9. CallRecordingsTypeOK'
    BY <1>0, <2>2, <2>3, <2>4, <2>6, <2>8 DEF CallRecordingsTypeOK, mediaRecordingVars
  <2>10. \A m \in Recordings : Named(m)' => recording'[m] # "none"
    BY <1>a, <2>4, <2>7
  <2> QED BY <2>8, <2>9, <2>10 DEF RecordingTypes
<1>3. ASSUME NEW n \in Recordings, StopRecording(n) PROVE RecordingTypes'
  <2>1. recording[n] = "recording" /\ stopping' = stopping \cup {n}
        /\ UNCHANGED <<recording, artifact, callEnded, starting, command, recordingEvent, mediaRecordingVars, faults, gapMet>>
    BY <1>3 DEF StopRecording
  <2>2. CallRecordingsTypeOK'
    BY <1>0, <2>1 DEF CallRecordingsTypeOK, mediaRecordingVars
  <2>3. \A m \in Recordings : Named(m)' => Named(m) \/ m = n
    BY <2>1 DEF Named, mediaRecordingVars
  <2> QED BY <1>0, <2>1, <2>2, <2>3, NamesStay
<1>4. ASSUME NEW n \in Recordings, SaveStopped(n) PROVE RecordingTypes'
  <2>1. /\ n \in stopping /\ stopping' = stopping \ {n} /\ recording' = [recording EXCEPT ![n] = "processing"]
        /\ gapMet' \in {gapMet, gapMet \cup {n}} /\ command' = Append(command, <<"stop", n>>)
        /\ UNCHANGED <<artifact, callEnded, starting, recordingEvent, mediaRecordingVars, faults>>
    BY <1>4 DEF SaveStopped
  <2>2. recording[n] # "none"
    BY <1>a, <2>1 DEF Named
  <2>3. recording' \in [Recordings -> RecordingStatus] /\ \A m \in Recordings : recording'[m] = "none" <=> recording[m] = "none"
    BY <1>0, <2>1, <2>2 DEF RecordingStatus
  <2>4. <<"stop", n>> \in Command
    BY DEF Command
  <2>5. /\ command' \in Seq(Command)
        /\ \A i \in 1..Len(command') : command'[i] = <<"stop", n>> \/ \E j \in 1..Len(command) : command'[i] = command[j]
    BY <1>0, <2>1, <2>4, OneMore
  <2>6. CallRecordingsTypeOK'
    BY <1>0, <2>1, <2>3, <2>5 DEF CallRecordingsTypeOK, mediaRecordingVars
  <2>7. \A m \in Recordings : Named(m)' => Named(m) \/ m = n
    BY <2>1, <2>5 DEF Named, mediaRecordingVars
  <2> QED BY <1>0, <2>1, <2>2, <2>3, <2>6, <2>7, NamesStay
<1>5. CASE EndRecordedCall
  <2> DEFINE active == {n \in Recordings : recording[n] = "recording"}
  <2>1. PICK order \in [1..Cardinality(active) -> active] :
          command' = command \o [i \in DOMAIN order |-> <<"stop", order[i]>>] \o <<<<"end", 0>>>>
    BY <1>5 DEF EndRecordedCall
  <2>2. /\ recording' = [n \in Recordings |-> IF n \in active THEN "processing" ELSE recording[n]]
        /\ callEnded' = TRUE
        /\ UNCHANGED <<artifact, starting, stopping, recordingEvent, mediaRecordingVars, faults, gapMet>>
    BY <1>5 DEF EndRecordedCall
  <2> DEFINE stopped == [i \in 1..Cardinality(active) |-> <<"stop", order[i]>>]
  <2>3. Cardinality(active) \in Nat
    BY RecordingsAreFinite
  <2>4. recording' \in [Recordings -> RecordingStatus] /\ \A m \in Recordings : recording'[m] = "none" <=> recording[m] = "none"
    BY <1>0, <2>2 DEF RecordingStatus
  <2>5. \A n \in active : n \in Recordings /\ recording[n] # "none" /\ <<"stop", n>> \in Command
    BY DEF Command
  <2> HIDE DEF active
  <2>6. stopped \in Seq(Command) /\ \A i \in 1..Len(stopped) : stopped[i][2] \in active
    <3>1. PICK m \in Nat : m = Cardinality(active)
      BY <2>3
    <3>2. \A i \in 1..m : order[i] \in active
      BY <3>1
    <3>3. stopped \in [1..m -> Command] /\ \A i \in 1..m : stopped[i] = <<"stop", order[i]>>
      BY <2>5, <3>1, <3>2
    <3> HIDE DEF stopped
    <3>4. stopped \in Seq(Command) /\ Len(stopped) = m
      BY <3>3
    <3> QED BY <3>2, <3>3, <3>4
  <2>7. command' = (command \o stopped) \o <<<<"end", 0>>>>
    BY <2>1
  <2> HIDE DEF stopped
  <2>8. PICK first \in Seq(Command) : first = command \o stopped
    <3>1. \A s, t \in Seq(Command) : s \o t \in Seq(Command)
      OBVIOUS
    <3> QED BY <1>0, <2>6, <3>1
  <2>9. \A i \in 1..Len(first) : (\E j \in 1..Len(command) : first[i] = command[j]) \/ first[i][2] \in active
    <3>1. Len(first) = Len(command) + Len(stopped) /\ Len(command) \in Nat /\ Len(stopped) \in Nat
          /\ \A i \in 1..(Len(command) + Len(stopped)) : first[i] = IF i <= Len(command) THEN command[i] ELSE stopped[i - Len(command)]
      BY <1>0, <2>6, <2>8
    <3>2. ASSUME NEW i \in 1..Len(first) PROVE (\E j \in 1..Len(command) : first[i] = command[j]) \/ first[i][2] \in active
      <4>1. CASE i <= Len(command)
        <5>1. i \in 1..Len(command) /\ first[i] = command[i]
          BY <3>1, <4>1
        <5> QED BY <5>1
      <4>2. CASE ~(i <= Len(command))
        <5>1. i - Len(command) \in 1..Len(stopped) /\ first[i] = stopped[i - Len(command)]
          BY <3>1, <4>2
        <5> QED BY <2>6, <5>1
      <4> QED BY <4>1, <4>2
    <3> QED BY <3>2
  <2>10. <<"end", 0>> \in Command
    BY DEF Command
  <2>11. /\ command' \in Seq(Command)
         /\ \A i \in 1..Len(command') : command'[i] = <<"end", 0>> \/ \E j \in 1..Len(first) : command'[i] = first[j]
    <3>1. command' = Append(first, <<"end", 0>>)
      BY <2>7, <2>8, <2>10
    <3> QED BY <2>10, <3>1, OneMore
  <2>15. ASSUME NEW i \in 1..Len(command')
         PROVE  \/ command'[i][2] = 0 \/ command'[i][2] \in active
                \/ \E j \in 1..Len(command) : command'[i] = command[j]
    <3>1. CASE command'[i] = <<"end", 0>>
      BY <3>1
    <3>2. CASE \E j \in 1..Len(first) : command'[i] = first[j]
      BY <2>9, <3>2
    <3> QED BY <2>11, <3>1, <3>2
  <2>12. CallRecordingsTypeOK'
    BY <1>0, <2>2, <2>4, <2>11 DEF CallRecordingsTypeOK, mediaRecordingVars
  <2>13. \A m \in Recordings : m # 0
    BY <1>b
  <2>14. \A m \in Recordings : Named(m)' => Named(m) \/ m \in active
    BY <2>2, <2>13, <2>15 DEF Named, mediaRecordingVars
  <2> QED BY <1>0, <2>2, <2>4, <2>5, <2>12, <2>14, NamesStay
<1>6. ASSUME NEW e \in recordingEvent, HandleRecordingEvent(e) PROVE RecordingTypes'
  <2>1. PICK type \in {"started", "ready", "failed"}, n \in Recordings : e = <<type, n>>
    BY <1>0 DEF RecordingEvent
  <2>2. /\ recording' = [recording EXCEPT ![n] = IF type = "started" THEN "recording" ELSE type]
        /\ gapMet' \in {gapMet, gapMet \cup {n}} /\ recordingEvent' = recordingEvent \ {e}
        /\ UNCHANGED <<artifact, callEnded, starting, stopping, command, mediaRecordingVars, faults>>
    BY <1>6, <2>1 DEF HandleRecordingEvent
  <2>3. recording[n] # "none"
    <3>1. e[2] = n
      BY <2>1
    <3> QED BY <1>a, <3>1 DEF Named
  <2>4. recording' \in [Recordings -> RecordingStatus] /\ \A m \in Recordings : recording'[m] = "none" <=> recording[m] = "none"
    BY <1>0, <2>2, <2>3 DEF RecordingStatus
  <2>5. CallRecordingsTypeOK'
    BY <1>0, <2>2, <2>4 DEF CallRecordingsTypeOK, mediaRecordingVars
  <2>6. \A m \in Recordings : Named(m)' => Named(m)
    BY <2>2 DEF Named, mediaRecordingVars
  <2> QED BY <1>0, <2>2, <2>4, <2>5, <2>6, NamesStay
<1>7. ASSUME NEW n \in Recordings, PurgeExpiredRecording(n) PROVE RecordingTypes'
  <2>1. /\ recording[n] # "none" /\ recording' = [recording EXCEPT ![n] = "deleted"] /\ artifact' \subseteq artifact
        /\ UNCHANGED <<callEnded, starting, stopping, command, recordingEvent, mediaRecordingVars, faults, gapMet>>
    BY <1>7 DEF PurgeExpiredRecording
  <2>2. recording' \in [Recordings -> RecordingStatus] /\ \A m \in Recordings : recording'[m] = "none" <=> recording[m] = "none"
    BY <1>0, <2>1 DEF RecordingStatus
  <2>3. CallRecordingsTypeOK'
    BY <1>0, <2>1, <2>2 DEF CallRecordingsTypeOK, mediaRecordingVars
  <2>4. \A m \in Recordings : Named(m)' => Named(m)
    BY <2>1 DEF Named, mediaRecordingVars
  <2> QED BY <1>0, <2>1, <2>2, <2>3, <2>4, NamesStay
<1>8. CASE HandleBackendCommand
  <2> DEFINE c == Head(command)
  <2>1. command' = Tail(command) /\ UNCHANGED <<recording, callEnded, starting, stopping, artifact, faults>>
    BY <1>8 DEF HandleBackendCommand, backendRecordingVars
  <2>a. \/ c[1] = "start" /\ HandleStart(c[2])
        \/ c[1] = "stop" /\ HandleStop(c[2])
        \/ c[1] = "end" /\ HandleEnd
    BY <1>8 DEF HandleBackendCommand
  <2>2. /\ command' \in Seq(Command) /\ c \in Command /\ 1 \in 1..Len(command) /\ c = command[1]
        /\ \A i \in 1..Len(command') : \E j \in 1..Len(command) : command'[i] = command[j]
    BY <1>0, <1>8, <2>1, OneLess DEF HandleBackendCommand
  <2> HIDE DEF c
  <2>3. \A n \in Recordings : c[2] = n => Named(n)
    BY <2>2 DEF Named
  <2>4. c[1] \in {"start", "stop"} => c[2] \in Recordings
    BY <2>2 DEF Command
  <2>5. CASE c[1] = "start" /\ HandleStart(c[2])
    <3>1. PICK n \in Recordings : n = c[2]
      BY <2>4, <2>5
    <3>2. CASE recordingEvent' = recordingEvent \cup {<<"failed", n>>} /\ UNCHANGED <<mediaRecordingVars, gapMet>>
      <4>1. <<"failed", n>> \in RecordingEvent
        BY DEF RecordingEvent
      <4>2. CallRecordingsTypeOK'
        BY <1>0, <2>1, <2>2, <3>2, <4>1 DEF CallRecordingsTypeOK, mediaRecordingVars
      <4>3. \A m \in Recordings : Named(m)' => Named(m) \/ m = n
        BY <2>1, <2>2, <3>2 DEF Named, mediaRecordingVars
      <4> QED BY <1>0, <2>1, <2>3, <3>1, <4>2, <4>3, NamesStay
    <3>3. CASE pipeline' = [pipeline EXCEPT ![n] = "mkdir"]
               /\ UNCHANGED <<recordingEvent, inMedia, recordingsById, recordingIdBySessionId, stops, gapMet>>
      <4>2. CallRecordingsTypeOK'
        BY <1>0, <2>1, <2>2, <3>3 DEF CallRecordingsTypeOK
      <4>3. \A m \in Recordings : Named(m)' => Named(m) \/ m = n
        BY <1>0, <2>1, <2>2, <3>3 DEF Named
      <4> QED BY <1>0, <2>1, <2>3, <3>1, <4>2, <4>3, NamesStay
    <3> QED BY <2>5, <3>1, <3>2, <3>3 DEF HandleStart, PublishRecordingEvent
  <2>6. CASE c[1] = "stop" /\ HandleStop(c[2])
    <3>1. PICK n \in Recordings : n = c[2]
      BY <2>4, <2>6
    <3>2. /\ stops' \in {stops, [stops EXCEPT ![n] = @ + 1]} /\ gapMet' \in {gapMet, gapMet \cup {n}}
          /\ UNCHANGED <<recordingEvent, inMedia, pipeline, recordingsById, recordingIdBySessionId>>
      BY <2>6, <3>1 DEF HandleStop, BeginStop
    <3>3. stops' \in [Recordings -> Nat] /\ \A m \in Recordings : m # n => stops'[m] = stops[m]
      BY <1>0, <3>2
    <3>4. CallRecordingsTypeOK'
      BY <1>0, <2>1, <2>2, <3>2, <3>3 DEF CallRecordingsTypeOK
    <3>5. \A m \in Recordings : Named(m)' => Named(m) \/ m = n
      BY <2>1, <2>2, <3>2, <3>3 DEF Named
    <3> QED BY <1>0, <2>1, <2>3, <3>1, <3>4, <3>5, NamesStay
  <2>7. CASE c[1] = "end" /\ HandleEnd
    <3> DEFINE n == recordingIdBySessionId
    <3>1. /\ inMedia' = FALSE /\ UNCHANGED <<recordingEvent, pipeline, recordingsById, recordingIdBySessionId>>
          /\ \/ n # 0 /\ stops' = [stops EXCEPT ![n] = @ + 1] /\ gapMet' \in {gapMet, gapMet \cup {n}}
             \/ UNCHANGED <<stops, gapMet>>
      BY <2>7 DEF HandleEnd, BeginStop
    <3>2. n # 0 => n \in recordingsById /\ n \in Recordings /\ Named(n)
      BY <1>0 DEF Named
    <3> HIDE DEF n
    <3>3. stops' \in [Recordings -> Nat] /\ gapMet' \subseteq Recordings
          /\ \A m \in Recordings : stops'[m] # stops[m] => Named(m)
      BY <1>0, <3>1, <3>2
    <3>4. CallRecordingsTypeOK'
      BY <1>0, <2>1, <2>2, <3>1, <3>3 DEF CallRecordingsTypeOK
    <3>5. \A m \in Recordings : Named(m)' => Named(m)
      <4>1. ASSUME NEW m \in Recordings, Named(m)', ~Named(m) PROVE FALSE
        <5>1. stops'[m] = stops[m]
          BY <3>3, <4>1
        <5> QED BY <2>1, <2>2, <3>1, <4>1, <5>1 DEF Named
      <4> QED BY <4>1
    <3> QED BY <1>0, <2>1, <3>4, <3>5, NamesStay
  <2> QED BY <2>a, <2>5, <2>6, <2>7
<1>9. ASSUME NEW n \in Recordings, PipelineStep(n) PROVE RecordingTypes'
  <2>1. UNCHANGED <<recording, callEnded, starting, stopping, command, inMedia, faults>>
    BY <1>9 DEF PipelineStep, RegisterRecording, TracksStarted, FinishRecording, FailRecording, backendRecordingVars
  <2>2. Named(n)
    BY <1>9 DEF PipelineStep, RegisterRecording, TracksStarted, FinishRecording, FailRecording, Named
  <2>3. CASE RegisterRecording(n)
    <3>1. /\ pipeline' = [pipeline EXCEPT ![n] = "tracks"] /\ recordingsById' = recordingsById \cup {n}
          /\ recordingIdBySessionId' = n /\ UNCHANGED <<artifact, recordingEvent, stops>>
          /\ gapMet' = IF recordingIdBySessionId # 0 THEN gapMet \cup {n, recordingIdBySessionId} ELSE gapMet
      BY <2>3 DEF RegisterRecording
    <3>2. gapMet' \subseteq Recordings /\ n \in 0..MaxRecordings
      BY <1>0, <1>b, <3>1
    <3>3. CallRecordingsTypeOK'
      BY <1>0, <2>1, <3>1, <3>2 DEF CallRecordingsTypeOK
    <3>4. \A m \in Recordings : Named(m)' => Named(m) \/ m = n
      BY <1>0, <2>1, <3>1 DEF Named
    <3> QED BY <1>0, <2>1, <2>2, <3>3, <3>4, NamesStay
  <2>4. CASE TracksStarted(n)
    <3>1. /\ pipeline' = [pipeline EXCEPT ![n] = "running"] /\ recordingEvent' = recordingEvent \cup {<<"started", n>>}
          /\ gapMet' \in {gapMet, gapMet \cup {n}} /\ UNCHANGED <<artifact, recordingsById, recordingIdBySessionId, stops>>
      BY <2>4 DEF TracksStarted, PublishRecordingEvent
    <3>2. <<"started", n>> \in RecordingEvent
      BY DEF RecordingEvent
    <3>3. CallRecordingsTypeOK'
      BY <1>0, <2>1, <3>1, <3>2 DEF CallRecordingsTypeOK
    <3>4. \A m \in Recordings : Named(m)' => Named(m) \/ m = n
      BY <1>0, <2>1, <3>1 DEF Named
    <3> QED BY <1>0, <2>1, <2>2, <3>3, <3>4, NamesStay
  <2>5. CASE FinishRecording(n) \/ FailRecording(n)
    <3>1. PICK type \in {"ready", "failed"} : recordingEvent' = recordingEvent \cup {<<type, n>>}
      BY <2>5 DEF FinishRecording, FailRecording, PublishRecordingEvent
    <3>2. /\ stops[n] > 0 /\ Deregister(n) /\ artifact' \in {artifact, artifact \cup {n}} /\ UNCHANGED <<pipeline, gapMet>>
      BY <2>5 DEF FinishRecording, FailRecording
    <3>3. <<type, n>> \in RecordingEvent
      BY DEF RecordingEvent
    <3>4. stops' \in [Recordings -> Nat] /\ recordingsById' = recordingsById \ {n} /\ recordingIdBySessionId' = 0
          /\ \A m \in Recordings : m # n => stops'[m] = stops[m]
      BY <1>0, <3>2 DEF Deregister
    <3>5. CallRecordingsTypeOK'
      <4>1. artifact' \cup stopping' \cup recordingsById' \cup gapMet' \subseteq Recordings /\ recordingIdBySessionId' \in 0..MaxRecordings
        BY <1>0, <1>b, <2>1, <3>2, <3>4
      <4> QED BY <1>0, <2>1, <3>1, <3>2, <3>3, <3>4, <4>1 DEF CallRecordingsTypeOK
    <3>6. \A m \in Recordings : Named(m)' => Named(m) \/ m = n
      BY <1>0, <2>1, <3>1, <3>2, <3>4 DEF Named
    <3> QED BY <1>0, <2>1, <2>2, <3>5, <3>6, NamesStay
  <2> QED BY <1>9, <2>3, <2>4, <2>5 DEF PipelineStep
<1>10. ASSUME NEW e \in recordingEvent, LoseEvent(e) PROVE RecordingTypes'
  <2>1. /\ faults < MaxFaults /\ faults' = faults + 1 /\ recordingEvent' = recordingEvent \ {e}
        /\ UNCHANGED <<recording, callEnded, starting, stopping, artifact, command, mediaRecordingVars, gapMet>>
    BY <1>10 DEF LoseEvent, Fault, backendRecordingVars
  <2>2. CallRecordingsTypeOK'
    BY <1>0, <1>b, <2>1 DEF CallRecordingsTypeOK, mediaRecordingVars
  <2>3. \A m \in Recordings : Named(m)' => Named(m)
    BY <2>1 DEF Named, mediaRecordingVars
  <2> QED BY <1>0, <2>1, <2>2, <2>3, NamesStay
<1>11. CASE LoseCommand
  <2>1. /\ faults < MaxFaults /\ faults' = faults + 1 /\ command' = Tail(command) /\ command # <<>>
        /\ UNCHANGED <<recording, callEnded, starting, stopping, artifact, recordingEvent, mediaRecordingVars, gapMet>>
    BY <1>11 DEF LoseCommand, Fault, backendRecordingVars
  <2>2. /\ command' \in Seq(Command) /\ \A i \in 1..Len(command') : \E j \in 1..Len(command) : command'[i] = command[j]
    BY <1>0, <2>1, OneLess
  <2>3. CallRecordingsTypeOK'
    BY <1>0, <1>b, <2>1, <2>2 DEF CallRecordingsTypeOK, mediaRecordingVars
  <2>4. \A m \in Recordings : Named(m)' => Named(m)
    BY <2>1, <2>2 DEF Named, mediaRecordingVars
  <2> QED BY <1>0, <2>1, <2>3, <2>4, NamesStay
<1>12. CASE MediaCrash
  <2>1. /\ faults < MaxFaults /\ faults' = faults + 1 /\ inMedia' = FALSE /\ pipeline' = [n \in Recordings |-> "none"]
        /\ recordingsById' = {} /\ recordingIdBySessionId' = 0 /\ stops' = [n \in Recordings |-> 0] /\ command' = <<>>
        /\ UNCHANGED <<recording, callEnded, starting, stopping, artifact, recordingEvent, gapMet>>
    BY <1>12 DEF MediaCrash, Fault, backendRecordingVars
  <2>2. <<>> \in Seq(Command) /\ 0 \in 0..MaxRecordings
    BY <1>b
  <2>3. CallRecordingsTypeOK'
    <3>1. pipeline' \in [Recordings -> {"none", "mkdir", "tracks", "running"}] /\ stops' \in [Recordings -> Nat]
          /\ faults' \in 0..MaxFaults
      BY <1>0, <1>b, <2>1
    <3> QED BY <1>0, <2>1, <2>2, <3>1 DEF CallRecordingsTypeOK
  <2>4. \A m \in Recordings : Named(m)' => Named(m)
    BY <2>1 DEF Named
  <2> QED BY <1>0, <2>1, <2>3, <2>4, NamesStay
<1>13. CASE UNCHANGED recordingVars
  <2>1. CallRecordingsTypeOK'
    BY <1>0, <1>13 DEF recordingVars, CallRecordingsTypeOK
  <2>2. \A m \in Recordings : Named(m)' => Named(m)
    BY <1>13 DEF recordingVars, Named
  <2> QED BY <1>0, <1>13, <2>1, <2>2, NamesStay DEF recordingVars
<1> QED BY <1>1, <1>2, <1>3, <1>4, <1>5, <1>6, <1>7, <1>8, <1>9, <1>10, <1>11, <1>12, <1>13 DEF CallRecordingsNext, RecordingStep

-----------------------------------------------------------------------------
\* The types of the files.
\* What a call copied is the row of a file that exists, and the file has a row as
\* long as it has versions.
FileMore ==
  /\ \A v, w \in versionRows : v.n = w.n => v = w
  /\ versionRows # {} => fileRow.count > 0
  /\ objects \subseteq StorageKeys /\ passed \subseteq StorageKeys /\ quarantined \subseteq StorageKeys
  /\ crossed \in BOOLEAN /\ cut \in BOOLEAN
  /\ crashesOfFiles \in 0..MaxCrashes
  /\ \A c \in FileCalls : fileCall[c].pc \in {"loaded", "emptied", "deleting"} => fileCall[c].copy.count > 0

LEMMA FilesTyped == FileInv /\ FileMore => FileVersionsTypeOK
<1> SUFFICES ASSUME FileInv, FileMore PROVE FileVersionsTypeOK
  OBVIOUS
<1>1. fileRow.count \in Nat
  BY FileVersionsAssumption DEF FileInv, FileTypes, FileRows
<1>2. fileRow.count = 0 <=> versionRows = {}
  BY <1>1 DEF FileInv, FileRowIsRight, FileMore
<1> QED BY <1>1, <1>2 DEF FileInv, FileTypes, FileRowIsRight, FileMore, FileVersionsTypeOK

LEMMA FilesInitTyped == FileVersionsInit => FileMore
<1> SUFFICES ASSUME FileVersionsInit PROVE FileMore
  OBVIOUS
<1>1. \A c \in FileCalls : fileCall[c].pc = "idle"
  BY FreeCallIsTyped DEF FileVersionsInit
<1>2. 0 \in 0..MaxCrashes
  BY FileVersionsAssumption
<1> QED BY <1>1, <1>2 DEF FileVersionsInit, FileMore

\* The calls after one of them moved.
LEMMA CopiesStay ==
  ASSUME FileTypes, FileMore, NEW c \in FileCalls, NEW call,
         fileCall' = [fileCall EXCEPT ![c] = call],
         call.pc \in {"loaded", "emptied", "deleting"} => call.copy.count > 0
  PROVE  \A d \in FileCalls : fileCall'[d].pc \in {"loaded", "emptied", "deleting"} => fileCall'[d].copy.count > 0
BY DEF FileTypes, FileMore

LEMMA FilesNextTyped == FileInv /\ FileMore /\ [FileVersionsNext]_fileVars => FileMore'
<1> SUFFICES ASSUME FileInv, FileMore, [FileVersionsNext]_fileVars PROVE FileMore'
  OBVIOUS
<1>0. /\ FileTypes /\ FileRowIsRight /\ \A c \in FileCalls : FileCallIsRight(c)
      /\ \A c \in FileCalls : fileCall[c].pc \in {"loaded", "emptied", "deleting"} => fileCall[c].copy.count > 0
      /\ \A c \in FileCalls : fileCall[c] \in FileCallStates
  BY DEF FileInv, FileMore, FileTypes
<1>1. ASSUME NEW c \in FileCalls, NEW content \in Contents, BeginUpload(c, content) PROVE FileMore'
  <2> DEFINE call == [FreeCall EXCEPT !.pc = "streamed", !.key = [n |-> fileRow.count + 1, content |-> content]]
  <2>1. fileCall' = [fileCall EXCEPT ![c] = call] /\ call.pc = "streamed"
        /\ UNCHANGED <<fileRow, versionRows, objects, passed, quarantined, crossed, cut, crashesOfFiles>>
    BY <1>1 DEF BeginUpload, FreeCall
  <2> HIDE DEF call
  <2> QED BY <1>0, <2>1, CopiesStay DEF FileMore
<1>2. ASSUME NEW c \in FileCalls, StoreObject(c) PROVE FileMore'
  <2> DEFINE call == [fileCall[c] EXCEPT !.pc = "stored"]
  <2>1. /\ fileCall' = [fileCall EXCEPT ![c] = call] /\ call.pc = "stored" /\ fileCall[c].pc = "streamed"
        /\ objects' = objects \cup {fileCall[c].key} /\ quarantined' \subseteq quarantined
        /\ UNCHANGED <<fileRow, versionRows, passed, crossed, cut, crashesOfFiles>>
    BY <1>0, <1>2 DEF StoreObject, Goto, FileTypes, FileCallStates
  <2> HIDE DEF call
  <2>2. fileCall[c].key \in StorageKeys
    BY <1>0, <2>1 DEF FileCallIsRight
  <2> QED BY <1>0, <2>1, <2>2, CopiesStay DEF FileMore
<1>3. ASSUME NEW c \in FileCalls, StreamFails(c) \/ CommitRefused(c) PROVE FileMore'
  <2>1. fileCall' = [fileCall EXCEPT ![c] = FreeCall]
        /\ UNCHANGED <<fileRow, versionRows, objects, passed, quarantined, crossed, cut, crashesOfFiles>>
    BY <1>3 DEF StreamFails, CommitRefused, Done
  <2> QED BY <1>0, <2>1, FreeCallIsTyped, CopiesStay DEF FileMore
<1>4. ASSUME NEW c \in FileCalls, CommitVersion(c) PROVE FileMore'
  <2> DEFINE call == [fileCall[c] EXCEPT !.pc = "scanning"]
             key == fileCall[c].key
  <2>1. /\ fileCall' = [fileCall EXCEPT ![c] = call] /\ fileCall[c].pc = "stored" /\ call.pc = "scanning"
        /\ \A v \in versionRows : v.n # key.n
        /\ versionRows' = versionRows \cup {key}
        /\ fileRow' = [fileRow EXCEPT !.count = key.n, !.current = key, !.scan = "pending"]
        /\ UNCHANGED <<objects, passed, quarantined, crossed, cut, crashesOfFiles>>
    BY <1>0, <1>4 DEF CommitVersion, Goto, Versioned, FileTypes, FileCallStates
  <2>2. key \in StorageKeys /\ key.n > 0
    BY <1>0, <2>1, FileVersionsAssumption DEF FileCallIsRight, StorageKeys
  <2> HIDE DEF call, key
  <2>3. fileRow'.count = key.n
    BY <1>0, <2>1 DEF FileTypes, FileRows
  <2>4. \A v, w \in versionRows' : v.n = w.n => v = w
    BY <2>1 DEF FileMore
  <2> QED BY <1>0, <2>1, <2>2, <2>3, <2>4, CopiesStay DEF FileMore
<1>5. ASSUME NEW c \in FileCalls, Scan(c) PROVE FileMore'
  <2>1. PICK verdict : fileCall' = [fileCall EXCEPT ![c].pc = "verdict", ![c].verdict = verdict]
    BY <1>5 DEF Scan
  <2>2. /\ passed' \subseteq passed \cup {fileCall[c].key} /\ fileCall[c].pc = "scanning"
        /\ UNCHANGED <<fileRow, versionRows, objects, quarantined, crossed, cut, crashesOfFiles>>
    BY <1>5 DEF Scan
  <2>3. fileCall[c].key \in StorageKeys
    BY <1>0, <2>2 DEF FileCallIsRight
  <2> DEFINE call == [fileCall[c] EXCEPT !.pc = "verdict", !.verdict = verdict]
  <2>4. fileCall' = [fileCall EXCEPT ![c] = call] /\ call.pc = "verdict"
    BY <1>0, <2>1 DEF FileTypes, FileCallStates
  <2> HIDE DEF call
  <2> QED BY <1>0, <2>2, <2>3, <2>4, CopiesStay DEF FileMore
<1>6. ASSUME NEW c \in FileCalls, LoadForVerdict(c) \/ DeleteFileLoad(c) PROVE FileMore'
  <2>0. PICK pc \in {"loaded", "deleting"} :
          /\ fileCall' = [fileCall EXCEPT ![c].pc = pc, ![c].copy = fileRow]
          /\ pc = "loaded" => fileCall[c].pc = "verdict"
          /\ pc = "deleting" => fileRow.count > 0
    BY <1>6 DEF LoadForVerdict, DeleteFileLoad
  <2> DEFINE call == [fileCall[c] EXCEPT !.pc = pc, !.copy = fileRow]
  <2>1. fileCall' = [fileCall EXCEPT ![c] = call] /\ call.copy = fileRow
    BY <1>0, <2>0 DEF FileTypes, FileCallStates
  <2>2. fileRow.count > 0
    BY <1>0, <2>0 DEF FileCallIsRight, FileMore
  <2>3. UNCHANGED <<fileRow, versionRows, objects, passed, quarantined, crossed, cut, crashesOfFiles>>
    BY <1>6 DEF LoadForVerdict, DeleteFileLoad
  <2> HIDE DEF call
  <2> QED BY <1>0, <2>1, <2>2, <2>3, CopiesStay DEF FileMore
<1>7. ASSUME NEW c \in FileCalls, Quarantine(c) PROVE FileMore'
  <2> DEFINE call == [fileCall[c] EXCEPT !.pc = "emptied"]
  <2>1. /\ fileCall' = [fileCall EXCEPT ![c] = call] /\ call.copy = fileCall[c].copy /\ fileCall[c].pc = "loaded"
        /\ UNCHANGED <<fileRow, versionRows, passed, crossed, cut, crashesOfFiles>>
    BY <1>0, <1>7 DEF Quarantine, Goto, FileTypes, FileCallStates
  <2>2. objects' \subseteq objects /\ quarantined' \subseteq quarantined \cup versionRows
    BY <1>7 DEF Quarantine
  <2>3. versionRows \subseteq StorageKeys
    BY <1>0 DEF FileTypes
  <2> HIDE DEF call
  <2> QED BY <1>0, <2>1, <2>2, <2>3, CopiesStay DEF FileMore
<1>8. ASSUME NEW c \in FileCalls, SaveVerdict(c) \/ DeleteFileSave(c) PROVE FileMore'
  <2>1. /\ fileCall' = [fileCall EXCEPT ![c] = FreeCall] /\ crossed' \in BOOLEAN
        /\ UNCHANGED <<versionRows, objects, passed, quarantined, cut, crashesOfFiles>>
    BY <1>8 DEF SaveVerdict, DeleteFileSave, Done
  <2>2. fileCall[c].pc \in {"loaded", "emptied", "deleting"}
    BY <1>8 DEF SaveVerdict, DeleteFileSave
  <2>3. fileRow'.count = fileCall[c].copy.count
    BY <1>0, <1>8 DEF SaveVerdict, DeleteFileSave, Judged, FileCallStates, FileRows
  <2> QED BY <1>0, <2>1, <2>2, <2>3, FreeCallIsTyped, CopiesStay DEF FileMore
<1>9. CASE CrashOfFiles
  <2>1. \A c \in FileCalls : fileCall'[c].pc = "idle"
    BY <1>9, FreeCallIsTyped DEF CrashOfFiles
  <2>2. crashesOfFiles' \in 0..MaxCrashes
    BY <1>9, FileVersionsAssumption DEF CrashOfFiles, FileMore
  <2>3. cut' \in BOOLEAN
    BY <1>9 DEF CrashOfFiles
  <2> QED BY <1>9, <2>1, <2>2, <2>3 DEF CrashOfFiles, FileMore
<1>10. CASE UNCHANGED fileVars
  BY <1>10 DEF fileVars, FileMore
<1> QED BY <1>1, <1>2, <1>3, <1>4, <1>5, <1>6, <1>7, <1>8, <1>9, <1>10 DEF FileVersionsNext

-----------------------------------------------------------------------------
\* The types of the audit trail.
\* A set of numbers below a bound has a greatest element.
LEMMA GreatestOf ==
  ASSUME NEW n \in Nat, NEW S \in SUBSET (1..n), S # {}
  PROVE  \E m \in S : \A k \in S : k <= m
<1> DEFINE Bounds == {b \in Nat : \A k \in S : k <= b}
           m == Min(Bounds)
<1>1. n \in Bounds
  OBVIOUS
<1>2. m \in Bounds /\ \A b \in Bounds : m <= b
  BY <1>1, MinOfNat
<1>3. m \in Nat /\ \A k \in S : k <= m /\ k \in Nat /\ k > 0
  BY <1>2
<1>4. \A b \in Nat : (\A k \in S : k <= b) => m <= b
  BY <1>2
<1> HIDE DEF m, Bounds
<1>5. CASE m \in S
  BY <1>3, <1>5
<1>6. CASE m \notin S
  <2>1. \A k \in S : k <= m - 1
    BY <1>3, <1>6
  <2>2. m - 1 \in Nat
    <3>1. PICK k \in S : TRUE
      OBVIOUS
    <3> QED BY <1>3, <3>1
  <2>3. m <= m - 1
    BY <1>4, <2>1, <2>2
  <2> QED BY <1>3, <2>3
<1> QED BY <1>5, <1>6

\* The batch is the oldest events, and not more than fit.
LEMMA BatchFits ==
  ASSUME AuditTypes
  PROVE  Batch \subseteq 1..aged /\ Cardinality(Batch) <= ArchiveBatch
<1> DEFINE Earlier(e) == {d \in OldEvents : d < e}
<1>1. aged \in Nat /\ OldEvents \subseteq 1..aged /\ Batch \subseteq 1..aged /\ ArchiveBatch \in Nat \ {0}
  BY AuditTrailAssumption DEF AuditTypes, OldEvents, Batch
<1>2. IsFiniteSet(1..aged) /\ \A S \in SUBSET (1..aged) : IsFiniteSet(S) /\ Cardinality(S) \in Nat
  <2>1. IsFiniteSet(1..aged)
    BY <1>1, FS_Interval
  <2> QED BY <2>1, FS_Subset, FS_CardinalityType
<1>3. CASE Batch = {}
  BY <1>1, <1>3, FS_EmptySet
<1>4. CASE Batch # {}
  <2>1. PICK m \in Batch : \A k \in Batch : k <= m
    BY <1>1, <1>4, GreatestOf
  <2>2. Cardinality(Earlier(m)) < ArchiveBatch
    BY <2>1 DEF Batch
  <2>3. Batch \ {m} \subseteq Earlier(m) /\ Earlier(m) \in SUBSET (1..aged)
    <3>1. \A k \in Batch : k \in Nat /\ k \in OldEvents
      BY <1>1 DEF Batch
    <3>2. \A k \in Batch : k # m => k < m
      BY <2>1, <3>1
    <3>3. Batch \ {m} \subseteq Earlier(m)
      BY <3>1, <3>2
    <3> QED BY <1>1, <3>3
  <2>4. Cardinality(Batch \ {m}) <= Cardinality(Earlier(m))
    BY <1>2, <2>3, FS_Subset
  <2>5. Cardinality(Batch \ {m}) = Cardinality(Batch) - 1
    BY <1>1, <1>2, <2>1, FS_RemoveElement
  <2>6. Cardinality(Batch) \in Nat /\ Cardinality(Earlier(m)) \in Nat
    BY <1>1, <1>2, <2>3
  <2> QED BY <1>1, <2>2, <2>4, <2>5, <2>6
<1> QED BY <1>3, <1>4

\* What the invariant of the archive does not say of the types.
AuditMore ==
  /\ purged \subseteq 1..expired
  /\ \A r \in Archivers : Cardinality(archiver[r].ids) <= ArchiveBatch
  /\ entangled \in BOOLEAN /\ auditCrashes \in 0..MaxAuditCrashes

LEMMA AuditTyped == AuditInv /\ AuditMore => AuditTrailTypeOK
<1> SUFFICES ASSUME AuditInv, AuditMore PROVE AuditTrailTypeOK
  OBVIOUS
<1>1. emitted \in 0..MaxEvents
  BY AuditTrailAssumption DEF AuditInv, AuditTypes
<1> QED BY <1>1 DEF AuditInv, AuditTypes, AuditMore, AuditTrailTypeOK, ArchiverStates

LEMMA AuditInitTyped == AuditTrailInit => AuditMore
<1> SUFFICES ASSUME AuditTrailInit PROVE AuditMore
  OBVIOUS
<1>1. Cardinality({}) = 0
  BY FS_EmptySet
<1>2. \A r \in Archivers : archiver[r].ids = {}
  BY DEF AuditTrailInit, IdleArchiver
<1>3. 0 <= ArchiveBatch /\ 0 \in 0..MaxAuditCrashes
  BY AuditTrailAssumption
<1>4. auditCrashes \in 0..MaxAuditCrashes
  BY <1>3 DEF AuditTrailInit
<1>5. \A r \in Archivers : Cardinality(archiver[r].ids) <= ArchiveBatch
  BY <1>1, <1>2, <1>3
<1> QED BY <1>4, <1>5 DEF AuditTrailInit, AuditMore

LEMMA AuditNextTyped == AuditInv /\ AuditMore /\ [AuditTrailNext]_auditVars => AuditMore'
<1> SUFFICES ASSUME AuditInv, AuditMore, [AuditTrailNext]_auditVars PROVE AuditMore'
  OBVIOUS
<1>0. AuditTypes /\ expired \in Nat
  BY DEF AuditInv, AuditTypes
<1>1. CASE EmitAudit \/ AgeEvent \/ UNCHANGED auditVars
  BY <1>1 DEF EmitAudit, AgeEvent, auditVars, AuditMore
<1>2. CASE ExpireEvent
  <2>1. purged' \subseteq 1..expired'
    BY <1>0, <1>2 DEF ExpireEvent, AuditMore
  <2> QED BY <1>2, <2>1 DEF ExpireEvent, AuditMore
<1>3. ASSUME NEW r \in Archivers, ReadOldEvents(r) PROVE AuditMore'
  <2>1. archiver' = [archiver EXCEPT ![r] = [pc |-> "read", ids |-> Batch]] /\ entangled' \in BOOLEAN
        /\ UNCHANGED <<expired, purged, auditCrashes>>
    BY <1>3 DEF ReadOldEvents
  <2>2. \A q \in Archivers : archiver'[q].ids = Batch \/ archiver'[q] = archiver[q]
    BY <1>0, <2>1 DEF AuditTypes
  <2> QED BY <1>0, <2>1, <2>2, BatchFits DEF AuditMore
<1>4. ASSUME NEW r \in Archivers, CopyToArchive(r) PROVE AuditMore'
  <2>1. \A q \in Archivers : archiver'[q].ids = archiver[q].ids
    BY <1>0, <1>4 DEF CopyToArchive, AuditTypes
  <2> QED BY <1>4, <2>1 DEF CopyToArchive, AuditMore
<1>5. ASSUME NEW r \in Archivers, DeleteArchived(r) \/ CrashOfArchiver(r) PROVE AuditMore'
  <2>1. archiver' = [archiver EXCEPT ![r] = IdleArchiver] /\ UNCHANGED <<expired, purged>>
    BY <1>5 DEF DeleteArchived, CrashOfArchiver
  <2>2. \A q \in Archivers : archiver'[q].ids = {} \/ archiver'[q] = archiver[q]
    BY <1>0, <2>1 DEF AuditTypes, IdleArchiver
  <2>3. Cardinality({}) <= ArchiveBatch
    BY FS_EmptySet, AuditTrailAssumption
  <2>4. auditCrashes' \in 0..MaxAuditCrashes
    BY <1>5, AuditTrailAssumption DEF DeleteArchived, CrashOfArchiver, AuditMore
  <2>5. entangled' \in BOOLEAN
    BY <1>5 DEF DeleteArchived, CrashOfArchiver, AuditMore
  <2> QED BY <2>1, <2>2, <2>3, <2>4, <2>5 DEF AuditMore
<1>6. CASE PurgeArchives
  <2>1. purged' \subseteq 1..expired'
    BY <1>0, <1>6 DEF PurgeArchives, AuditMore
  <2> QED BY <1>6, <2>1 DEF PurgeArchives, AuditMore
<1> QED BY <1>1, <1>2, <1>3, <1>4, <1>5, <1>6 DEF AuditTrailNext

-----------------------------------------------------------------------------
\* The types of the reports.
LEMMA DayIsASlot == ReportRunsTypeOK => Day \in 0..MaxSlots /\ ReportTypes
<1> SUFFICES ASSUME ReportRunsTypeOK PROVE Day \in 0..MaxSlots /\ ReportTypes
  OBVIOUS
<1>1. slot \in Nat /\ slot <= MaxSlots /\ MaxSlots \in Nat /\ SlotsPerDay \in Nat \ {0, 1}
  BY ReportRunsAssumption DEF ReportRunsTypeOK
<1>2. \A s \in Nat, length \in Nat \ {0} : s \div length \in Nat /\ s \div length <= s
  <2> SUFFICES ASSUME NEW s \in Nat, NEW length \in Nat \ {0} PROVE s \div length \in Nat /\ s \div length <= s
    OBVIOUS
  <2>1. PICK q \in Nat : q = s \div length
    BY DayAdvances
  <2>2. length * q <= s
    BY <2>1
  <2>3. q <= length * q
    BY <2>1
  <2> QED BY <2>1, <2>2, <2>3
<1>3. Day \in 0..MaxSlots
  BY <1>1, <1>2 DEF Day
<1>4. ReportTypes
  <2>1. \A e \in Executions : execution[e] \in ExecutionRows
    BY DEF ReportRunsTypeOK
  <2> QED BY <1>1, <2>1 DEF ReportRunsTypeOK, ReportTypes, ExecutionRows
<1> QED BY <1>3, <1>4

LEMMA ReportsInitTyped == ReportRunsInit => ReportRunsTypeOK
<1> SUFFICES ASSUME ReportRunsInit PROVE ReportRunsTypeOK
  OBVIOUS
<1>1. 0 \in 0..MaxSlots /\ 0 \in 0..MaxReportCrashes
  BY ReportRunsAssumption
<1>2. NoExecution \in ExecutionRows /\ NoExecution.status = "none"
  BY <1>1 DEF NoExecution, ExecutionRows
<1>3. definition \in [schedule: Schedules, active: BOOLEAN]
  BY DEF ReportRunsInit, Schedules
<1> QED BY <1>1, <1>2, <1>3 DEF ReportRunsInit, ReportRunsTypeOK

LEMMA ReportStored ==
  ASSUME ReportRunsTypeOK, FreeExecutions # {}, NEW r \in ReportReplicas, NEW source \in {"manual", "scheduled", "analytics"},
         execution' = Stored(r, source)
  PROVE  /\ execution' \in [Executions -> ExecutionRows]
         /\ \A f \in Executions : execution'[f] = execution[f] \/ execution'[f].on = r
<1>1. PICK e \in Executions :
        /\ execution' \in [Executions -> [status: ExecutionStatuses \cup {"none"}, source: {"manual", "scheduled", "analytics"},
                                         day: Nat, on: ReportReplicas \cup {NoReplica}]]
        /\ execution'[e].day = Day /\ execution'[e].on = r
        /\ \A f \in Executions : f # e => execution'[f] = execution[f]
  BY DayIsASlot, StoredTakesAFreeRow
<1>2. \A f \in Executions : execution'[f] \in ExecutionRows
  BY <1>1, DayIsASlot DEF ReportRunsTypeOK, ExecutionRows
<1> QED BY <1>1, <1>2

LEMMA ReportsNextTyped == ReportRunsTypeOK /\ [ReportRunsNext]_reportVars => ReportRunsTypeOK'
<1> SUFFICES ASSUME ReportRunsTypeOK, [ReportRunsNext]_reportVars PROVE ReportRunsTypeOK'
  OBVIOUS
<1>0. /\ definition \in [schedule: Schedules, active: BOOLEAN]
      /\ execution \in [Executions -> ExecutionRows]
      /\ \A e \in Executions : execution[e].on = NoReplica => execution[e].status \in {"none", "complete", "failed"} \/ e \in interrupted
      /\ slot \in 0..MaxSlots /\ ticked \subseteq ReportReplicas
      /\ excused \subseteq 0..MaxSlots /\ interrupted \subseteq Executions
      /\ reportCrashes \in 0..MaxReportCrashes /\ MaxSlots \in Nat /\ MaxReportCrashes \in Nat
      /\ NoReplica \notin ReportReplicas /\ Day \in 0..MaxSlots
  BY ReportRunsAssumption, DayIsASlot DEF ReportRunsTypeOK
<1>1. ASSUME NEW r \in ReportReplicas, NEW source \in {"manual", "analytics"}, TriggerReport(r, source) PROVE ReportRunsTypeOK'
  <2>1. execution' \in [Executions -> ExecutionRows] /\ \A f \in Executions : execution'[f] = execution[f] \/ execution'[f].on = r
    BY <1>1, ReportStored DEF TriggerReport
  <2> QED BY <1>0, <1>1, <2>1 DEF TriggerReport, ReportRunsTypeOK
<1>2. ASSUME NEW r \in ReportReplicas, RunScheduledReports(r) PROVE ReportRunsTypeOK'
  <2>1. execution' \in [Executions -> ExecutionRows] /\ \A f \in Executions : execution'[f] = execution[f] \/ execution'[f].on = r
    BY <1>0, <1>2, ReportStored DEF RunScheduledReports
  <2> QED BY <1>0, <1>2, <2>1 DEF RunScheduledReports, ReportRunsTypeOK
<1>3. ASSUME NEW schedule \in Schedules, NEW active \in BOOLEAN, SetDefinition(schedule, active) PROVE ReportRunsTypeOK'
  BY <1>0, <1>3 DEF SetDefinition, ReportRunsTypeOK
<1>4. CASE NextSlot
  <2>1. slot' \in 0..MaxSlots
    BY <1>0, <1>4 DEF NextSlot
  <2>2. excused' \subseteq 0..MaxSlots
    BY <1>0, <1>4 DEF NextSlot
  <2> QED BY <1>0, <1>4, <2>1, <2>2 DEF NextSlot, ReportRunsTypeOK
<1>5. ASSUME NEW e \in Executions, StartExecution(e) PROVE ReportRunsTypeOK'
  <2>1. execution' = [execution EXCEPT ![e] = [execution[e] EXCEPT !.status = "running"]] /\ execution[e].on # NoReplica
    BY <1>0, <1>5 DEF StartExecution, ExecutionRows
  <2>2. [execution[e] EXCEPT !.status = "running"] \in ExecutionRows /\ [execution[e] EXCEPT !.status = "running"].on = execution[e].on
    BY <1>0 DEF ExecutionRows, ExecutionStatuses
  <2> QED BY <1>0, <1>5, <2>1, <2>2 DEF StartExecution, ReportRunsTypeOK
<1>6. ASSUME NEW e \in Executions, FinishExecution(e) PROVE ReportRunsTypeOK'
  <2>1. PICK outcome \in Outcomes : execution' = [execution EXCEPT ![e].status = outcome, ![e].on = NoReplica]
    BY <1>6 DEF FinishExecution
  <2> DEFINE row == [execution[e] EXCEPT !.status = outcome, !.on = NoReplica]
  <2>2. execution' = [execution EXCEPT ![e] = row]
    BY <1>0, <2>1
  <2>3. row \in ExecutionRows /\ row.status \in {"complete", "failed"}
    BY <1>0 DEF ExecutionRows, ExecutionStatuses, Outcomes
  <2> HIDE DEF row
  <2> QED BY <1>0, <1>6, <2>2, <2>3 DEF FinishExecution, ReportRunsTypeOK
<1>7. ASSUME NEW r \in ReportReplicas, CrashOfReports(r) PROVE ReportRunsTypeOK'
  <2> DEFINE taken == {e \in Executions : execution[e].on = r}
  <2>1. /\ reportCrashes < MaxReportCrashes /\ reportCrashes' = reportCrashes + 1 /\ interrupted' = interrupted \cup taken
        /\ execution' = [e \in Executions |-> IF e \in taken THEN [execution[e] EXCEPT !.on = NoReplica] ELSE execution[e]]
        /\ UNCHANGED <<definition, slot, ticked, excused>>
    BY <1>7 DEF CrashOfReports
  <2>2. \A e \in Executions : [execution[e] EXCEPT !.on = NoReplica] \in ExecutionRows
    BY <1>0 DEF ExecutionRows
  <2>3. execution' \in [Executions -> ExecutionRows]
    BY <1>0, <2>1, <2>2
  <2>4. reportCrashes' \in 0..MaxReportCrashes
    BY <1>0, <2>1
  <2>5. \A e \in Executions : execution'[e].on = NoReplica => execution'[e].status \in {"none", "complete", "failed"} \/ e \in interrupted'
    BY <1>0, <2>1
  <2> QED BY <1>0, <2>1, <2>3, <2>4, <2>5 DEF ReportRunsTypeOK
<1>8. CASE UNCHANGED reportVars
  BY <1>0, <1>8 DEF reportVars, ReportRunsTypeOK
<1> QED BY <1>1, <1>2, <1>3, <1>4, <1>5, <1>6, <1>7, <1>8 DEF ReportRunsNext

-----------------------------------------------------------------------------
\* The types of the queue in the field.
\* The drains that have an operation in their copies.
Holders(i) == {d \in Drains : i \in drain[d].left}

\* What the invariant of the queue does not say of the types; an operation is tried as
\* often as it may be taken, and once for each copy that has it.
QueueMore ==
  /\ open \in BOOLEAN /\ syncTag \in BOOLEAN /\ dueDrains \subseteq PageDrains
  /\ breaks \in 0..MaxBreaks /\ closes \in 0..MaxCloses
  /\ \A i \in OpIds : attempts[i] + Cardinality(Holders(i)) <= MAX_ATTEMPTS + Cardinality(Drains)

LEMMA DrainsAreFinite ==
  /\ IsFiniteSet(Drains) /\ Cardinality(Drains) \in Nat
  /\ \A S \in SUBSET Drains : IsFiniteSet(S) /\ Cardinality(S) \in Nat /\ Cardinality(S) <= Cardinality(Drains)
  /\ \A S \in SUBSET Drains : \A T \in SUBSET S : Cardinality(T) <= Cardinality(S)
  /\ \A S \in SUBSET Drains : \A d \in S : Cardinality(S \ {d}) = Cardinality(S) - 1
<1>1. IsFiniteSet(Drains)
  BY OfflineQueueAssumption, FS_AddElement DEF Drains
<1>2. \A S \in SUBSET Drains : IsFiniteSet(S) /\ Cardinality(S) \in Nat /\ Cardinality(S) <= Cardinality(Drains)
  BY <1>1, FS_Subset, FS_CardinalityType
<1>3. \A S \in SUBSET Drains : \A T \in SUBSET S : Cardinality(T) <= Cardinality(S)
  BY <1>2, FS_Subset
<1>4. \A S \in SUBSET Drains : \A d \in S : Cardinality(S \ {d}) = Cardinality(S) - 1
  BY <1>2, FS_RemoveElement
<1> QED BY <1>1, <1>2, <1>3, <1>4, FS_CardinalityType

LEMMA HoldersAreDrains == \A i : Holders(i) \in SUBSET Drains
BY DEF Holders

LEMMA QueueTyped == QueueInv /\ QueueMore => OfflineQueueTypeOK
<1> SUFFICES ASSUME QueueInv, QueueMore PROVE OfflineQueueTypeOK
  OBVIOUS
<1>1. attempts \in [OpIds -> 0..MAX_ATTEMPTS + Cardinality(Drains)]
  <2>1. MAX_ATTEMPTS + Cardinality(Drains) \in Nat /\ attempts \in [OpIds -> Nat]
    BY DrainsAreFinite, OfflineQueueAssumption DEF QueueInv, QueueTypes
  <2>2. ASSUME NEW i \in OpIds PROVE attempts[i] \in 0..MAX_ATTEMPTS + Cardinality(Drains)
    <3>1. Cardinality(Holders(i)) \in Nat /\ attempts[i] \in Nat
      BY <2>1, HoldersAreDrains, DrainsAreFinite
    <3>2. attempts[i] + Cardinality(Holders(i)) <= MAX_ATTEMPTS + Cardinality(Drains)
      BY DEF QueueMore
    <3> QED BY <2>1, <3>1, <3>2
  <2> QED BY <2>1, <2>2
<1> QED BY <1>1 DEF QueueInv, QueueTypes, QueueMore, OfflineQueueTypeOK

LEMMA QueueInitTyped == OfflineQueueInit => QueueMore
<1> SUFFICES ASSUME OfflineQueueInit PROVE QueueMore
  OBVIOUS
<1>1. 0 \in 0..MaxBreaks /\ 0 \in 0..MaxCloses
  BY OfflineQueueAssumption
<1>2. ASSUME NEW i \in OpIds PROVE attempts[i] + Cardinality(Holders(i)) <= MAX_ATTEMPTS + Cardinality(Drains)
  <2>1. attempts[i] = 0
    BY DEF OfflineQueueInit
  <2>2. /\ Cardinality(Holders(i)) \in Nat /\ Cardinality(Drains) \in Nat
        /\ Cardinality(Holders(i)) <= Cardinality(Drains)
    BY HoldersAreDrains, DrainsAreFinite
  <2>3. MAX_ATTEMPTS \in Nat
    BY OfflineQueueAssumption
  <2> QED BY <2>1, <2>2, <2>3
<1>3. open \in BOOLEAN /\ syncTag \in BOOLEAN /\ dueDrains \subseteq PageDrains
  BY DEF OfflineQueueInit
<1>4. breaks \in 0..MaxBreaks /\ closes \in 0..MaxCloses
  BY <1>1 DEF OfflineQueueInit
<1> QED BY <1>2, <1>3, <1>4 DEF QueueMore

\* An operation that no other drain takes has no more holders.
LEMMA HeldAsBefore ==
  ASSUME QueueTypes, NEW i \in OpIds, Holders(i)' \subseteq Holders(i), attempts'[i] = attempts[i],
         attempts[i] + Cardinality(Holders(i)) <= MAX_ATTEMPTS + Cardinality(Drains)
  PROVE  attempts'[i] + Cardinality(Holders(i)') <= MAX_ATTEMPTS + Cardinality(Drains)
<1>1. Cardinality(Holders(i)') <= Cardinality(Holders(i)) /\ Cardinality(Holders(i)') \in Nat /\ Cardinality(Holders(i)) \in Nat
  <2>1. PICK T : T = Holders(i)'
    OBVIOUS
  <2>2. T \subseteq Holders(i) /\ Holders(i) \in SUBSET Drains
    BY <2>1, HoldersAreDrains
  <2>3. Cardinality(T) <= Cardinality(Holders(i)) /\ Cardinality(T) \in Nat /\ Cardinality(Holders(i)) \in Nat
    BY <2>2, DrainsAreFinite
  <2> QED BY <2>1, <2>3
<1>2. attempts[i] \in Nat /\ MAX_ATTEMPTS \in Nat /\ Cardinality(Drains) \in Nat
  BY DrainsAreFinite, OfflineQueueAssumption DEF QueueTypes
<1> QED BY <1>1, <1>2

LEMMA QueueNextTyped == QueueInv /\ QueueMore /\ [OfflineQueueNext]_queueVars => QueueMore'
<1> SUFFICES ASSUME QueueInv, QueueMore, [OfflineQueueNext]_queueVars PROVE QueueMore'
  OBVIOUS
<1> DEFINE Tried == \A i \in OpIds : attempts[i] + Cardinality(Holders(i)) <= MAX_ATTEMPTS + Cardinality(Drains)
<1>0. /\ QueueTypes /\ Tried
      /\ open \in BOOLEAN /\ syncTag \in BOOLEAN /\ dueDrains \subseteq PageDrains
      /\ breaks \in 0..MaxBreaks /\ closes \in 0..MaxCloses /\ MaxBreaks \in Nat /\ MaxCloses \in Nat
  BY OfflineQueueAssumption DEF QueueInv, QueueMore
<1>a. UNCHANGED <<drain, attempts>> => Tried'
  BY <1>0 DEF Holders
<1>1. CASE SubmitForm \/ FormAnswered \/ FormFails \/ EnqueueOperation \/ UNCHANGED queueVars
  <2>1. UNCHANGED <<drain, attempts, open, syncTag, dueDrains, breaks, closes>>
    BY <1>1 DEF SubmitForm, FormAnswered, FormFails, EnqueueOperation, queueVars
  <2> QED BY <1>0, <1>a, <2>1 DEF QueueMore
<1>2. CASE RegisterSync \/ GoOnline \/ OpenPage \/ \E d \in PageDrains : SyncNow(d)
  <2>1. UNCHANGED <<drain, attempts, breaks, closes>>
    BY <1>2 DEF RegisterSync, GoOnline, OpenPage, SyncNow
  <2>2. open' \in BOOLEAN /\ syncTag' \in BOOLEAN
    BY <1>0, <1>2 DEF RegisterSync, GoOnline, OpenPage, SyncNow
  <2>3. dueDrains' \subseteq PageDrains
    BY <1>0, <1>2 DEF RegisterSync, GoOnline, OpenPage, SyncNow, CalledWhenOnline
  <2> QED BY <1>0, <1>a, <2>1, <2>2, <2>3 DEF QueueMore
<1>3. CASE GoOffline
  <2>1. breaks' \in 0..MaxBreaks
    BY <1>0, <1>3 DEF GoOffline
  <2> QED BY <1>0, <1>3, <1>a, <2>1 DEF GoOffline, QueueMore
<1>4. ASSUME NEW d \in Drains, drain[d] = IdleDrain, TakeCopy(d), UNCHANGED <<queued, attempts>> PROVE Tried'
  <2>1. drain' = [drain EXCEPT ![d].left = Sendable] /\ drain[d].left = {}
    BY <1>4 DEF TakeCopy, IdleDrain
  <2> SUFFICES ASSUME NEW i \in OpIds
               PROVE  attempts'[i] + Cardinality(Holders(i)') <= MAX_ATTEMPTS + Cardinality(Drains)
    OBVIOUS
  <2>2. CASE i \in Sendable
    <3>1. attempts[i] < MAX_ATTEMPTS /\ attempts[i] \in Nat /\ MAX_ATTEMPTS \in Nat
      BY <1>0, <2>2, OfflineQueueAssumption DEF Sendable, QueueTypes
    <3>2. PICK T : T = Holders(i)'
      OBVIOUS
    <3>3. T \in SUBSET Drains
      BY <3>2 DEF Holders
    <3>4. Cardinality(T) \in Nat /\ Cardinality(T) <= Cardinality(Drains) /\ Cardinality(Drains) \in Nat
      BY <3>3, DrainsAreFinite
    <3> QED BY <1>4, <3>1, <3>2, <3>4
  <2>3. CASE i \notin Sendable
    <3>1. \A e \in Drains : drain'[e].left = IF e = d THEN Sendable ELSE drain[e].left
      BY <1>0, <2>1 DEF QueueTypes, DrainStates
    <3>2. Holders(i)' \subseteq Holders(i)
      BY <2>3, <3>1 DEF Holders
    <3> QED BY <1>0, <1>4, <3>2, HeldAsBefore
  <2> QED BY <2>2, <2>3
<1>5. ASSUME NEW d \in PageDrains, StartPageDrain(d) PROVE QueueMore'
  <2>1. Tried'
    BY <1>4, <1>5, <1>a DEF StartPageDrain, Drains
  <2> QED BY <1>0, <1>5, <2>1 DEF StartPageDrain, QueueMore
<1>6. CASE StartWorkerDrain
  <2>1. Tried'
    BY <1>4, <1>6 DEF StartWorkerDrain, Drains
  <2>2. syncTag' \in BOOLEAN
    BY <1>6 DEF StartWorkerDrain
  <2> QED BY <1>0, <1>6, <2>1, <2>2 DEF StartWorkerDrain, QueueMore
<1>7. ASSUME NEW d \in Drains, SendNext(d) PROVE QueueMore'
  <2>1. UNCHANGED <<attempts, open, syncTag, dueDrains, breaks, closes>>
    BY <1>7 DEF SendNext
  <2>2. \A e \in Drains : drain'[e].left = drain[e].left
    BY <1>0, <1>7 DEF SendNext, QueueTypes, DrainStates
  <2>3. \A i \in OpIds : Holders(i)' \subseteq Holders(i)
    BY <2>2 DEF Holders
  <2>4. Tried'
    BY <1>0, <2>1, <2>3, HeldAsBefore
  <2> QED BY <1>0, <2>1, <2>4 DEF QueueMore
<1>8. ASSUME NEW d \in Drains, RecordAnswer(d) PROVE QueueMore'
  <2>0. PICK id : id = NextInCopy(drain[d].left)
    OBVIOUS
  <2>1. /\ drain[d].answer # "none" /\ UNCHANGED <<open, syncTag, dueDrains, breaks, closes>>
        /\ drain' = [drain EXCEPT ![d] = [left |-> drain[d].left \ {id}, answer |-> "none"]]
    BY <1>0, <1>8, <2>0 DEF RecordAnswer, QueueTypes
  <2>2. id \in drain[d].left /\ id \in OpIds
    BY <1>0, <2>0, <2>1, NextOfCopy DEF QueueTypes, NextInCopy
  <2>3. \A i \in OpIds : attempts'[i] \in Nat /\ (attempts'[i] = attempts[i] \/ (i = id /\ attempts'[i] = attempts[i] + 1))
    BY <1>0, <1>8, <2>0 DEF RecordAnswer, DeleteOperation, IncrementAttempts, QueueTypes
  <2>4. \A e \in Drains : drain'[e].left = IF e = d THEN drain[e].left \ {id} ELSE drain[e].left
    BY <1>0, <2>1 DEF QueueTypes
  <2>5. \A i \in OpIds : Holders(i)' \subseteq Holders(i)
    BY <2>4 DEF Holders
  <2>6. Holders(id)' = Holders(id) \ {d} /\ d \in Holders(id)
    BY <2>2, <2>4 DEF Holders
  <2>7. ASSUME NEW i \in OpIds
        PROVE  attempts'[i] + Cardinality(Holders(i)') <= MAX_ATTEMPTS + Cardinality(Drains)
    <3>1. CASE attempts'[i] = attempts[i]
      BY <1>0, <2>5, <3>1, HeldAsBefore
    <3>2. CASE i = id /\ attempts'[i] = attempts[i] + 1
      <4>1. PICK T : T = Holders(id)'
        OBVIOUS
      <4>2. Cardinality(T) = Cardinality(Holders(id)) - 1 /\ Cardinality(Holders(id)) \in Nat
        BY <2>6, <4>1, HoldersAreDrains, DrainsAreFinite
      <4>3. attempts[id] \in Nat /\ MAX_ATTEMPTS \in Nat /\ Cardinality(Drains) \in Nat
        BY <1>0, <2>2, DrainsAreFinite, OfflineQueueAssumption DEF QueueTypes
      <4>4. attempts[id] + Cardinality(Holders(id)) <= MAX_ATTEMPTS + Cardinality(Drains)
        BY <1>0, <2>2
      <4>5. attempts'[id] + Cardinality(T) <= MAX_ATTEMPTS + Cardinality(Drains)
        BY <3>2, <4>2, <4>3, <4>4
      <4>6. Cardinality(Holders(i)') = Cardinality(T)
        BY <3>2, <4>1
      <4> QED BY <3>2, <4>5, <4>6
    <3> QED BY <2>3, <3>1, <3>2
  <2> QED BY <1>0, <2>1, <2>7 DEF QueueMore
<1>9. CASE ClosePage
  <2>1. UNCHANGED <<attempts, syncTag, breaks>> /\ open' = FALSE /\ dueDrains' = {}
        /\ drain' = [d \in Drains |-> IF d \in PageDrains THEN IdleDrain ELSE drain[d]]
    BY <1>9 DEF ClosePage
  <2>2. closes' \in 0..MaxCloses
    BY <1>0, <1>9 DEF ClosePage
  <2>3. \A i \in OpIds : Holders(i)' \subseteq Holders(i)
    BY <2>1 DEF Holders, IdleDrain
  <2>4. Tried'
    BY <1>0, <2>1, <2>3, HeldAsBefore
  <2>5. open' \in BOOLEAN /\ dueDrains' \subseteq PageDrains
    BY <2>1
  <2> QED BY <1>0, <2>1, <2>2, <2>4, <2>5 DEF QueueMore
<1> QED BY <1>1, <1>2, <1>3, <1>5, <1>6, <1>7, <1>8, <1>9 DEF OfflineQueueNext, RequestStep, DrainStep

-----------------------------------------------------------------------------
\* The types of the pipelines.
EtlMore ==
  /\ \A r \in EtlRows : original[r].stamp <= MaxClock
  /\ \A t \in writing : t.stamp <= MaxClock
  /\ clock <= MaxClock /\ etlWrites \in 0..MaxEtlWrites
  /\ etl.high <= MaxClock /\ watermark <= MaxClock
  /\ late \subseteq EtlRows /\ skipped \subseteq EtlRows

LEMMA EtlTyped == EtlInv /\ EtlMore => EtlTypeOK
<1> SUFFICES ASSUME EtlInv, EtlMore PROVE EtlTypeOK
  OBVIOUS
<1>1. MaxClock \in Nat
  BY EtlAssumption
<1>2. original \in [EtlRows -> [version: Nat, stamp: 0..MaxClock]]
  <2>1. \A r \in EtlRows : original[r] \in [version: Nat, stamp: 0..MaxClock]
    BY <1>1 DEF EtlInv, EtlTypes, EtlMore
  <2> QED BY <2>1 DEF EtlInv, EtlTypes
<1>3. writing \subseteq [row: EtlRows, stamp: Stamps]
  BY <1>1 DEF EtlInv, EtlTypes, EtlMore, Stamps
<1>4. clock \in Stamps /\ etl.high \in 0..MaxClock /\ watermark \in 0..MaxClock
  BY <1>1 DEF EtlInv, EtlTypes, EtlMore, Stamps
<1>5. etl.pc = "write" => DOMAIN etl.page \subseteq EtlRows /\ \A r \in DOMAIN etl.page : etl.page[r] \in Nat
  BY DEF EtlInv, EtlTypes, PageRows
<1> QED BY <1>2, <1>3, <1>4, <1>5 DEF EtlInv, EtlTypes, EtlMore, EtlTypeOK

LEMMA EtlInitTyped == EtlInit => EtlMore
<1> SUFFICES ASSUME EtlInit PROVE EtlMore
  OBVIOUS
<1>1. /\ \A r \in EtlRows : original[r].stamp = 0
      /\ writing = {} /\ clock = 1 /\ etlWrites = 0 /\ etl.high = 0 /\ watermark = 0 /\ late = {} /\ skipped = {}
  BY DEF EtlInit, EtlIdle
<1> QED BY <1>1, EtlAssumption DEF EtlMore

LEMMA EtlNextTyped == EtlInv /\ EtlMore /\ [EtlNext]_etlVars => EtlMore'
<1> SUFFICES ASSUME EtlInv, EtlMore, [EtlNext]_etlVars PROVE EtlMore'
  OBVIOUS
<1>0. EtlTypes /\ EtlIsRun /\ MaxClock \in Nat /\ MaxEtlWrites \in Nat
  BY EtlAssumption DEF EtlInv
<1>1. CASE Tick
  <2>1. clock' <= MaxClock
    BY <1>0, <1>1 DEF Tick, EtlTypes
  <2> QED BY <1>1, <2>1 DEF Tick, EtlMore
<1>2. ASSUME NEW r \in EtlRows, BeginWrite(r) PROVE EtlMore'
  <2>1. etlWrites' \in 0..MaxEtlWrites
    BY <1>0, <1>2 DEF BeginWrite, EtlMore
  <2> QED BY <1>2, <2>1 DEF BeginWrite, EtlMore
<1>3. ASSUME NEW t \in writing, CommitWrite(t) PROVE EtlMore'
  <2>1. t.row \in EtlRows /\ t.stamp <= MaxClock
    BY <1>0 DEF EtlTypes, EtlMore
  <2>2. /\ writing' \subseteq writing
        /\ original' = [original EXCEPT ![t.row] = [version |-> original[t.row].version + 1, stamp |-> t.stamp]]
        /\ late' \subseteq late \cup {t.row} /\ skipped' \subseteq skipped
        /\ UNCHANGED <<clock, etlWrites, store, watermark>>
    BY <1>3 DEF CommitWrite
  <2>3. etl'.high = etl.high
    BY <1>0, <1>3 DEF CommitWrite, EtlIsRun
  <2>4. \A r \in EtlRows : original'[r].stamp <= MaxClock
    BY <1>0, <2>1, <2>2 DEF EtlTypes, EtlMore
  <2> QED BY <2>1, <2>2, <2>3, <2>4 DEF EtlMore
<1>4. CASE StartEtl
  <2>1. etl'.high = watermark
    BY <1>4 DEF StartEtl, EtlIdle
  <2> QED BY <1>4, <2>1 DEF StartEtl, EtlMore
<1>5. CASE BatchRead
  <2>1. PICK before \in FirstRows(etl.offset), through \in FirstRows(etl.offset + BATCH_SIZE) :
          /\ \/ etl' = [etl EXCEPT !.pc = "finish"]
             \/ \E last \in through \ before :
                  etl'.high = IF original[last].stamp > etl.high THEN original[last].stamp ELSE etl.high
          /\ late' = late \ (through \ before) /\ skipped' = skipped \ (through \ before)
    BY <1>5 DEF BatchRead
  <2>2. through \subseteq EtlRows
    BY DEF FirstRows, ReadSince
  <2>3. etl'.high <= MaxClock
    BY <1>0, <2>1, <2>2 DEF EtlMore, EtlIsRun
  <2> QED BY <1>5, <2>1, <2>3 DEF BatchRead, EtlMore
<1>6. CASE WriteBatch
  <2>1. etl'.high = etl.high
    BY <1>0, <1>6 DEF WriteBatch, EtlIsRun
  <2> QED BY <1>6, <2>1 DEF WriteBatch, EtlMore
<1>7. CASE SetWatermark \/ EtlFails
  <2>1. etl'.high = 0 /\ skipped' \subseteq EtlRows /\ watermark' \in {watermark, etl.high}
    BY <1>7 DEF SetWatermark, EtlFails, EtlIdle, LeftBehind, EtlMore
  <2>2. UNCHANGED <<original, writing, clock, etlWrites, late>>
    BY <1>7 DEF SetWatermark, EtlFails
  <2> QED BY <1>0, <2>1, <2>2 DEF EtlMore
<1>8. CASE UNCHANGED etlVars
  BY <1>8 DEF etlVars, EtlMore
<1> QED BY <1>1, <1>2, <1>3, <1>4, <1>5, <1>6, <1>7, <1>8 DEF EtlNext

IngestMore ==
  /\ ingest.tries <= RETRIES
  /\ loaded \subseteq Features /\ arrived \subseteq Early
  /\ recorded \subseteq IngestJobs \X Features /\ unrecorded \subseteq IngestJobs \X Features

LEMMA IngestTyped == IngestInv /\ IngestMore => IngestTypeOK
<1> SUFFICES ASSUME IngestInv, IngestMore PROVE IngestTypeOK
  OBVIOUS
<1>1. ingest \in [pc: {"idle", "fetch", "quarantine", "load", "mark", "announce", "failing"},
                  list: SUBSET IngestJobs, job: 0..MaxJobs, tries: 0..RETRIES, refused: SUBSET Features]
  <2>1. \A j \in IngestJobs \cup {0} : j \in 0..MaxJobs
    BY IngestAssumption DEF IngestJobs
  <2>2. ingest.tries \in 0..RETRIES
    BY IngestAssumption DEF IngestInv, IngestMore
  <2> QED BY <2>1, <2>2 DEF IngestInv
<1> QED BY <1>1 DEF IngestInv, IngestMore, IngestTypeOK

LEMMA IngestInitTyped == IngestInit => IngestMore
BY IngestAssumption DEF IngestInit, IngestIdle, IngestMore

LEMMA IngestNextTyped == IngestInv /\ IngestMore /\ [IngestNext]_ingestVars => IngestMore'
<1> SUFFICES ASSUME IngestInv, IngestMore, [IngestNext]_ingestVars PROVE IngestMore'
  OBVIOUS
<1>0. /\ ingest \in [pc: {"idle", "fetch", "quarantine", "load", "mark", "announce", "failing"},
                     list: SUBSET IngestJobs, job: IngestJobs \cup {0}, tries: Nat, refused: SUBSET Features]
      /\ ingest.pc # "idle" => ingest.job \in IngestJobs
      /\ RETRIES \in Nat
  BY IngestAssumption DEF IngestInv, FileIsUnderWay
<1>a. ingest' = NextAttempt => ingest'.tries <= RETRIES
  BY <1>0 DEF NextAttempt, IngestIdle
<1>1. CASE (\E j \in IngestJobs : Upload(j)) \/ UNCHANGED ingestVars
  BY <1>1 DEF Upload, ingestVars, IngestMore
<1>2. CASE \E f \in Early : TimeComes(f)
  BY <1>2 DEF TimeComes, IngestMore
<1>3. CASE PollIngestionJobs
  BY <1>0, <1>3 DEF PollIngestionJobs, IngestIdle, IngestMore
<1>4. CASE ProcessFile \/ JobRaises
  BY <1>0, <1>4 DEF ProcessFile, JobRaises, IngestMore
<1>5. CASE WriteQuarantineRecords
  <2>1. ingest.job \in IngestJobs /\ ingest.refused \subseteq Features
    BY <1>0, <1>5 DEF WriteQuarantineRecords
  <2>2. {ingest.job} \X ingest.refused \subseteq IngestJobs \X Features
    BY <2>1
  <2>3. ingest'.tries = ingest.tries
    BY <1>0, <1>5 DEF WriteQuarantineRecords
  <2> QED BY <1>5, <2>2, <2>3 DEF WriteQuarantineRecords, IngestMore
<1>6. CASE UpsertFeatures
  <2>1. FileOf[ingest.job] \subseteq Features
    BY <1>0, <1>6 DEF UpsertFeatures, Features
  <2>2. ingest'.tries = ingest.tries
    BY <1>0, <1>6 DEF UpsertFeatures
  <2> QED BY <1>6, <2>1, <2>2 DEF UpsertFeatures, IngestMore
<1>7. CASE MarkComplete
  BY <1>0, <1>7 DEF MarkComplete, IngestMore
<1>8. CASE PublishComplete
  BY <1>0, <1>8 DEF PublishComplete, IngestIdle, IngestMore
<1>9. CASE MarkFailed \/ IngestWorkerDies
  BY <1>9, <1>a DEF MarkFailed, IngestWorkerDies, IngestMore
<1> QED BY <1>1, <1>2, <1>3, <1>4, <1>5, <1>6, <1>7, <1>8, <1>9 DEF IngestNext

ZonesMore ==
  /\ \A k \in Classes : analysis[k] <= MaxAnalyses
  /\ zoneRun.at \in 1..(MaxClass + 1)

LEMMA ZonesTyped == ZonesInv /\ ZonesMore => ZonesTypeOK
<1> SUFFICES ASSUME ZonesInv, ZonesMore PROVE ZonesTypeOK
  OBVIOUS
<1>1. ASSUME NEW k \in Classes
      PROVE  /\ analysis[k] \in 0..MaxAnalyses /\ zones[k] \in 0..MaxAnalyses
             /\ shown[k] \in 0..MaxAnalyses /\ zoneRun.got[k] \in 0..MaxAnalyses
  <2>1. /\ analysis[k] \in Nat /\ zones[k] \in Nat /\ shown[k] \in Nat /\ zoneRun.got[k] \in Nat /\ MaxAnalyses \in Nat
        /\ analysis[k] <= MaxAnalyses /\ zones[k] <= analysis[k] /\ shown[k] <= zones[k] /\ zoneRun.got[k] <= analysis[k]
    BY ZoneAssumption DEF ZonesInv, ZonesMore, ClientsSeeTheZones
  <2> QED BY <2>1
<1>2. zoneRun.got \in [Classes -> 0..MaxAnalyses]
  BY <1>1 DEF ZonesInv
<1>3. analysis \in [Classes -> 0..MaxAnalyses] /\ zones \in [Classes -> 0..MaxAnalyses] /\ shown \in [Classes -> 0..MaxAnalyses]
  BY <1>1 DEF ZonesInv
<1> QED BY <1>2, <1>3 DEF ZonesInv, ZonesMore, ZonesTypeOK

LEMMA ZonesInitTyped == ZonesInit => ZonesMore
BY ZoneAssumption DEF ZonesInit, NoZones, ZonesIdle, ZonesMore

LEMMA ZonesNextTyped == ZonesInv /\ ZonesMore /\ [ZonesNext]_zoneVars => ZonesMore'
<1> SUFFICES ASSUME ZonesInv, ZonesMore, [ZonesNext]_zoneVars PROVE ZonesMore'
  OBVIOUS
<1>0. /\ analysis \in [Classes -> Nat] /\ MaxAnalyses \in Nat /\ MaxClass \in Nat \ {0}
      /\ zoneRun \in [pc: {"idle", "fetch", "load", "publish"}, at: Nat, got: [Classes -> Nat]]
  BY ZoneAssumption DEF ZonesInv
<1>1. ASSUME NEW k \in Classes, Analyse(k) PROVE ZonesMore'
  <2>1. \A j \in Classes : analysis'[j] <= MaxAnalyses
    BY <1>0, <1>1 DEF Analyse, ZonesMore
  <2> QED BY <1>1, <2>1 DEF Analyse, ZonesMore
<1>2. CASE StartZones \/ PublishHazardUpdate \/ ZonesFail
  <2>1. zoneRun'.at = 1 /\ UNCHANGED analysis
    BY <1>2 DEF StartZones, PublishHazardUpdate, ZonesFail, ZonesIdle
  <2> QED BY <1>0, <2>1 DEF ZonesMore
<1>3. CASE FetchHazardZones \/ LoadHazardZones
  <2>1. UNCHANGED analysis
    BY <1>3 DEF FetchHazardZones, LoadHazardZones
  <2>2. \/ zoneRun.at \in Classes /\ zoneRun'.at = zoneRun.at + 1
        \/ zoneRun'.at = 1
        \/ zoneRun'.at = zoneRun.at
    BY <1>0, <1>3 DEF FetchHazardZones, LoadHazardZones
  <2>3. zoneRun'.at \in 1..(MaxClass + 1)
    BY <1>0, <2>2 DEF ZonesMore, Classes
  <2> QED BY <2>1, <2>3 DEF ZonesMore
<1>4. CASE RetryLoad
  <2>1. zoneRun'.at = 1 /\ UNCHANGED analysis
    BY <1>0, <1>4 DEF RetryLoad
  <2> QED BY <1>0, <2>1 DEF ZonesMore
<1>5. CASE UNCHANGED zoneVars
  BY <1>5 DEF zoneVars, ZonesMore
<1> QED BY <1>1, <1>2, <1>3, <1>4, <1>5 DEF ZonesNext

-----------------------------------------------------------------------------
\* The parts of the model as a whole: a step of it is a step of a part or leaves the
\* part's variables alone.
BackgroundSteps ==
  /\ [TaskDeadlinesNext]_deadlineVars /\ [AccountsNext]_accountVars
  /\ [RoleGrantsNext]_roleVars /\ [RealtimeGatewayNext]_gatewayVars
  /\ [GatewayFanoutNext]_fanoutVars /\ [CallRecordingsNext]_recordingVars
  /\ [FileVersionsNext]_fileVars /\ [IncidentsNext]_incidentVars
  /\ [AuditTrailNext]_auditVars /\ [ReportRunsNext]_reportVars
  /\ [OfflineQueueNext]_queueVars
  /\ [EtlNext]_etlVars /\ [IngestNext]_ingestVars
  /\ [BoundariesNext]_boundaryVars /\ [ZonesNext]_zoneVars

LEMMA StepsAreBackgroundSteps == [MCNext]_allVars => BackgroundSteps
<1>1. CASE UNCHANGED allVars
  BY <1>1 DEF allVars, backgroundVars, pipelineVars, BackgroundSteps
<1>2. CASE UNCHANGED pipelineVars /\ (AmongDeadlines(TaskDeadlinesNext) \/ AmongAccounts(AccountsNext))
  BY <1>2 DEF pipelineVars, AmongDeadlines, AmongAccounts, BackgroundSteps
<1>3. CASE UNCHANGED pipelineVars /\ (AmongRoles(RoleGrantsNext) \/ AmongGateway(RealtimeGatewayNext))
  BY <1>3 DEF pipelineVars, AmongRoles, AmongGateway, BackgroundSteps
<1>4. CASE UNCHANGED pipelineVars /\ (AmongFanout(GatewayFanoutNext) \/ AmongRecordings(CallRecordingsNext))
  BY <1>4 DEF pipelineVars, AmongFanout, AmongRecordings, BackgroundSteps
<1>5. CASE UNCHANGED pipelineVars /\ (AmongFiles(FileVersionsNext) \/ AmongIncidents(IncidentsNext))
  BY <1>5 DEF pipelineVars, AmongFiles, AmongIncidents, BackgroundSteps
<1>6. CASE UNCHANGED pipelineVars /\ (AmongAudit(AuditTrailNext) \/ AmongReports(ReportRunsNext))
  BY <1>6 DEF pipelineVars, AmongAudit, AmongReports, BackgroundSteps
<1>7. CASE UNCHANGED pipelineVars /\ AmongQueue(OfflineQueueNext)
  BY <1>7 DEF pipelineVars, AmongQueue, BackgroundSteps
<1>8. CASE AmongPipelines("etl", EtlNext) \/ AmongPipelines("ingest", IngestNext)
  BY <1>8 DEF backgroundVars, AmongPipelines, BackgroundSteps
<1>9. CASE AmongPipelines("boundaries", BoundariesNext) \/ AmongPipelines("zones", ZonesNext)
  BY <1>9 DEF backgroundVars, AmongPipelines, BackgroundSteps
<1> QED BY <1>1, <1>2, <1>3, <1>4, <1>5, <1>6, <1>7, <1>8, <1>9 DEF MCNext, BackgroundNext, PipelinesNext

\* Every variable of the fifteen parts keeps its type, whatever the constants. The types
\* that are not inductive by themselves are carried by the invariants above: a client that
\* is dropped was connected, a message names a recording that has a row, a call copied
\* the row of a file that exists, an operation is tried once for each copy that holds it.
THEOREM BackgroundTypeOK == MCSpec => []TypeOK
<1> DEFINE People == /\ TaskDeadlinesTypeOK /\ AccountTypes /\ RoleGrantsTypeOK
                     /\ GatewayInv /\ DroppedLast /\ disturbed \in BOOLEAN
           Objects == /\ GatewayFanoutTypeOK /\ RecordingTypes /\ FileInv /\ FileMore /\ IncidentsInv
           Queues == AuditInv /\ AuditMore /\ ReportRunsTypeOK /\ QueueInv /\ QueueMore
           Data == EtlInv /\ EtlMore /\ IngestInv /\ IngestMore /\ BoundariesInv /\ ZonesInv /\ ZonesMore
           Inv == People /\ Objects /\ Queues /\ Data
<1>1. MCInit => Inv
  <2> SUFFICES ASSUME MCInit PROVE Inv
    OBVIOUS
  <2>1. People
    BY DeadlinesInitTyped, AccountsInitTyped, RoleGrantsInitTyped, GatewayInitInv, DroppedLastInit DEF MCInit
  <2>2. Objects
    BY FanoutInitTyped, RecordingsInitTyped, FileInitInv, FilesInitTyped, IncidentsInitInv DEF MCInit
  <2>3. Queues
    BY AuditInitInv, AuditInitTyped, ReportsInitTyped, QueueInitInv, QueueInitTyped DEF MCInit
  <2>4. Data
    BY EtlInitInv, EtlInitTyped, IngestInitInv, IngestInitTyped, BoundariesInitInv, ZonesInitInv, ZonesInitTyped
    DEF MCInit
  <2> QED BY <2>1, <2>2, <2>3, <2>4
<1>2. Inv /\ [MCNext]_allVars => Inv'
  <2> SUFFICES ASSUME Inv, [MCNext]_allVars PROVE Inv'
    OBVIOUS
  <2>0. BackgroundSteps
    BY StepsAreBackgroundSteps
  <2>1. People'
    <3>1. TaskDeadlinesTypeOK' /\ AccountTypes' /\ RoleGrantsTypeOK' /\ GatewayInv'
      BY <2>0, DeadlinesNextTyped, AccountsNextTyped, RoleGrantsNextTyped, GatewayNextInv DEF BackgroundSteps
    <3> QED BY <2>0, <3>1, DroppedLastNext, PresenceTypedNext DEF BackgroundSteps, GatewayInv
  <2>2. Objects'
    BY <2>0, FanoutNextTyped, RecordingsNextTyped, FileNextInv, FilesNextTyped, IncidentsNextInv DEF BackgroundSteps
  <2>3. Queues'
    BY <2>0, AuditNextInv, AuditNextTyped, ReportsNextTyped, QueueNextInv, QueueNextTyped DEF BackgroundSteps
  <2>4. Data'
    BY <2>0, EtlNextInv, EtlNextTyped, IngestNextInv, IngestNextTyped, BoundariesNextInv, ZonesNextInv, ZonesNextTyped
    DEF BackgroundSteps
  <2> QED BY <2>1, <2>2, <2>3, <2>4
<1>3. Inv => TypeOK
  <2> SUFFICES ASSUME Inv PROVE TypeOK
    OBVIOUS
  <2>1. TaskDeadlinesTypeOK /\ AccountsTypeOK /\ RoleGrantsTypeOK /\ RealtimeGatewayTypeOK
    BY GatewayTyped DEF AccountTypes, GatewayInv
  <2>2. GatewayFanoutTypeOK /\ CallRecordingsTypeOK /\ FileVersionsTypeOK /\ IncidentsTypeOK
    BY FilesTyped DEF RecordingTypes, IncidentsInv
  <2>3. AuditTrailTypeOK /\ ReportRunsTypeOK /\ OfflineQueueTypeOK
    BY AuditTyped, QueueTyped
  <2>4. EtlTypeOK /\ IngestTypeOK /\ BoundariesTypeOK /\ ZonesTypeOK
    BY EtlTyped, IngestTyped, ZonesTyped DEF BoundariesInv
  <2> QED BY <2>1, <2>2, <2>3, <2>4 DEF TypeOK
<1> HIDE DEF Inv
<1> QED BY <1>1, <1>2, <1>3, PTL DEF MCSpec

\* What the instances share is right, whatever the constants: presence, the events of
\* a room, and the roles that assignments name.
THEOREM BackgroundSharesRightly == MCSpec => []SharedStateIsRight
<1> DEFINE Inv == GatewayInv /\ FanoutInv /\ GrantsInv
<1>1. MCInit => Inv
  BY GatewayInitInv, FanoutInitInv, GrantsInitInv DEF MCInit
<1>2. Inv /\ [MCNext]_allVars => Inv'
  BY StepsAreBackgroundSteps, GatewayNextInv, FanoutNextInv, GrantsNextInv DEF BackgroundSteps
<1>3. Inv => SharedStateIsRight
  <2>1. GrantsInv => GrantsHaveRoles
    BY DEF GrantsInv
  <2> QED BY <2>1, GatewayInvIsEnough, FanoutInvIsEnough DEF SharedStateIsRight
<1> HIDE DEF Inv
<1> QED BY <1>1, <1>2, <1>3, PTL DEF MCSpec

\* Rows and objects agree, whatever the constants: files and recordings.
THEOREM BackgroundObjectsAgree == MCSpec => []ObjectsAgree
<1> DEFINE Inv == FileInv /\ RecordingInv
<1>1. MCInit => Inv
  BY FileInitInv, RecordingInitInv DEF MCInit
<1>2. Inv /\ [MCNext]_allVars => Inv'
  BY StepsAreBackgroundSteps, FileNextInv, RecordingNextInv DEF BackgroundSteps
<1>3. Inv => ObjectsAgree
  <2>1. RecordingInv => ReadyHasArtifact
    BY DEF RecordingInv
  <2> QED BY <2>1, FileInvIsEnough DEF FileProperties, ObjectsAgree
<1> HIDE DEF Inv
<1> QED BY <1>1, <1>2, <1>3, PTL DEF MCSpec

\* Listeners, schedulers and pipelines do their work once and leave nothing out, whatever
\* the constants: the end of an incident, the archive, the reports of a day, the rows, the
\* files, the boundaries and the zones that are brought in.
THEOREM BackgroundWorksOnce == MCSpec => []BackgroundWorkIsDoneOnce
<1> DEFINE Inv == /\ IncidentsInv /\ AuditInv /\ ReportsInv
                  /\ EtlInv /\ IngestInv /\ BoundariesInv /\ ZonesInv
<1>1. MCInit => Inv
  BY IncidentsInitInv, AuditInitInv, ReportsInitInv, EtlInitInv, IngestInitInv, BoundariesInitInv, ZonesInitInv
  DEF MCInit
<1>2. Inv /\ [MCNext]_allVars => Inv'
  BY StepsAreBackgroundSteps, IncidentsNextInv, AuditNextInv, ReportsNextInv,
     EtlNextInv, IngestNextInv, BoundariesNextInv, ZonesNextInv DEF BackgroundSteps
<1>3. Inv => BackgroundWorkIsDoneOnce
  <2>1. AuditInv => NothingIsLost
    BY DEF AuditInv
  <2>2. EtlInv => StoreFollowsTheWatermark
    BY DEF EtlInv
  <2>3. IngestInv => FilesAreAccounted
    BY DEF IngestInv
  <2>4. BoundariesInv => BoundariesFollowTheSource
    BY DEF BoundariesInv
  <2>5. ZonesInv => ClientsSeeTheZones
    BY DEF ZonesInv
  <2> QED BY ResolvedAtMostOnce, <2>1, <2>2, <2>3, <2>4, <2>5, AccountedMeansOnce, ReportsInvIsEnough
          DEF BackgroundWorkIsDoneOnce
<1> HIDE DEF Inv
<1> QED BY <1>1, <1>2, <1>3, PTL DEF MCSpec

\* The queue of the field application among the other parts.
THEOREM BackgroundForgetsNothing == MCSpec => []SyncForgetsNothing
<1>1. MCInit => QueueInv
  BY QueueInitInv DEF MCInit
<1>2. QueueInv /\ [MCNext]_allVars => QueueInv'
  BY StepsAreBackgroundSteps, QueueNextInv DEF BackgroundSteps
<1>3. QueueInv => SyncForgetsNothing
  BY DEF QueueInv
<1> QED BY <1>1, <1>2, <1>3, PTL DEF MCSpec

\* The facts of an incident among the other parts: an action property.
THEOREM BackgroundFactsStay == MCSpec => FactsStay
<1>1. MCInit => IncidentsInv
  BY IncidentsInitInv DEF MCInit
<1>2. IncidentsInv /\ [MCNext]_allVars => IncidentsInv'
  BY StepsAreBackgroundSteps, IncidentsNextInv DEF BackgroundSteps
<1>3. IncidentsInv /\ [MCNext]_allVars =>
        /\ [rowOvertaken' \/ (location \subseteq location' /\ incident.stamps \subseteq incident'.stamps)]_incidentVars
        /\ [(incident.status \in FinishedStatuses /\ incident'.status \in WorkingStatuses) =>
             \/ rowOvertaken'
             \/ \E c \in IncidentCalls : /\ incidentCall[c].pc = "loaded" /\ ~incidentCall[c].auto
                                         /\ incidentCall'[c].pc = "idle"]_incidentVars
  BY StepsAreBackgroundSteps, IncidentStepsKeepFacts DEF BackgroundSteps, IncidentFactsStay
<1> QED BY <1>1, <1>2, <1>3, PTL DEF MCSpec, FactsStay, RecordedFactsStay, OnlyPeopleReopen

=============================================================================
