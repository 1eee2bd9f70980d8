---------------------------- MODULE PortalClient ----------------------------
(***************************************************************************)
(* Two things the web portal keeps for a user: the thread of a chat        *)
(* channel on his page                                                     *)
(* (src/apps/portal-web/src/components/chat/ChatThreadClient.tsx,          *)
(* components/realtime/usePortalRealtimeRoom.ts) and the session in his    *)
(* cookies (src/apps/portal-web/src/lib/auth.ts).  They share no state.    *)
(***************************************************************************)
EXTENDS Naturals, Sequences, FiniteSets

(***************************************************************************)
(* The thread.  The page is rendered with the messages of that moment;     *)
(* from then on it follows the events of the channel's room.  The hook     *)
(* that holds the socket depends on a function the component makes anew on *)
(* every render, so each change of state closes the socket and connects    *)
(* again; the socket it closes schedules one more connection.  A socket    *)
(* that was replaced before it was open is never closed by the page.       *)
(*                                                                         *)
(* missed are the messages of which an event found no socket in the room,  *)
(* outrun those for which the answer to an own change was older than       *)
(* what the channel held, orphaned the sockets the page let go of.         *)
(***************************************************************************)
CONSTANTS
  MaxMessages,     \* bound: messages of the channel
  RoomSockets,     \* sockets the page has at once
  NoSocket,
  MaxConnects,     \* bound: calls of connect()
  MaxThreadMoves   \* bound: posts, changes, keystrokes and failures

ASSUME PortalThreadAssumption ==
  /\ NoSocket \notin RoomSockets
  /\ {MaxMessages, MaxConnects, MaxThreadMoves} \subseteq Nat

VARIABLES
  body,        \* message -> its body in the database: 0 before it exists, Gone when deleted
  page,        \* "none", "rendered", "mounted" or "left"
  shownBody,   \* message -> its body on the page
  link,        \* socket -> how far it is
  wire,        \* socket -> events under way
  socketRef,   \* socketRef.current
  timers,      \* reconnect timers that run
  lastTimer,   \* the one in reconnectTimerRef is among them
  status,      \* of the hook
  rerender,    \* a state was set since the last render
  ownChanges,  \* answers under way to what the user did
  markedRead,  \* the highest sequence the page reported as read
  connects, threadMoves,
  missed, outrun, orphaned

threadVars == <<body, page, shownBody, link, wire, socketRef, timers, lastTimer, status, rerender,
  ownChanges, markedRead, connects, threadMoves, missed, outrun, orphaned>>

Messages == 1..MaxMessages
Gone == MaxThreadMoves + 1
Bodies == 0..Gone

ThreadEvent == [type: {"created", "edited", "deleted"}, id: Messages, body: Bodies]

Links == {"free", "fetching", "opening", "open", "joined", "closing"}

PortalThreadTypeOK ==
  /\ body \in [Messages -> Bodies] /\ shownBody \in [Messages -> Bodies]
  /\ page \in {"none", "rendered", "mounted", "left"}
  /\ link \in [RoomSockets -> Links] /\ wire \in [RoomSockets -> Seq(ThreadEvent)]
  /\ socketRef \in RoomSockets \cup {NoSocket}
  /\ timers \in 0..MaxConnects + Cardinality(RoomSockets) /\ lastTimer \in BOOLEAN
  /\ lastTimer => timers > 0
  /\ status \in {"connecting", "live", "offline"} /\ rerender \in BOOLEAN
  /\ ownChanges \subseteq ThreadEvent /\ markedRead \in 0..MaxMessages
  /\ connects \in 0..MaxConnects /\ threadMoves \in 0..MaxThreadMoves
  /\ missed \cup outrun \subseteq Messages /\ orphaned \subseteq RoomSockets

PortalThreadInit ==
  /\ body = [m \in Messages |-> 0] /\ shownBody = body
  /\ page = "none"
  /\ link = [s \in RoomSockets |-> "free"] /\ wire = [s \in RoomSockets |-> <<>>]
  /\ socketRef = NoSocket /\ timers = 0 /\ lastTimer = FALSE
  /\ status = "connecting" /\ rerender = FALSE
  /\ ownChanges = {} /\ markedRead = 0
  /\ connects = 0 /\ threadMoves = 0
  /\ missed = {} /\ outrun = {} /\ orphaned = {}

-----------------------------------------------------------------------------
ThreadMove == threadMoves < MaxThreadMoves /\ threadMoves' = threadMoves + 1

pageVars == <<page, shownBody, markedRead>>
roomVars == <<link, socketRef, timers, lastTimer, status, connects, orphaned>>

\* highestSequence
Highest == CHOOSE n \in 0..MaxMessages :
  /\ n = 0 \/ shownBody[n] # 0
  /\ \A m \in Messages : shownBody[m] # 0 => m <= n

InRoom == {s \in RoomSockets : link[s] = "joined"}

\* broadcastToRoom: to the sockets that are in the room by now.
Announce(e) ==
  /\ wire' = [s \in RoomSockets |-> IF s \in InRoom THEN Append(wire[s], e) ELSE wire[s]]
  /\ missed' = IF InRoom = {} /\ page # "none" THEN missed \cup {e.id} ELSE missed

EventOf(type, m) == [type |-> type, id |-> m, body |-> body'[m]]

Post(m) ==
  /\ ThreadMove
  /\ \A n \in Messages : body[n] # 0 <=> n < m
  /\ body' = [body EXCEPT ![m] = 1] /\ Announce(EventOf("created", m))

Change(m, type) ==
  /\ ThreadMove
  /\ body[m] \notin {0, Gone}
  /\ body' = [body EXCEPT ![m] = IF type = "edited" THEN @ + 1 ELSE Gone]
  /\ Announce(EventOf(type, m))

OtherPosts(m) ==
  /\ Post(m)
  /\ UNCHANGED <<pageVars, roomVars, rerender, ownChanges, outrun>>

OtherChanges(m, type) ==
  /\ Change(m, type)
  /\ UNCHANGED <<pageVars, roomVars, rerender, ownChanges, outrun>>

\* handleSubmit, handleEdit, handleDelete: the request is served, the answer comes.
OwnPost(m) ==
  /\ page = "mounted"
  /\ Post(m) /\ ownChanges' = ownChanges \cup {EventOf("created", m)}
  /\ UNCHANGED <<pageVars, roomVars, rerender, outrun>>

OwnChange(m, type) ==
  /\ page = "mounted" /\ shownBody[m] \notin {0, Gone}
  /\ Change(m, type) /\ ownChanges' = ownChanges \cup {EventOf(type, m)}
  /\ UNCHANGED <<pageVars, roomVars, rerender, outrun>>

\* What the page shows of a message after an event about it.
Applied(e) ==
  CASE e.type = "created" -> IF shownBody[e.id] = 0 THEN e.body ELSE shownBody[e.id]
    [] e.type = "edited"  -> IF shownBody[e.id] \in {0, Gone} THEN shownBody[e.id] ELSE e.body
    [] e.type = "deleted" -> IF shownBody[e.id] = 0 THEN 0 ELSE Gone

\* onMessage; lastEventAt is set to the time, which is always a change.
ReceiveThreadEvent(s) ==
  /\ link[s] = "joined" /\ wire[s] # <<>>
  /\ wire' = [wire EXCEPT ![s] = Tail(@)]
  /\ LET e == Head(wire[s]) IN shownBody' = [shownBody EXCEPT ![e.id] = Applied(e)]
  /\ rerender' = TRUE
  /\ UNCHANGED <<body, page, roomVars, ownChanges, markedRead, threadMoves, missed, outrun>>

\* An own edit replaces whatever is shown of the message.
TakeAnswer(e) ==
  /\ e \in ownChanges /\ ownChanges' = ownChanges \ {e}
  /\ shownBody' = [shownBody EXCEPT ![e.id] =
       IF e.type = "edited" /\ @ # 0 THEN e.body ELSE Applied(e)]
  /\ rerender' = TRUE
  /\ outrun' = IF e.body # body[e.id] THEN outrun \cup {e.id} ELSE outrun
  /\ UNCHANGED <<body, page, roomVars, wire, markedRead, threadMoves, missed>>

-----------------------------------------------------------------------------
NewStatus(s) == status' = s /\ rerender' = (rerender \/ status # s)

\* connect(), up to the request for a token.
BeginConnect(links) ==
  /\ connects < MaxConnects /\ connects' = connects + 1
  /\ \E s \in RoomSockets : links[s] = "free" /\ link' = [links EXCEPT ![s] = "fetching"]

\* The page gives up a socket: what is on its way to it is lost.
Losing(ss) ==
  /\ wire' = [s \in RoomSockets |-> IF s \in ss THEN <<>> ELSE wire[s]]
  /\ missed' = missed \cup UNION {{wire[s][i].id : i \in DOMAIN wire[s]} : s \in ss}

\* The cleanup of the hook's effect.
Closed == IF socketRef # NoSocket /\ link[socketRef] \in {"opening", "open", "joined"}
            THEN {socketRef} ELSE {}

AfterCleanup == [s \in RoomSockets |-> IF s \in Closed THEN "closing" ELSE link[s]]

ClearTimer ==
  /\ timers' = IF lastTimer THEN timers - 1 ELSE timers
  /\ lastTimer' = FALSE

\* ReadEffect: POST .../read when highestSequence has changed.
MarkHighestRead == markedRead' = IF Highest > markedRead THEN Highest ELSE markedRead

\* The server renders the page with the messages of the channel.
RenderPage ==
  /\ page = "none" /\ page' = "rendered"
  /\ shownBody' = body
  /\ UNCHANGED <<body, roomVars, wire, rerender, ownChanges, markedRead, threadMoves, missed, outrun>>

MountPage ==
  /\ page = "rendered" /\ page' = "mounted"
  /\ BeginConnect(link) /\ MarkHighestRead
  /\ UNCHANGED <<body, shownBody, wire, socketRef, timers, lastTimer, status, rerender, ownChanges,
       threadMoves, missed, outrun, orphaned>>

\* A render after a change: the effect is cleaned up and runs again.
Rerender ==
  /\ page = "mounted" /\ rerender
  /\ BeginConnect(AfterCleanup) /\ Losing(Closed) /\ ClearTimer
  /\ status' = "connecting" /\ rerender' = (status # "connecting")
  /\ MarkHighestRead
  /\ UNCHANGED <<body, page, shownBody, socketRef, ownChanges, threadMoves, outrun, orphaned>>

Keystroke ==
  /\ ThreadMove /\ page = "mounted"
  /\ rerender' = TRUE
  /\ UNCHANGED <<body, pageVars, roomVars, wire, ownChanges, missed, outrun>>

LeavePage ==
  /\ page = "mounted" /\ page' = "left"
  /\ link' = AfterCleanup /\ Losing(Closed) /\ ClearTimer
  /\ UNCHANGED <<body, shownBody, socketRef, status, rerender, ownChanges, markedRead, connects,
       threadMoves, outrun, orphaned>>

\* The token is there: a socket is opened and takes the place of the last one.
CreateSocket(s) ==
  /\ link[s] = "fetching" /\ link' = [link EXCEPT ![s] = "opening"]
  /\ socketRef' = s
  /\ orphaned' = orphaned
       \cup (IF socketRef # NoSocket /\ link[socketRef] \in {"opening", "open", "joined"}
               THEN {socketRef} ELSE {})
       \cup (IF page = "left" THEN {s} ELSE {})
  /\ UNCHANGED <<body, pageVars, wire, timers, lastTimer, status, rerender, ownChanges, connects,
       threadMoves, missed, outrun>>

FetchFails(s) ==
  /\ ThreadMove
  /\ link[s] = "fetching" /\ link' = [link EXCEPT ![s] = "free"]
  /\ NewStatus("offline")
  /\ UNCHANGED <<body, pageVars, wire, socketRef, timers, lastTimer, ownChanges, connects, missed,
       outrun, orphaned>>

SocketOpens(s) ==
  /\ link[s] = "opening" /\ link' = [link EXCEPT ![s] = "open"]
  /\ NewStatus("live")
  /\ UNCHANGED <<body, pageVars, wire, socketRef, timers, lastTimer, ownChanges, connects, threadMoves,
       missed, outrun, orphaned>>

\* The gateway handles "join_room".
JoinRoom(s) ==
  /\ link[s] = "open" /\ link' = [link EXCEPT ![s] = "joined"]
  /\ UNCHANGED <<body, pageVars, wire, socketRef, timers, lastTimer, status, rerender, ownChanges,
       connects, threadMoves, missed, outrun, orphaned>>

\* onclose
SocketClosed(s) ==
  /\ link' = [link EXCEPT ![s] = "free"] /\ Losing({s})
  /\ orphaned' = orphaned \ {s}
  /\ IF page = "left"
       THEN UNCHANGED <<timers, lastTimer, status, rerender>>
       ELSE /\ NewStatus("offline")
            /\ timers' = timers + 1 /\ lastTimer' = TRUE
  /\ UNCHANGED <<body, pageVars, socketRef, ownChanges, connects, outrun>>

SocketDrops(s) ==
  /\ ThreadMove
  /\ link[s] \in {"opening", "open", "joined"}
  /\ SocketClosed(s)

CloseEnds(s) ==
  /\ link[s] = "closing"
  /\ SocketClosed(s)
  /\ UNCHANGED threadMoves

\* Once the page has gone connect() does nothing.
TimerFires ==
  /\ timers > 0 /\ timers' = timers - 1
  /\ \/ timers > 1 /\ UNCHANGED lastTimer
     \/ lastTimer' = FALSE
  /\ IF page = "left"
       THEN UNCHANGED <<link, connects, status, rerender>>
       ELSE BeginConnect(link) /\ NewStatus("connecting")
  /\ UNCHANGED <<body, pageVars, wire, socketRef, ownChanges, threadMoves, missed, outrun, orphaned>>

PortalThreadNext ==
  \/ \E m \in Messages :
       \/ OtherPosts(m) \/ OwnPost(m)
       \/ \E type \in {"edited", "deleted"} : OtherChanges(m, type) \/ OwnChange(m, type)
  \/ \E e \in ownChanges : TakeAnswer(e)
  \/ \E s \in RoomSockets :
       \/ ReceiveThreadEvent(s) \/ CreateSocket(s) \/ FetchFails(s) \/ SocketOpens(s) \/ JoinRoom(s)
       \/ SocketDrops(s) \/ CloseEnds(s)
  \/ RenderPage \/ MountPage \/ Rerender \/ Keystroke \/ LeavePage \/ TimerFires

PortalThreadSpec == PortalThreadInit /\ [][PortalThreadNext]_threadVars

\* When nothing is on its way the page shows the channel, but for what it missed
\* and for answers that came too late (ChatThreadClient.tsx:99-169, 266-330).
ThreadAgrees ==
  page = "mounted" /\ ownChanges = {} /\ (\A s \in RoomSockets : wire[s] = <<>>)
    => \A m \in Messages : shownBody[m] = body[m] \/ m \in missed \cup outrun

\* What the page reports as read it has shown, or it is on its way to the page, or
\* it was missed (ChatThreadClient.tsx:94-97, 209-219).
ReadWasShown ==
  page = "mounted" => \A m \in 1..markedRead :
    \/ shownBody[m] # 0 \/ m \in missed
    \/ \E s \in RoomSockets : \E i \in DOMAIN wire[s] : wire[s][i].id = m

\* A page that is open never stops trying to be connected, and one that was left
\* keeps no socket it still knew (usePortalRealtimeRoom.ts:24-104).
RoomIsTried ==
  /\ page = "mounted" => rerender \/ timers > 0 \/ \E s \in RoomSockets : link[s] # "free"
  /\ page = "left" => \A s \in RoomSockets : link[s] \in {"free", "fetching", "closing"} \/ s \in orphaned

-----------------------------------------------------------------------------
(***************************************************************************)
(* The session.  The browser keeps the token pair in cookies; a request    *)
(* that finds the access token expired, or about to, changes the refresh   *)
(* token for a new pair.  A page is rendered after the response has begun  *)
(* and cannot set a cookie: there the new pair is thrown away, and so is   *)
(* the attempt to clear the cookies.                                       *)
(*                                                                         *)
(* torn: two requests of the browser overlapped, a page refreshed, or the  *)
(* answer to a refresh was lost; strays are the tokens the browser gave up *)
(* without the backend being told.                                         *)
(***************************************************************************)
CONSTANTS
  PortalCalls,       \* requests of one browser that run at once
  MaxPortalTokens,   \* bound: refresh tokens the backend issues
  MaxPortalMoves     \* bound: requests and expirations

ASSUME PortalSessionAssumption == {MaxPortalTokens, MaxPortalMoves} \subseteq Nat

VARIABLES
  family,       \* token -> the token its family began with, 0 when not issued
  revoked,      \* tokens with a revokedAt
  jar,          \* the browser's cookies
  portalCall,   \* request -> how far it is
  portalMoves, strays, torn

cookieVars == <<family, revoked, jar, portalCall, portalMoves, strays, torn>>

PortalTokens == 1..MaxPortalTokens
Idling == [pc |-> "idle", kind |-> "page", old |-> 0, new |-> 0]
EmptyJar == [access |-> "gone", refresh |-> 0, mfa |-> FALSE]

PortalSessionTypeOK ==
  /\ family \in [PortalTokens -> 0..MaxPortalTokens] /\ revoked \cup strays \subseteq PortalTokens
  /\ jar \in [access: {"fresh", "slack", "gone"}, refresh: 0..MaxPortalTokens, mfa: BOOLEAN]
  /\ portalCall \in [PortalCalls ->
       [pc: {"idle", "looking", "rotating", "asking", "profile", "persisting", "failed",
             "loggingOut", "clearing"},
        kind: {"page", "route", "sign-in", "verify", "logout"},
        old: 0..MaxPortalTokens, new: 0..MaxPortalTokens]]
  /\ portalMoves \in 0..MaxPortalMoves /\ torn \in BOOLEAN

PortalSessionInit ==
  /\ family = [t \in PortalTokens |-> 0] /\ revoked = {} /\ strays = {}
  /\ jar = EmptyJar /\ portalCall = [q \in PortalCalls |-> Idling]
  /\ portalMoves = 0 /\ torn = FALSE

PortalMove == portalMoves < MaxPortalMoves /\ portalMoves' = portalMoves + 1

IssuedTokens == {t \in PortalTokens : family[t] # 0}
LiveTokens == IssuedTokens \ revoked

\* hasSession of the middleware.
HasSession == jar.access # "gone" \/ jar.refresh # 0

BeginCall(q, kind, pc) ==
  /\ PortalMove
  /\ portalCall[q].pc = "idle"
  /\ portalCall' = [portalCall EXCEPT ![q] = [pc |-> pc, kind |-> kind, old |-> jar.refresh, new |-> 0]]
  /\ torn' = (torn \/ \E p \in PortalCalls : portalCall[p].pc # "idle")

Move(q, pc) == portalCall' = [portalCall EXCEPT ![q].pc = pc]
End(q) == portalCall' = [portalCall EXCEPT ![q] = Idling]

\* The backend issues a pair in family f (0: a new one).
Issue(q, f) ==
  \E t \in PortalTokens \ IssuedTokens :
    /\ \A u \in PortalTokens \ IssuedTokens : t <= u
    /\ family' = [family EXCEPT ![t] = IF f = 0 THEN t ELSE f]
    /\ portalCall' = [portalCall EXCEPT ![q].pc = "profile", ![q].new = t]

\* refreshSessionIfNeeded, with a fresh access token it changes nothing.
RefreshSession(q, kind) ==
  /\ HasSession /\ jar.access # "fresh"
  /\ BeginCall(q, kind, IF jar.refresh = 0 THEN "failed" ELSE "looking")
  /\ UNCHANGED <<family, revoked, jar, strays>>

\* IamService.refreshTokens: the token is looked up, then replaced.
LookUpToken(q) ==
  /\ portalCall[q].pc = "looking"
  /\ LET old == portalCall[q].old IN
     IF old \in revoked
       THEN /\ revoked' = revoked \cup {t \in IssuedTokens : family[t] = family[old]}
            /\ Move(q, "failed")
       ELSE Move(q, "rotating") /\ UNCHANGED revoked
  /\ UNCHANGED <<family, jar, portalMoves, strays, torn>>

RotateToken(q) ==
  /\ portalCall[q].pc = "rotating"
  /\ revoked' = revoked \cup {portalCall[q].old}
  /\ Issue(q, family[portalCall[q].old])
  /\ torn' = (torn \/ portalCall[q].kind = "page")
  /\ UNCHANGED <<jar, portalMoves, strays>>

\* The request fails or takes longer than ten seconds.
BackendFails(q) ==
  /\ PortalMove
  /\ portalCall[q].pc \in {"looking", "profile"}
  /\ strays' = strays \cup ({portalCall[q].new} \ {0})
  /\ IF portalCall[q].kind \in {"page", "route"} THEN Move(q, "failed") ELSE End(q)
  /\ UNCHANGED <<family, revoked, jar, torn>>

AnswerIsLost(q) ==
  /\ PortalMove
  /\ portalCall[q].pc = "profile" /\ portalCall[q].kind \in {"page", "route"}
  /\ Move(q, "failed") /\ torn' = TRUE
  /\ UNCHANGED <<family, revoked, jar, strays>>

FetchOwnProfile(q) ==
  /\ portalCall[q].pc = "profile" /\ Move(q, "persisting")
  /\ UNCHANGED <<family, revoked, jar, portalMoves, strays, torn>>

PersistSession(q) ==
  LET c == portalCall[q]
  IN  /\ c.pc = "persisting"
      /\ IF c.kind = "page"
            THEN Move(q, "failed") /\ UNCHANGED jar
            ELSE /\ jar' = [access |-> "fresh", refresh |-> c.new,
                            mfa |-> IF c.kind = "route" THEN jar.mfa ELSE FALSE]
                 /\ End(q)
      /\ UNCHANGED <<family, revoked, portalMoves, strays, torn>>

\* The cookies are cleared whatever went wrong, but not by a page.
FailRefresh(q) ==
  /\ portalCall[q].pc = "failed" /\ End(q)
  /\ IF portalCall[q].kind = "page"
       THEN UNCHANGED <<jar, strays>>
       ELSE jar' = EmptyJar /\ strays' = strays \cup ({portalCall[q].old} \ {0})
  /\ UNCHANGED <<family, revoked, portalMoves, torn>>

\* The login page sends whoever has a session to the dashboard.
BeginSignIn(q) ==
  /\ ~HasSession /\ BeginCall(q, "sign-in", "asking")
  /\ UNCHANGED <<family, revoked, jar, strays>>

BeginVerifyMfa(q) ==
  /\ ~HasSession /\ jar.mfa /\ BeginCall(q, "verify", "asking")
  /\ UNCHANGED <<family, revoked, jar, strays>>

\* loginAndCreateSession, verifyMfaAndCreateSession
AnswerSignIn(q) ==
  /\ portalCall[q].pc = "asking"
  /\ \/ Issue(q, 0) /\ UNCHANGED jar
     \/ End(q) /\ UNCHANGED <<family, jar>>
     \/ /\ portalCall[q].kind = "sign-in" /\ jar' = [jar EXCEPT !.mfa = TRUE]
        /\ End(q) /\ UNCHANGED family
  /\ UNCHANGED <<revoked, portalMoves, strays, torn>>

\* Only with both cookies is the backend told.
BeginLogout(q) ==
  /\ BeginCall(q, "logout",
       IF jar.access # "gone" /\ jar.refresh # 0 THEN "loggingOut" ELSE "clearing")
  /\ strays' = IF jar.access = "gone" THEN strays \cup ({jar.refresh} \ {0}) ELSE strays
  /\ UNCHANGED <<family, revoked, jar>>

LogoutAtBackend(q) ==
  /\ portalCall[q].pc = "loggingOut" /\ Move(q, "clearing")
  /\ revoked' = revoked \cup {portalCall[q].old}
  /\ UNCHANGED <<family, jar, portalMoves, strays, torn>>

LogoutUnheard(q) ==
  /\ PortalMove
  /\ portalCall[q].pc = "loggingOut" /\ Move(q, "clearing")
  /\ strays' = strays \cup {portalCall[q].old}
  /\ UNCHANGED <<family, revoked, jar, torn>>

ClearSession(q) ==
  /\ portalCall[q].pc = "clearing" /\ End(q)
  /\ jar' = EmptyJar
  /\ UNCHANGED <<family, revoked, portalMoves, strays, torn>>

\* Thirty seconds before the end the token is no longer used for pages.
AccessExpires ==
  /\ PortalMove
  /\ jar.access # "gone"
  /\ jar' = [jar EXCEPT !.access = IF @ = "fresh" THEN "slack" ELSE "gone"]
  /\ UNCHANGED <<family, revoked, portalCall, strays, torn>>

PendingMfaExpires ==
  /\ PortalMove
  /\ jar.mfa /\ jar' = [jar EXCEPT !.mfa = FALSE]
  /\ UNCHANGED <<family, revoked, portalCall, strays, torn>>

PortalSessionNext ==
  \/ \E q \in PortalCalls :
       \/ \E kind \in {"page", "route"} : RefreshSession(q, kind)
       \/ LookUpToken(q) \/ RotateToken(q) \/ BackendFails(q) \/ AnswerIsLost(q)
       \/ FetchOwnProfile(q) \/ PersistSession(q) \/ FailRefresh(q)
       \/ BeginSignIn(q) \/ BeginVerifyMfa(q) \/ AnswerSignIn(q)
       \/ BeginLogout(q) \/ LogoutAtBackend(q) \/ LogoutUnheard(q) \/ ClearSession(q)
  \/ AccessExpires \/ PendingMfaExpires

PortalSessionSpec == PortalSessionInit /\ [][PortalSessionNext]_cookieVars

\* Between requests the browser holds the one token of its user the backend accepts,
\* but for those given up without a word, as long as no page refreshed, no requests
\* overlapped and no answer was lost (auth.ts:142-172, 235-325, iam.service.ts:170-215).
PortalSessionAgrees ==
  ~torn /\ (\A q \in PortalCalls : portalCall[q].pc = "idle")
    => /\ jar.refresh # 0 => jar.refresh \in LiveTokens
       /\ LiveTokens \subseteq {jar.refresh} \cup strays

=============================================================================
