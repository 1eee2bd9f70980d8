---------------------------- MODULE MediaStreams ----------------------------
(***************************************************************************)
(* What a participant of a call sees and hears of another                  *)
(* (src/apps/portal-web/src/components/calls/MediaCallClient.tsx and, on   *)
(* the server, src/apps/media/src/signaling/signaling-handler.ts and       *)
(* media-server.ts).                                                       *)
(*                                                                         *)
(* The client of one participant, the viewer, sets its connection up in    *)
(* steps that each wait for an answer, while announcements about the other *)
(* one, the speaker, come in between; the socket keeps their order, but    *)
(* the server answers requests in any order.  A stream is consumed in      *)
(* three round trips, from the list of the join answer or when it is       *)
(* announced.  Screens and cameras are not told apart.                     *)
(*                                                                         *)
(* unseen are the streams announced before the client could receive any,   *)
(* late those whose consumption ended after their speaker had left, stale  *)
(* says that an announcement came while the device was being loaded, and   *)
(* crossed that a mute of the viewer and one of the moderator crossed, or  *)
(* that he muted himself before the server knew him.                       *)
(***************************************************************************)
EXTENDS Naturals, Sequences

CONSTANTS
  Streams,        \* producers of the speaker
  MaxStreamMoves  \* bound: moves of the speaker, the moderator and the viewer's mute button

ASSUME MediaStreamsAssumption == MaxStreamMoves \in Nat

VARIABLES
  speaker,      \* the server's entry of the speaker
  produced,     \* streams that have existed
  viewerIn,     \* the viewer is in the session
  mutedThere,   \* the server's entry of the viewer: audioMuted
  requests,     \* requests of the viewer not answered yet
  setMutes,     \* his "set_mute" messages under way
  toViewer,     \* answers and announcements under way
  stage,        \* how far connect() is
  answer,       \* the answer to "join"
  toConsume,    \* the rest of its list
  consuming,    \* <<stream, where it was named>> -> how far consumeProducer is
  tile,         \* stream -> how often it is shown
  known,        \* remoteProducerMapRef
  person,       \* the speaker as he is shown
  mutedHere,    \* the viewer's own tracks are disabled
  streamMoves,  \* moves so far
  unseen, late, stale, crossed

streamVars == <<speaker, produced, viewerIn, mutedThere, requests, setMutes, toViewer, stage, answer,
  toConsume, consuming, tile, known, person, mutedHere, streamMoves, unseen, late, stale, crossed>>

serverVars == <<speaker, produced, viewerIn, mutedThere>>
clientVars == <<stage, answer, toConsume, consuming, tile, known, person, mutedHere, unseen, late, stale>>

Person == [here: BOOLEAN, muted: BOOLEAN]
Absentee == [here |-> FALSE, muted |-> FALSE]

Speaker == [here: BOOLEAN, muted: BOOLEAN, producers: SUBSET Streams]

Consumptions == Streams \X {"listed", "announced"}

Request == [type: {"join", "create_send_transport", "produce", "create_recv_transport"}]
  \cup [type: {"consume", "resume_consumer"}, of: Consumptions]

ToViewer == [type: {"join_ok"}, speaker: Speaker]
  \cup [type: {"send_ok", "produce_ok", "recv_ok", "participant_left"}]
  \cup [type: {"consume_ok", "resume_ok", "error"}, of: Consumptions]
  \cup [type: {"participant_joined", "mute_changed", "moderator_mute"}, muted: BOOLEAN]
  \cup [type: {"new_producer"}, stream: Streams]

Stages == {"setup", "join", "load", "send", "produce", "recv", "consume", "connected", "broken", "closed"}

MediaStreamsTypeOK ==
  /\ speaker \in Speaker /\ produced \subseteq Streams
  /\ ~speaker.here => speaker.producers = {}
  /\ viewerIn \in BOOLEAN /\ mutedThere \in BOOLEAN
  /\ requests \subseteq Request /\ setMutes \in Seq(BOOLEAN) /\ toViewer \in Seq(ToViewer)
  /\ stage \in Stages /\ answer \in Speaker /\ toConsume \subseteq Streams
  /\ consuming \in [Consumptions -> {"no", "asked", "building", "resuming"}]
  /\ tile \in [Streams -> 0..2] /\ known \subseteq Streams /\ person \in Person
  /\ mutedHere \in BOOLEAN /\ streamMoves \in 0..MaxStreamMoves
  /\ unseen \cup late \subseteq Streams /\ stale \in BOOLEAN /\ crossed \in BOOLEAN

MediaStreamsInit ==
  /\ speaker = [here |-> FALSE, muted |-> FALSE, producers |-> {}] /\ produced = {}
  /\ viewerIn = FALSE /\ mutedThere = FALSE
  /\ requests = {} /\ setMutes = <<>> /\ toViewer = <<>>
  /\ stage = "setup" /\ answer = speaker /\ toConsume = {}
  /\ consuming = [k \in Consumptions |-> "no"]
  /\ tile = [p \in Streams |-> 0] /\ known = {} /\ person = Absentee
  /\ mutedHere = FALSE /\ streamMoves = 0
  /\ unseen = {} /\ late = {} /\ stale = FALSE /\ crossed = FALSE

-----------------------------------------------------------------------------
Receiving == stage \in {"consume", "connected", "broken"}
Connected == stage # "closed"

\* notifyOthers: the viewer is told if he is in the session.
Notify(m) == toViewer' = IF viewerIn THEN Append(toViewer, m) ELSE toViewer

StreamMove ==
  /\ streamMoves < MaxStreamMoves
  /\ streamMoves' = streamMoves + 1

SpeakerJoins ==
  /\ StreamMove
  /\ ~speaker.here
  /\ speaker' = [here |-> TRUE, muted |-> FALSE, producers |-> {}]
  /\ Notify([type |-> "participant_joined", muted |-> FALSE])
  /\ UNCHANGED <<produced, viewerIn, mutedThere, requests, setMutes, crossed, clientVars>>

SpeakerProduces(p) ==
  /\ StreamMove
  /\ speaker.here /\ p \notin produced
  /\ speaker' = [speaker EXCEPT !.producers = @ \cup {p}]
  /\ produced' = produced \cup {p}
  /\ Notify([type |-> "new_producer", stream |-> p])
  /\ UNCHANGED <<viewerIn, mutedThere, requests, setMutes, crossed, clientVars>>

SpeakerMutes ==
  /\ StreamMove
  /\ speaker.here
  /\ speaker' = [speaker EXCEPT !.muted = ~@]
  /\ Notify([type |-> "mute_changed", muted |-> ~speaker.muted])
  /\ UNCHANGED <<produced, viewerIn, mutedThere, requests, setMutes, crossed, clientVars>>

\* "leave", a closed socket, or kickParticipant.
SpeakerLeaves ==
  /\ StreamMove
  /\ speaker.here
  /\ speaker' = [here |-> FALSE, muted |-> FALSE, producers |-> {}]
  /\ Notify([type |-> "participant_left"])
  /\ UNCHANGED <<produced, viewerIn, mutedThere, requests, setMutes, crossed, clientVars>>

\* muteParticipant.
ModeratorMutes(b) ==
  /\ StreamMove
  /\ viewerIn
  /\ mutedThere' = b
  /\ Notify([type |-> "moderator_mute", muted |-> b])
  /\ crossed' = (crossed \/ setMutes # <<>>)
  /\ UNCHANGED <<speaker, produced, viewerIn, requests, setMutes, clientVars>>

\* "set_mute": the others are told, the viewer is not.
SetMute ==
  /\ setMutes # <<>>
  /\ setMutes' = Tail(setMutes)
  /\ mutedThere' = IF viewerIn THEN Head(setMutes) ELSE mutedThere
  /\ UNCHANGED <<speaker, produced, viewerIn, requests, toViewer, streamMoves, crossed, clientVars>>

-----------------------------------------------------------------------------
Answer(r, m) ==
  /\ requests' = requests \ {r}
  /\ toViewer' = Append(toViewer, m)
  /\ UNCHANGED <<setMutes, streamMoves, crossed, clientVars>>

\* "join": he is added and the list made without waiting in between.
ServeJoin(r) ==
  /\ r \in requests /\ r.type = "join"
  /\ viewerIn' = TRUE /\ mutedThere' = FALSE
  /\ Answer(r, [type |-> "join_ok", speaker |-> speaker])
  /\ UNCHANGED <<speaker, produced>>

ServeSendTransport(r) ==
  /\ r \in requests /\ r.type = "create_send_transport"
  /\ Answer(r, [type |-> "send_ok"])
  /\ UNCHANGED serverVars

\* "produce", for the viewer's microphone and camera together.
ServeProduce(r) ==
  /\ r \in requests /\ r.type = "produce"
  /\ Answer(r, [type |-> "produce_ok"])
  /\ UNCHANGED serverVars

ServeRecvTransport(r) ==
  /\ r \in requests /\ r.type = "create_recv_transport"
  /\ Answer(r, [type |-> "recv_ok"])
  /\ UNCHANGED serverVars

\* "consume": canConsume refuses a stream that is closed.
ServeConsume(r) ==
  /\ r \in requests /\ r.type = "consume"
  /\ Answer(r, [type |-> IF r.of[1] \in speaker.producers THEN "consume_ok" ELSE "error", of |-> r.of])
  /\ UNCHANGED serverVars

\* "resume_consumer": a consumer goes with its stream.
ServeResume(r) ==
  /\ r \in requests /\ r.type = "resume_consumer"
  /\ Answer(r, [type |-> IF r.of[1] \in speaker.producers THEN "resume_ok" ELSE "error", of |-> r.of])
  /\ UNCHANGED serverVars

-----------------------------------------------------------------------------
AskServer(r) == requests' = requests \cup {r}

TakeMessage(type) ==
  /\ Connected
  /\ toViewer # <<>> /\ Head(toViewer).type = type
  /\ toViewer' = Tail(toViewer)
  /\ UNCHANGED <<serverVars, setMutes, streamMoves, crossed>>

\* The bootstrap was fetched, microphone and camera granted, the socket opened.
OpenSocket ==
  /\ stage = "setup" /\ stage' = "join"
  /\ AskServer([type |-> "join"])
  /\ UNCHANGED <<serverVars, setMutes, toViewer, answer, toConsume, consuming, tile, known, person,
       mutedHere, streamMoves, unseen, late, stale, crossed>>

TakeJoined ==
  /\ TakeMessage("join_ok")
  /\ stage' = "load" /\ answer' = Head(toViewer).speaker
  /\ UNCHANGED <<requests, toConsume, consuming, tile, known, person, mutedHere, unseen, late, stale>>

\* device.load is over: who is there is replaced by what the answer said.
LoadDevice ==
  /\ stage = "load" /\ stage' = "send"
  /\ person' = [here |-> answer.here, muted |-> answer.muted]
  /\ AskServer([type |-> "create_send_transport"])
  /\ UNCHANGED <<serverVars, setMutes, toViewer, answer, toConsume, consuming, tile, known, mutedHere,
       streamMoves, unseen, late, stale, crossed>>

TakeSendTransport ==
  /\ TakeMessage("send_ok")
  /\ stage' = "produce" /\ AskServer([type |-> "produce"])
  /\ UNCHANGED <<answer, toConsume, consuming, tile, known, person, mutedHere, unseen, late, stale>>

TakeProduced ==
  /\ TakeMessage("produce_ok")
  /\ stage' = "recv" /\ AskServer([type |-> "create_recv_transport"])
  /\ UNCHANGED <<answer, toConsume, consuming, tile, known, person, mutedHere, unseen, late, stale>>

TakeRecvTransport ==
  /\ TakeMessage("recv_ok")
  /\ stage' = "consume" /\ toConsume' = answer.producers
  /\ UNCHANGED <<requests, answer, consuming, tile, known, person, mutedHere, unseen, late, stale>>

ListedUnderWay == \E p \in Streams : consuming[p, "listed"] # "no"

\* consumeProducer begins, unless the stream is shown.
BeginConsume(k) ==
  IF k[1] \in known
    THEN UNCHANGED <<consuming, requests>>
    ELSE /\ consuming' = [consuming EXCEPT ![k] = "asked"]
         /\ AskServer([type |-> "consume", of |-> k])

\* The loop over the list of the join answer, one stream at a time.
ConsumeListed(p) ==
  /\ stage = "consume" /\ ~ListedUnderWay
  /\ p \in toConsume /\ toConsume' = toConsume \ {p}
  /\ BeginConsume(<<p, "listed">>)
  /\ UNCHANGED <<serverVars, setMutes, toViewer, stage, answer, tile, known, person, mutedHere,
       streamMoves, unseen, late, stale, crossed>>

BecomeConnected ==
  /\ stage = "consume" /\ ~ListedUnderWay /\ toConsume = {}
  /\ stage' = "connected"
  /\ UNCHANGED <<serverVars, requests, setMutes, toViewer, answer, toConsume, consuming, tile, known,
       person, mutedHere, streamMoves, unseen, late, stale, crossed>>

TakeConsumed ==
  /\ TakeMessage("consume_ok")
  /\ consuming' = [consuming EXCEPT ![Head(toViewer).of] = "building"]
  /\ UNCHANGED <<requests, stage, answer, toConsume, tile, known, person, mutedHere, unseen, late, stale>>

\* recvTransport.consume is over: the stream is shown.
ShowStream(k) ==
  /\ Connected
  /\ consuming[k] = "building" /\ consuming' = [consuming EXCEPT ![k] = "resuming"]
  /\ tile' = [tile EXCEPT ![k[1]] = @ + 1]
  /\ known' = known \cup {k[1]}
  /\ AskServer([type |-> "resume_consumer", of |-> k])
  /\ UNCHANGED <<serverVars, setMutes, toViewer, stage, answer, toConsume, person, mutedHere,
       streamMoves, unseen, late, stale, crossed>>

TakeResumed ==
  /\ TakeMessage("resume_ok")
  /\ consuming' = [consuming EXCEPT ![Head(toViewer).of] = "no"]
  /\ UNCHANGED <<requests, stage, answer, toConsume, tile, known, person, mutedHere, unseen, late, stale>>

\* A refusal ends connect() if the stream came from its list.
TakeError ==
  /\ TakeMessage("error")
  /\ LET k == Head(toViewer).of
     IN  /\ consuming' = [consuming EXCEPT ![k] = "no"]
         /\ stage' = IF k[2] = "listed" THEN "broken" ELSE stage
  /\ UNCHANGED <<requests, answer, toConsume, tile, known, person, mutedHere, unseen, late, stale>>

TakeParticipantJoined ==
  /\ TakeMessage("participant_joined")
  /\ person' = [here |-> TRUE, muted |-> Head(toViewer).muted]
  /\ stale' = (stale \/ stage = "load")
  /\ UNCHANGED <<requests, stage, answer, toConsume, consuming, tile, known, mutedHere, unseen, late>>

\* The tiles of the one who left go; a consumption under way goes on.
TakeParticipantLeft ==
  /\ TakeMessage("participant_left")
  /\ person' = Absentee
  /\ stale' = (stale \/ stage = "load")
  /\ tile' = [p \in Streams |-> 0]
  /\ known' = {p \in known : tile[p] = 0}
  /\ late' = late \cup {k[1] : k \in {c \in Consumptions : consuming[c] = "building"}}
  /\ UNCHANGED <<requests, stage, answer, toConsume, consuming, mutedHere, unseen>>

TakeMuteChanged ==
  /\ TakeMessage("mute_changed")
  /\ person' = [here |-> TRUE, muted |-> Head(toViewer).muted]
  /\ stale' = (stale \/ stage = "load")
  /\ UNCHANGED <<requests, stage, answer, toConsume, consuming, tile, known, mutedHere, unseen, late>>

\* consumeProducer returns at once while there is no transport to receive with.
TakeNewProducer ==
  /\ TakeMessage("new_producer")
  /\ LET p == Head(toViewer).stream
     IN  IF Receiving
           THEN BeginConsume(<<p, "announced">>) /\ UNCHANGED unseen
           ELSE unseen' = unseen \cup {p} /\ UNCHANGED <<consuming, requests>>
  /\ UNCHANGED <<stage, answer, toConsume, tile, known, person, mutedHere, late, stale>>

TakeModeratorMute ==
  /\ TakeMessage("moderator_mute")
  /\ mutedHere' = Head(toViewer).muted
  /\ UNCHANGED <<requests, stage, answer, toConsume, consuming, tile, known, person, unseen, late, stale>>

\* updateMute, by the viewer himself.
UpdateMute(b) ==
  /\ Connected /\ StreamMove
  /\ mutedHere' = b
  /\ setMutes' = IF stage = "setup" THEN setMutes ELSE Append(setMutes, b)
  /\ crossed' = (crossed \/ ~viewerIn \/ \E i \in DOMAIN toViewer : toViewer[i].type = "moderator_mute")
  /\ UNCHANGED <<serverVars, requests, toViewer, stage, answer, toConsume, consuming, tile, known,
       person, unseen, late, stale>>

\* The socket closes, the viewer is removed, or the page goes: the end.
CloseClient ==
  /\ Connected
  /\ stage' = "closed" /\ viewerIn' = FALSE
  /\ requests' = {} /\ setMutes' = <<>> /\ toViewer' = <<>>
  /\ UNCHANGED <<speaker, produced, mutedThere, answer, toConsume, consuming, tile, known, person,
       mutedHere, streamMoves, unseen, late, stale, crossed>>

MediaStreamsNext ==
  \/ SpeakerJoins \/ SpeakerMutes \/ SpeakerLeaves \/ SetMute
  \/ \E p \in Streams : SpeakerProduces(p) \/ ConsumeListed(p)
  \/ \E b \in BOOLEAN : ModeratorMutes(b) \/ UpdateMute(b)
  \/ \E r \in requests :
       ServeJoin(r) \/ ServeSendTransport(r) \/ ServeProduce(r) \/ ServeRecvTransport(r)
         \/ ServeConsume(r) \/ ServeResume(r)
  \/ OpenSocket \/ LoadDevice \/ BecomeConnected \/ CloseClient
  \/ TakeJoined \/ TakeSendTransport \/ TakeProduced \/ TakeRecvTransport
  \/ TakeConsumed \/ TakeResumed \/ TakeError
  \/ \E k \in Consumptions : ShowStream(k)
  \/ TakeParticipantJoined \/ TakeParticipantLeft \/ TakeMuteChanged \/ TakeNewProducer \/ TakeModeratorMute

MediaStreamsSpec == MediaStreamsInit /\ [][MediaStreamsNext]_streamVars

-----------------------------------------------------------------------------
Caught == stage = "connected" /\ toViewer = <<>> /\ requests = {} /\ \A k \in Consumptions : consuming[k] = "no"

\* Once the client has caught up it shows every stream of the speaker, once, and
\* none of a speaker who left, except for the known gaps
\* (MediaCallClient.tsx:144-207, 257-275, 332-341, 430-432).
StreamsAreShown ==
  /\ \A p \in Streams : tile[p] <= 1
  /\ Caught => \A p \in Streams :
       /\ p \in speaker.producers => tile[p] = 1 \/ p \in unseen
       /\ tile[p] = 1 => p \in speaker.producers \/ p \in late

\* Once it has caught up it shows the speaker as the server knows him, unless he
\* changed while the device was being loaded (MediaCallClient.tsx:239-299, 365-376).
SpeakerIsShown == Caught => person = [here |-> speaker.here, muted |-> speaker.muted] \/ stale

\* What the others see of the viewer's microphone is what it is, unless two hands
\* were on it at once (MediaCallClient.tsx:301-323, 474-498, media-server.ts:294-332).
OwnMuteAgrees ==
  /\ viewerIn /\ setMutes = <<>>
  /\ \A i \in DOMAIN toViewer : toViewer[i].type # "moderator_mute"
  => mutedHere = mutedThere \/ crossed

=============================================================================
