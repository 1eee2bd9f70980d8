-------------------------------- MODULE Chat --------------------------------
(***************************************************************************)
(* The messages of one chat channel                                        *)
(* (src/apps/backend/src/modules/chat/services/chat.service.ts).           *)
(*                                                                         *)
(* sendMessage looks for its idempotency key, then assigns the sequence    *)
(* number and inserts the row in one transaction that holds the lock on    *)
(* the channel's row.  editMessage and deleteMessage load a message and    *)
(* save all of it later.  A refused call changes nothing and is not a      *)
(* step.  enforceRetentionPolicies has no caller, and nothing sets a legal *)
(* hold.                                                                   *)
(*                                                                         *)
(* overwritten holds the messages a call saved from an outdated copy,      *)
(* bodies every content a message ever had.                                *)
(***************************************************************************)
EXTENDS Naturals, Sequences

CONSTANTS
  ChatCalls,    \* concurrent service calls
  ChatKeys,     \* idempotency keys
  NoKey,        \* a message sent without one
  NoChatCall,   \* nobody holds the lock
  MaxMessages,  \* bound: messages
  MaxChatCalls  \* bound: service calls

ASSUME ChatMessagesAssumption == MaxMessages \in Nat /\ MaxChatCalls \in Nat /\ NoChatCall \notin ChatCalls

VARIABLES
  lastSequence,  \* channels.last_sequence
  message,       \* chat.messages, in the order of their commits
  messageEdit,   \* chat.message_edits
  rowLock,       \* the call that holds the lock on the channel's row
  readOnly,      \* the channel is read-only
  chatCall,      \* call -> what it does next
  chatCalls,     \* calls so far
  cursor,        \* a reader that lists the messages after the last one it saw
  seen,          \* what it has seen
  overwritten, bodies

chatVars == <<lastSequence, message, messageEdit, rowLock, readOnly, chatCall, chatCalls, cursor, seen, overwritten, bodies>>

\* Contents are numbered; 0 is the content of a deleted message.
Message ==
  [sequence: 1..MaxMessages, idempotencyKey: ChatKeys \cup {NoKey}, body: 0..MaxChatCalls,
   isDeleted: BOOLEAN, parent: 0..MaxMessages, replyCount: 0..MaxMessages]

NewMessage == [sequence |-> 1, idempotencyKey |-> NoKey, body |-> 0, isDeleted |-> FALSE, parent |-> 0, replyCount |-> 0]

ChatBusy ==
  [pc: {"lock", "insert", "reply", "history", "edit", "delete"}, at: 0..MaxMessages, copy: Message, body: 0..MaxChatCalls]

ChatIdle == [pc |-> "idle"]

ChatMessagesTypeOK ==
  /\ lastSequence = Len(message)
  /\ message \in Seq(Message)
  /\ messageEdit \subseteq (1..MaxMessages) \X (0..MaxChatCalls)
  /\ rowLock \in ChatCalls \cup {NoChatCall}
  /\ rowLock # NoChatCall => chatCall[rowLock].pc = "insert"
  /\ readOnly \in BOOLEAN
  /\ chatCall \in [ChatCalls -> ChatBusy \cup {ChatIdle}]
  /\ chatCalls \in 0..MaxChatCalls
  /\ cursor \in 0..MaxMessages
  /\ seen \cup overwritten \subseteq 1..MaxMessages

ChatMessagesInit ==
  /\ lastSequence = 0 /\ message = <<>> /\ messageEdit = {}
  /\ rowLock = NoChatCall /\ readOnly = FALSE
  /\ chatCall = [c \in ChatCalls |-> ChatIdle] /\ chatCalls = 0
  /\ cursor = 0 /\ seen = {} /\ overwritten = {} /\ bodies = {}

-----------------------------------------------------------------------------
ChatStart(c, pc, at, copy) ==
  /\ chatCall[c] = ChatIdle
  /\ chatCalls < MaxChatCalls
  /\ chatCalls' = chatCalls + 1
  /\ chatCall' = [chatCall EXCEPT ![c] = [pc |-> pc, at |-> at, copy |-> copy, body |-> chatCalls + 1]]
  /\ UNCHANGED <<lastSequence, message, messageEdit, rowLock, readOnly, cursor, seen, overwritten, bodies>>

ChatAt(c, pc) == chatCall[c].pc = pc
ChatGo(c, pc) == chatCall' = [chatCall EXCEPT ![c].pc = pc]
ChatEnd(c) == chatCall' = [chatCall EXCEPT ![c] = ChatIdle]

\* sendMessage: not in a read-only channel; a key that is there already
\* answers with that message.
SendMessage(c, key, parent) ==
  /\ ~readOnly
  /\ parent \in 0..Len(message)
  /\ key = NoKey \/ \A m \in DOMAIN message : message[m].idempotencyKey # key
  /\ ChatStart(c, "lock", 0, [NewMessage EXCEPT !.idempotencyKey = key, !.parent = parent])

\* SELECT ... FOR UPDATE, then the counter is raised.
TakeNumber(c) == chatCall' = [chatCall EXCEPT ![c].pc = "insert", ![c].copy.sequence = lastSequence + 1]

LockChannelNobody(c) ==
  /\ ChatAt(c, "lock")
  /\ Len(message) < MaxMessages
  /\ TakeNumber(c)
  /\ UNCHANGED <<lastSequence, message, messageEdit, rowLock, readOnly, chatCalls, cursor, seen, overwritten, bodies>>

LockChannel(c) ==
  /\ ChatAt(c, "lock")
  /\ rowLock = NoChatCall
  /\ Len(message) < MaxMessages
  /\ rowLock' = c
  /\ TakeNumber(c)
  /\ UNCHANGED <<lastSequence, message, messageEdit, readOnly, chatCalls, cursor, seen, overwritten, bodies>>

\* uq_messages_idempotency.
KeyAccepted(key) == key # NoKey => \A m \in DOMAIN message : message[m].idempotencyKey # key

\* The insert and the commit, which releases the lock.
InsertMessage(c) ==
  /\ ChatAt(c, "insert")
  /\ LET call == chatCall[c]
         row == [call.copy EXCEPT !.body = call.body]
     IN  /\ KeyAccepted(row.idempotencyKey)
         /\ message' = Append(message, row)
         /\ lastSequence' = row.sequence
         /\ bodies' = bodies \cup {<<Len(message) + 1, row.body>>}
         /\ chatCall' = [chatCall EXCEPT ![c] = IF row.parent = 0 THEN ChatIdle ELSE [call EXCEPT !.pc = "reply"]]
  /\ rowLock' = IF rowLock = c THEN NoChatCall ELSE rowLock
  /\ UNCHANGED <<messageEdit, readOnly, chatCalls, cursor, seen, overwritten>>

\* UPDATE ... SET reply_count = reply_count + 1
CountReply(c) ==
  /\ ChatAt(c, "reply")
  /\ message' = [message EXCEPT ![chatCall[c].copy.parent].replyCount = @ + 1]
  /\ ChatEnd(c)
  /\ UNCHANGED <<lastSequence, messageEdit, rowLock, readOnly, chatCalls, cursor, seen, overwritten, bodies>>

\* The request fails, is refused by the index or its process stops: an open
\* transaction is rolled back.
AbortChatCall(c) ==
  /\ chatCall[c] # ChatIdle
  /\ ChatEnd(c)
  /\ rowLock' = IF rowLock = c THEN NoChatCall ELSE rowLock
  /\ UNCHANGED <<lastSequence, message, messageEdit, readOnly, chatCalls, cursor, seen, overwritten, bodies>>

-----------------------------------------------------------------------------
\* editMessage: the sender's message that is not deleted, within the window.
EditMessage(c, m) ==
  /\ m \in DOMAIN message
  /\ ~message[m].isDeleted
  /\ ChatStart(c, "history", m, message[m])

\* The previous content is kept before it is replaced.
KeepHistory(c) ==
  /\ ChatAt(c, "history")
  /\ messageEdit' = messageEdit \cup {<<chatCall[c].at, chatCall[c].copy.body>>}
  /\ ChatGo(c, "edit")
  /\ UNCHANGED <<lastSequence, message, rowLock, readOnly, chatCalls, cursor, seen, overwritten, bodies>>

\* messageRepo.save: every column comes from the copy.
SaveMessage(c, row) ==
  LET call == chatCall[c]
  IN  /\ message' = [message EXCEPT ![call.at] = row]
      /\ overwritten' = IF message[call.at] = call.copy THEN overwritten ELSE overwritten \cup {call.at}
      /\ bodies' = bodies \cup {<<call.at, row.body>>}
      /\ ChatEnd(c)
      /\ UNCHANGED <<lastSequence, messageEdit, rowLock, readOnly, chatCalls, cursor, seen>>

SaveEdited(c) == ChatAt(c, "edit") /\ SaveMessage(c, [chatCall[c].copy EXCEPT !.body = chatCall[c].body])

\* deleteMessage keeps the row without its content.
DeleteMessage(c, m) ==
  /\ m \in DOMAIN message
  /\ ~message[m].isDeleted
  /\ ChatStart(c, "delete", m, message[m])

SaveDeleted(c) == ChatAt(c, "delete") /\ SaveMessage(c, [chatCall[c].copy EXCEPT !.body = 0, !.isDeleted = TRUE])

-----------------------------------------------------------------------------
\* setChannelReadOnly, when the task or document is finished.
SetReadOnly ==
  /\ ~readOnly
  /\ readOnly' = TRUE
  /\ UNCHANGED <<lastSequence, message, messageEdit, rowLock, chatCall, chatCalls, cursor, seen, overwritten, bodies>>

\* listMessages with "after": the messages that are no replies, in their order.
ListMessages ==
  LET new == {m \in DOMAIN message : message[m].sequence > cursor /\ message[m].parent = 0}
  IN  /\ new # {}
      /\ seen' = seen \cup new
      /\ cursor' = CHOOSE n \in {message[m].sequence : m \in new} : \A m \in new : message[m].sequence <= n
      /\ UNCHANGED <<lastSequence, message, messageEdit, rowLock, readOnly, chatCall, chatCalls, overwritten, bodies>>

ChatMessagesNext ==
  \/ \E c \in ChatCalls :
       \/ \E k \in ChatKeys \cup {NoKey}, p \in 0..1 : SendMessage(c, k, p)
       \/ LockChannel(c) \/ InsertMessage(c) \/ CountReply(c) \/ AbortChatCall(c)
       \/ \E m \in DOMAIN message : EditMessage(c, m) \/ DeleteMessage(c, m)
       \/ KeepHistory(c) \/ SaveEdited(c) \/ SaveDeleted(c)
  \/ SetReadOnly
  \/ ListMessages

ChatMessagesSpec == ChatMessagesInit /\ [][ChatMessagesNext]_chatVars

-----------------------------------------------------------------------------
\* A reader that continues after the last number it saw misses no message: the
\* numbers become visible in their order (chat.service.ts:316-358, 420).
ReaderMissesNothing == \A m \in DOMAIN message : message[m].sequence <= cursor /\ message[m].parent = 0 => m \in seen

\* However often a send is retried, also while the first attempt still runs, its
\* key stands for one message (chat.service.ts:308-314).
OneMessagePerKey ==
  \A m, n \in DOMAIN message : message[m].idempotencyKey = message[n].idempotencyKey /\ m # n => message[m].idempotencyKey = NoKey

\* A content once shown is still the current one or in the edit history, unless
\* the message was deleted or two calls worked on it at once
\* (chat.service.ts:458-470).
ContentIsKept ==
  \A b \in bodies : LET m == b[1] IN
    \/ message[m].body = b[2] \/ b \in messageEdit
    \/ message[m].isDeleted \/ m \in overwritten

\* The content of a deleted message is nowhere to be read in its row, whatever
\* edits were under way (chat.service.ts:445, 507-512).
DeletedHasNoContent == \A m \in DOMAIN message : message[m].isDeleted => message[m].body = 0

-----------------------------------------------------------------------------
(***************************************************************************)
(* Channels and their members                                              *)
(* (src/apps/backend/src/modules/chat/services/chat.service.ts and         *)
(* src/apps/backend/src/modules/chat/listeners/chat-domain.listener.ts):   *)
(* group channels, the direct channel of two positions, and the channel of *)
(* one task, which the events of the task create, fill and close.          *)
(*                                                                         *)
(* A channel and its members are inserted one query after the other, and   *)
(* every change of a member loads its row and saves all of it.  A pair of  *)
(* channel and position has one row.                                       *)
(*                                                                         *)
(* unfinished holds channels whose creation stopped halfway, restored the  *)
(* members a call saved from an outdated copy.                             *)
(***************************************************************************)

CONSTANTS
  ChatPositions,    \* positions
  Responsible, Assigning,  \* the positions of the task
  MemberCalls,      \* concurrent service calls and event handlers
  MaxChannels,      \* bound: channels
  MaxRead,          \* bound: sequence numbers of receipts
  MaxMemberCalls    \* bound: service calls

ASSUME ChatChannelsAssumption ==
  /\ {Responsible, Assigning} \subseteq ChatPositions
  /\ MaxChannels \in Nat /\ MaxRead \in Nat /\ MaxMemberCalls \in Nat

VARIABLES
  channel,      \* chat.channels, in the order of insertion
  member,       \* <<channel, position>> -> its row of chat.channel_members
  taskClosed,   \* the task is verified, closed or cancelled
  memberCall,   \* call -> what it does next
  memberCalls,  \* calls so far
  unfinished, restored

channelVars == <<channel, member, taskClosed, memberCall, memberCalls, unfinished, restored>>

\* late: the task was closed before its channel was inserted.
Channel == [type: {"group", "direct", "task_linked"}, status: {"active", "read_only"}, late: BOOLEAN]

ChannelMember ==
  [status: {"absent", "active", "left", "removed"}, role: {"owner", "member"}, lastReadSequence: 0..MaxRead]

NoMember == [status |-> "absent", role |-> "member", lastReadSequence |-> 0]

MemberBusy ==
  [pc: {"channel", "find", "save", "leave", "read"}, channel: 0..MaxChannels, type: {"group", "direct", "task_linked"},
   todo: Seq(ChatPositions), creates: BOOLEAN, copy: ChannelMember, read: 0..MaxRead]

MemberIdle == [pc |-> "idle"]

ChatChannelsTypeOK ==
  /\ channel \in Seq(Channel) /\ Len(channel) <= MaxChannels
  /\ member \in [(1..MaxChannels) \X ChatPositions -> ChannelMember]
  /\ \A k \in DOMAIN member : member[k].status # "absent" => k[1] \in DOMAIN channel
  /\ taskClosed \in BOOLEAN
  /\ memberCall \in [MemberCalls -> MemberBusy \cup {MemberIdle}]
  /\ memberCalls \in 0..MaxMemberCalls
  /\ unfinished \subseteq DOMAIN channel /\ restored \subseteq DOMAIN member

ChatChannelsInit ==
  /\ channel = <<>>
  /\ member = [k \in (1..MaxChannels) \X ChatPositions |-> NoMember]
  /\ taskClosed = FALSE
  /\ memberCall = [c \in MemberCalls |-> MemberIdle] /\ memberCalls = 0
  /\ unfinished = {} /\ restored = {}

-----------------------------------------------------------------------------
MemberStart(c, pc, n, type, todo, creates, copy, read) ==
  /\ memberCall[c] = MemberIdle
  /\ memberCalls < MaxMemberCalls
  /\ memberCalls' = memberCalls + 1
  /\ memberCall' = [memberCall EXCEPT ![c] =
       [pc |-> pc, channel |-> n, type |-> type, todo |-> todo, creates |-> creates, copy |-> copy, read |-> read]]
  /\ UNCHANGED <<channel, member, taskClosed, unfinished, restored>>

MemberAt(c, pc) == memberCall[c].pc = pc

MemberEnd(c) == memberCall' = [memberCall EXCEPT ![c] = MemberIdle]

IsActive(n, p) == member[n, p].status = "active"

\* createChannel, for a group; its creator is the owner.
CreateChannel(c, p, q) == p # q /\ MemberStart(c, "channel", 0, "group", <<p, q>>, TRUE, NoMember, 0)

\* getOrCreateDmChannel: unless there is one with both of them active.
GetOrCreateDmChannel(c, p, q) ==
  /\ p # q
  /\ ~\E n \in DOMAIN channel : channel[n].type = "direct" /\ channel[n].status = "active" /\ IsActive(n, p) /\ IsActive(n, q)
  /\ MemberStart(c, "channel", 0, "direct", <<p, q>>, TRUE, NoMember, 0)

\* The positions of the task, each of them once.
MemberPositionIds == IF Responsible = Assigning THEN <<Responsible>> ELSE <<Responsible, Assigning>>

\* createLinkedChannel, when task.channel_requested arrives: unless there is one.
CreateLinkedChannel(c) ==
  /\ ~\E n \in DOMAIN channel : channel[n].type = "task_linked"
  /\ MemberStart(c, "channel", 0, "task_linked", MemberPositionIds, TRUE, NoMember, 0)

SaveChannel(c) ==
  /\ MemberAt(c, "channel")
  /\ Len(channel) < MaxChannels
  /\ channel' = Append(channel, [type |-> memberCall[c].type, status |-> "active", late |-> taskClosed])
  /\ memberCall' = [memberCall EXCEPT ![c].pc = "find", ![c].channel = Len(channel) + 1]
  /\ UNCHANGED <<member, taskClosed, memberCalls, unfinished, restored>>

-----------------------------------------------------------------------------
\* addMember, for the head of the list: an active row is left alone, another is
\* loaded and brought back, none is inserted.
NextMember(c) ==
  LET rest == Tail(memberCall[c].todo)
  IN  memberCall' = [memberCall EXCEPT ![c] = IF rest = <<>> THEN MemberIdle ELSE [@ EXCEPT !.pc = "find", !.todo = rest]]

FindMember(c) ==
  /\ MemberAt(c, "find")
  /\ LET key == <<memberCall[c].channel, Head(memberCall[c].todo)>>
     IN  IF member[key].status = "active"
           THEN NextMember(c)
           ELSE memberCall' = [memberCall EXCEPT ![c].pc = "save", ![c].copy = member[key]]
  /\ UNCHANGED <<channel, member, taskClosed, memberCalls, unfinished, restored>>

\* The creator of a group, who is added first, owns it.
RoleOf(call) == IF call.type = "group" /\ call.creates /\ Len(call.todo) = 2 THEN "owner" ELSE "member"

\* uq_channel_members_active_position refuses a second active row.
InsertMember(c) ==
  /\ MemberAt(c, "save")
  /\ LET call == memberCall[c]
         key == <<call.channel, Head(call.todo)>>
     IN  /\ call.copy.status = "absent" => member[key].status # "active"
         /\ member' = [member EXCEPT ![key] =
              IF call.copy.status = "absent"
                THEN [status |-> "active", role |-> RoleOf(call), lastReadSequence |-> 0]
                ELSE [call.copy EXCEPT !.status = "active"]]
         /\ restored' = IF member[key] = call.copy THEN restored ELSE restored \cup {key}
  /\ NextMember(c)
  /\ UNCHANGED <<channel, taskClosed, memberCalls, unfinished>>

\* addMemberToChannel: by an owner, never to a direct channel.
AddMemberToChannel(c, n, p, actor) ==
  /\ n \in DOMAIN channel /\ channel[n].type # "direct"
  /\ IsActive(n, actor) /\ member[n, actor].role = "owner"
  /\ MemberStart(c, "find", n, channel[n].type, <<p>>, FALSE, NoMember, 0)

\* onTaskExecutorAdded: nothing if the channel is not there yet.
OnTaskExecutorAdded(c, p) ==
  \E n \in DOMAIN channel :
    /\ channel[n].type = "task_linked"
    /\ MemberStart(c, "find", n, "task_linked", <<p>>, FALSE, NoMember, 0)

\* removeMemberFromChannel: by an owner, or by the member.
RemoveMemberFromChannel(c, n, p, actor) ==
  /\ n \in DOMAIN channel /\ IsActive(n, p)
  /\ actor = p \/ (IsActive(n, actor) /\ member[n, actor].role = "owner")
  /\ MemberStart(c, "leave", n, channel[n].type, <<p>>, FALSE,
       [member[n, p] EXCEPT !.status = IF actor = p THEN "left" ELSE "removed"], 0)

\* markRead: an active member, forwards only.
MarkRead(c, n, p, upTo) ==
  /\ n \in DOMAIN channel /\ IsActive(n, p)
  /\ upTo > member[n, p].lastReadSequence
  /\ MemberStart(c, "read", n, channel[n].type, <<p>>, FALSE, member[n, p], upTo)

\* memberRepo.save of the loaded row.
SaveMember(c) ==
  /\ memberCall[c].pc \in {"leave", "read"}
  /\ LET call == memberCall[c]
         key == <<call.channel, Head(call.todo)>>
         stale == member[key].status # "active" \/ member[key].lastReadSequence # call.copy.lastReadSequence
     IN  /\ member' = [member EXCEPT ![key] =
              IF call.pc = "read" THEN [call.copy EXCEPT !.lastReadSequence = call.read] ELSE call.copy]
         /\ restored' = IF stale THEN restored \cup {key} ELSE restored
  /\ MemberEnd(c)
  /\ UNCHANGED <<channel, taskClosed, memberCalls, unfinished>>

-----------------------------------------------------------------------------
\* onTaskStatusChanged with a final status: setChannelReadOnly, for every
\* channel of the task.
SetChannelReadOnly ==
  channel' = [n \in DOMAIN channel |->
    IF channel[n].type = "task_linked" THEN [channel[n] EXCEPT !.status = "read_only"] ELSE channel[n]]

OnTaskStatusChanged ==
  /\ ~taskClosed
  /\ taskClosed' = TRUE
  /\ SetChannelReadOnly
  /\ UNCHANGED <<member, memberCall, memberCalls, unfinished, restored>>

AbortMemberCall(c) ==
  /\ memberCall[c] # MemberIdle
  /\ unfinished' = IF memberCall[c].creates /\ memberCall[c].channel # 0
                     THEN unfinished \cup {memberCall[c].channel} ELSE unfinished
  /\ MemberEnd(c)
  /\ UNCHANGED <<channel, member, taskClosed, memberCalls, restored>>

\* Groups and direct channels are created by the assigning position.
ChatChannelsNext ==
  \/ \E c \in MemberCalls :
       \/ \E q \in ChatPositions : CreateChannel(c, Assigning, q) \/ GetOrCreateDmChannel(c, Assigning, q)
       \/ CreateLinkedChannel(c) \/ SaveChannel(c) \/ FindMember(c) \/ InsertMember(c)
       \/ \E n \in DOMAIN channel, p, a \in ChatPositions : AddMemberToChannel(c, n, p, a) \/ RemoveMemberFromChannel(c, n, p, a)
       \/ \E p \in ChatPositions : OnTaskExecutorAdded(c, p)
       \/ \E n \in DOMAIN channel, p \in ChatPositions, r \in 1..MaxRead : MarkRead(c, n, p, r)
       \/ SaveMember(c) \/ AbortMemberCall(c)
  \/ OnTaskStatusChanged

ChatChannelsSpec == ChatChannelsInit /\ [][ChatChannelsNext]_channelVars

-----------------------------------------------------------------------------
\* A direct channel belongs to two positions, whoever joins, leaves and comes
\* back (chat.service.ts:223-225).
DirectMeansTwo ==
  \A n \in DOMAIN channel : channel[n].type = "direct" =>
    \A p, q, r \in ChatPositions :
      (\A x \in {p, q, r} : member[n, x].status # "absent") => p = q \/ q = r \/ p = r

\* A channel of a task is for those of the task, another one for two at least.
HasMembers(type, positions) ==
  IF type = "task_linked" THEN {Responsible, Assigning} \subseteq positions ELSE \E p, q \in positions : p # q

\* A channel that is there has the members it was created with; only a creation
\* that stopped halfway leaves one without, and a retry of the task's event does
\* not repair it (chat.service.ts:163-181).
CreatedWithMembers ==
  \A n \in DOMAIN channel :
    \/ HasMembers(channel[n].type, {p \in ChatPositions : member[n, p].status # "absent"})
    \/ n \in unfinished
    \/ \E c \in MemberCalls : memberCall[c] # MemberIdle /\ memberCall[c].creates /\ memberCall[c].channel = n

\* The channels of a finished task take no message any more, also when its
\* creation ran twice; only one that was inserted after the task was finished
\* stays open (chat-domain.listener.ts:97-113).
FinishedTaskIsReadOnly ==
  taskClosed => \A n \in DOMAIN channel : channel[n].type = "task_linked" => channel[n].status = "read_only" \/ channel[n].late

\* A receipt never goes back, unless a second call worked on the same member
\* (chat.service.ts:552-554).
ReceiptsAdvance ==
  [][\A k \in DOMAIN member : member[k].lastReadSequence <= member'[k].lastReadSequence \/ k \in restored']_channelVars

=============================================================================
