--------------------------- MODULE RecordsProofs -----------------------------
(***************************************************************************)
(* The safety of what people write and keep, whatever the constants:       *)
(* messages and channels (Chat), notifications (Notifications), calls,     *)
(* their media sessions and recordings (Calls, CallRecordings), folders    *)
(* and permissions (FileCatalog), the search index (SearchIndex), map      *)
(* layers (SpatialLayers), models and predictions (MlService), forms and   *)
(* generated reports (Analytics), and the events and presence of the edge  *)
(* gateway (EdgeGateway).                                                  *)
(***************************************************************************)
EXTENDS MCRecords, FiniteSetTheorems, WellFoundedInduction, TLAPS

\* A non-empty set of numbers up to n has a greatest one.
LEMMA GreatestOf ==
  ASSUME NEW n \in Nat, NEW S \in SUBSET (0..n), S # {}
  PROVE  \E x \in S : \A y \in S : y <= x
<1> DEFINE T == {n - x : x \in S}
<1>1. T \subseteq Nat /\ T # {}
  <2>1. \A x \in S : n - x \in Nat
    OBVIOUS
  <2> QED BY <2>1
<1>2. PICK y \in T : \A z \in T : ~ (<<z, y>> \in OpToRel(<, Nat))
  <2> HIDE DEF T
  <2> QED BY <1>1, NatLessThanWellFounded, WFMin
<1>3. PICK x \in S : y = n - x
  OBVIOUS
<1>4. \A w \in S : w <= x
  <2> SUFFICES ASSUME NEW w \in S PROVE w <= x
    OBVIOUS
  <2>1. ~ (<<n - w, y>> \in OpToRel(<, Nat)) /\ n - w \in Nat /\ y \in Nat
    BY <1>1, <1>2
  <2>2. ~ (n - w < y)
    BY <2>1 DEF OpToRel
  <2> QED BY <1>3, <2>2
<1> QED BY <1>4

-----------------------------------------------------------------------------
\* Messages.
\* Replacing an element of a sequence.
LEMMA ReplaceInSeq ==
  ASSUME NEW S, NEW q \in Seq(S), NEW i \in DOMAIN q, NEW e \in S
  PROVE  LET r == [q EXCEPT ![i] = e] IN
         /\ r \in Seq(S) /\ Len(r) = Len(q) /\ DOMAIN r = DOMAIN q /\ r[i] = e
         /\ \A j \in DOMAIN q : j # i => r[j] = q[j]
OBVIOUS

\* One element is appended.
LEMMA AppendToSeq ==
  ASSUME NEW S, NEW q \in Seq(S), NEW e \in S
  PROVE  LET r == Append(q, e) IN
         /\ r \in Seq(S) /\ Len(r) = Len(q) + 1 /\ DOMAIN r = DOMAIN q \cup {Len(q) + 1}
         /\ r[Len(q) + 1] = e
         /\ \A j \in DOMAIN q : r[j] = q[j] /\ j # Len(q) + 1 /\ j \in 1..Len(q)
OBVIOUS

\* Rows without the bounds of the model.
MessageRow ==
  [sequence: Nat, idempotencyKey: ChatKeys \cup {NoKey}, body: Nat, isDeleted: BOOLEAN, parent: Nat, replyCount: Nat]

\* What a call may hold.
ChatCallStates ==
  [pc: {"lock", "insert", "reply", "history", "edit", "delete"}, at: Nat, copy: MessageRow, body: Nat] \cup {ChatIdle}

\* The types the proof needs.
ChatTypes ==
  /\ message \in Seq(MessageRow) /\ lastSequence = Len(message)
  /\ chatCall \in [ChatCalls -> ChatCallStates]
  /\ chatCalls \in Nat /\ cursor \in Nat /\ cursor <= Len(message)

\* The number of a message is its place, and a deleted one is empty.
MessagesAreInOrder == \A m \in DOMAIN message : message[m].sequence = m

\* What a call holds: the lock and the next number, or a message that is there.
ChatCallIsRight(c) ==
  LET call == chatCall[c]
  IN  /\ call.pc = "insert" <=> rowLock = c
      /\ call.pc = "insert" => call.copy.sequence = Len(message) + 1
      /\ call.pc \in {"lock", "insert"} => ~call.copy.isDeleted
      /\ call.pc \in {"history", "edit", "delete"} =>
           /\ call.at \in DOMAIN message /\ call.copy.sequence = call.at
           /\ call.copy.idempotencyKey = message[call.at].idempotencyKey
           /\ call.copy.parent = message[call.at].parent
           /\ ~call.copy.isDeleted
      /\ call.pc = "edit" => <<call.at, call.copy.body>> \in messageEdit

\* Every content is of a message that is there.
BodiesAreOfMessages == bodies \subseteq (DOMAIN message) \X Nat

\* The inductive invariant.
ChatInv ==
  /\ ChatTypes /\ MessagesAreInOrder /\ BodiesAreOfMessages
  /\ \A c \in ChatCalls : ChatCallIsRight(c)
  /\ ReaderMissesNothing /\ OneMessagePerKey /\ ContentIsKept /\ DeletedHasNoContent

\* It holds at the start.
LEMMA ChatInitInv == ChatMessagesInit => ChatInv
<1> SUFFICES ASSUME ChatMessagesInit PROVE ChatInv
  OBVIOUS
<1> USE ChatMessagesAssumption
<1>1. ChatTypes
  BY DEF ChatMessagesInit, ChatTypes, ChatCallStates
<1>2. \A c \in ChatCalls : ChatCallIsRight(c)
  BY DEF ChatMessagesInit, ChatCallIsRight, ChatIdle
<1> QED BY <1>1, <1>2 DEF ChatMessagesInit, ChatInv, MessagesAreInOrder, BodiesAreOfMessages, ReaderMissesNothing,
         OneMessagePerKey, ContentIsKept, DeletedHasNoContent

\* One call goes on.
LEMMA OneChatCallMoves ==
  ASSUME ChatTypes, NEW c \in ChatCalls, NEW call \in ChatCallStates, chatCall' = [chatCall EXCEPT ![c] = call]
  PROVE  /\ chatCall' \in [ChatCalls -> ChatCallStates] /\ chatCall'[c] = call
         /\ \A d \in ChatCalls : d # c => chatCall'[d] = chatCall[d]
BY DEF ChatTypes

\* The columns that no update touches stay, and messages stay.
ColumnsStay ==
  \A m \in DOMAIN message :
    /\ m \in DOMAIN message'
    /\ message'[m].idempotencyKey = message[m].idempotencyKey
    /\ message'[m].parent = message[m].parent

\* The other calls hold what they held.
LEMMA ChatCallKeeps ==
  ASSUME NEW c \in ChatCalls, ChatCallIsRight(c), chatCall'[c] = chatCall[c], ColumnsStay,
         messageEdit \subseteq messageEdit', rowLock = c <=> rowLock' = c, rowLock = c => Len(message') = Len(message)
  PROVE  ChatCallIsRight(c)'
BY DEF ChatCallIsRight, ColumnsStay

\* A step that leaves the messages alone.
LEMMA MessagesStand ==
  ASSUME ChatInv, UNCHANGED <<message, cursor, seen, overwritten, bodies>>, messageEdit \subseteq messageEdit'
  PROVE  /\ MessagesAreInOrder' /\ BodiesAreOfMessages' /\ ColumnsStay
         /\ ReaderMissesNothing' /\ OneMessagePerKey' /\ ContentIsKept' /\ DeletedHasNoContent'
<1>1. MessagesAreInOrder' /\ BodiesAreOfMessages' /\ ColumnsStay /\ ReaderMissesNothing' /\ OneMessagePerKey' /\ DeletedHasNoContent'
  BY DEF ChatInv, MessagesAreInOrder, BodiesAreOfMessages, ColumnsStay, ReaderMissesNothing, OneMessagePerKey, DeletedHasNoContent
<1>2. ContentIsKept'
  BY DEF ChatInv, ContentIsKept
<1> QED BY <1>1, <1>2

\* A call that starts, or goes on without writing a message.
LEMMA StepOfOneCall ==
  ASSUME ChatInv, NEW c \in ChatCalls, NEW call \in ChatCallStates, chatCall' = [chatCall EXCEPT ![c] = call],
         UNCHANGED <<message, lastSequence, cursor, seen, overwritten, bodies>>, messageEdit \subseteq messageEdit',
         chatCalls' \in Nat, chatCall'[c] = call => ChatCallIsRight(c)',
         \A d \in ChatCalls : d # c => (rowLock = d <=> rowLock' = d)
  PROVE  ChatInv'
<1>1. ChatTypes
  BY DEF ChatInv
<1>2. /\ chatCall' \in [ChatCalls -> ChatCallStates] /\ chatCall'[c] = call
      /\ \A d \in ChatCalls : d # c => chatCall'[d] = chatCall[d]
  BY <1>1, OneChatCallMoves
<1>3. ChatTypes'
  BY <1>1, <1>2 DEF ChatTypes
<1>4. /\ MessagesAreInOrder' /\ BodiesAreOfMessages' /\ ColumnsStay
      /\ ReaderMissesNothing' /\ OneMessagePerKey' /\ ContentIsKept' /\ DeletedHasNoContent'
  BY MessagesStand
<1>5. ASSUME NEW d \in ChatCalls, d # c PROVE ChatCallIsRight(d)'
  <2>1. ChatCallIsRight(d)
    BY DEF ChatInv
  <2> QED BY <1>2, <1>4, <1>5, <2>1, ChatCallKeeps
<1> QED BY <1>2, <1>3, <1>4, <1>5 DEF ChatInv

\* A call that starts.
LEMMA StartIsRight ==
  ASSUME ChatInv, NEW c \in ChatCalls, NEW pc \in {"lock", "history", "delete"}, NEW at \in Nat, NEW copy \in MessageRow,
         ChatStart(c, pc, at, copy), ~copy.isDeleted,
         pc # "lock" => at \in DOMAIN message /\ copy = message[at]
  PROVE  ChatInv'
<1> DEFINE call == [pc |-> pc, at |-> at, copy |-> copy, body |-> chatCalls + 1]
<1>1. /\ chatCall' = [chatCall EXCEPT ![c] = call] /\ chatCall[c] = ChatIdle /\ chatCalls' = chatCalls + 1
      /\ UNCHANGED <<lastSequence, message, messageEdit, rowLock, readOnly, cursor, seen, overwritten, bodies>>
  BY DEF ChatStart
<1>2. chatCalls \in Nat /\ MessagesAreInOrder /\ ChatCallIsRight(c)
  BY DEF ChatInv, ChatTypes
<1>3. rowLock # c
  BY <1>1, <1>2 DEF ChatCallIsRight, ChatIdle
<1>4. call \in ChatCallStates /\ call.pc = pc /\ call.at = at /\ call.copy = copy
  BY <1>2 DEF ChatCallStates
<1> HIDE DEF call
<1>5. chatCall'[c] = call => ChatCallIsRight(c)'
  BY <1>1, <1>2, <1>3, <1>4 DEF ChatCallIsRight, MessagesAreInOrder
<1>6. chatCalls' \in Nat
  BY <1>1, <1>2
<1> QED BY <1>1, <1>4, <1>5, <1>6, StepOfOneCall

\* A call that writes the row of a message whose number and key stay: the row it held
\* is remembered, or was overwritten, or is in the edit history.
LEMMA RowIsReplaced ==
  ASSUME ChatInv, NEW c \in ChatCalls, NEW i \in DOMAIN message, NEW row \in MessageRow,
         message' = [message EXCEPT ![i] = row], ChatEnd(c), chatCall[c].pc # "insert",
         row.sequence = i, row.idempotencyKey = message[i].idempotencyKey, row.parent = message[i].parent,
         row.isDeleted => row.body = 0,
         UNCHANGED <<lastSequence, messageEdit, rowLock, chatCalls, cursor, seen>>,
         overwritten \subseteq overwritten',
         bodies' \subseteq bodies \cup {<<i, row.body>>},
         \/ row.body = message[i].body /\ row.isDeleted = message[i].isDeleted
         \/ i \in overwritten' \/ row.isDeleted
         \/ <<i, message[i].body>> \in messageEdit /\ ~message[i].isDeleted
  PROVE  ChatInv'
<1>1. /\ ChatTypes /\ MessagesAreInOrder /\ BodiesAreOfMessages
      /\ \A d \in ChatCalls : ChatCallIsRight(d)
      /\ ReaderMissesNothing /\ OneMessagePerKey /\ ContentIsKept /\ DeletedHasNoContent
  BY DEF ChatInv
<1>2. /\ message' \in Seq(MessageRow) /\ Len(message') = Len(message) /\ DOMAIN message' = DOMAIN message /\ message'[i] = row
      /\ \A j \in DOMAIN message : j # i => message'[j] = message[j]
  BY <1>1, ReplaceInSeq DEF ChatTypes
<1>3. /\ chatCall' \in [ChatCalls -> ChatCallStates] /\ chatCall'[c] = ChatIdle
      /\ \A d \in ChatCalls : d # c => chatCall'[d] = chatCall[d]
  <2>1. ChatIdle \in ChatCallStates
    BY DEF ChatCallStates
  <2> QED BY <1>1, <2>1, OneChatCallMoves DEF ChatEnd
<1>4. ChatTypes'
  BY <1>1, <1>2, <1>3 DEF ChatTypes
<1>5. ColumnsStay
  BY <1>2 DEF ColumnsStay
<1>6. ASSUME NEW d \in ChatCalls PROVE ChatCallIsRight(d)'
  <2>1. CASE d = c
    <3>1. rowLock' # c
      BY <1>1 DEF ChatCallIsRight
    <3> QED BY <1>3, <2>1, <3>1 DEF ChatCallIsRight, ChatIdle
  <2>2. CASE d # c
    BY <1>1, <1>2, <1>3, <1>5, <2>2, ChatCallKeeps
  <2> QED BY <2>1, <2>2
<1>7. MessagesAreInOrder' /\ BodiesAreOfMessages'
  <2>1. <<i, row.body>> \in (DOMAIN message) \X Nat
    BY DEF MessageRow
  <2> QED BY <1>1, <1>2, <2>1 DEF MessagesAreInOrder, BodiesAreOfMessages
<1>8. ReaderMissesNothing'
  <2> SUFFICES ASSUME NEW m \in DOMAIN message', message'[m].sequence <= cursor', message'[m].parent = 0 PROVE m \in seen'
    BY DEF ReaderMissesNothing
  <2>1. message[m].sequence <= cursor /\ message[m].parent = 0
    BY <1>1, <1>2, <1>7 DEF MessagesAreInOrder
  <2> QED BY <1>1, <1>2, <2>1 DEF ReaderMissesNothing
<1>9. OneMessagePerKey'
  <2> SUFFICES ASSUME NEW m \in DOMAIN message', NEW n \in DOMAIN message',
                      message'[m].idempotencyKey = message'[n].idempotencyKey, m # n
               PROVE  message'[m].idempotencyKey = NoKey
    BY DEF OneMessagePerKey
  <2>1. \A k \in DOMAIN message : message'[k].idempotencyKey = message[k].idempotencyKey
    BY <1>5 DEF ColumnsStay
  <2> QED BY <1>1, <1>2, <2>1 DEF OneMessagePerKey
<1>10. DeletedHasNoContent'
  BY <1>1, <1>2 DEF DeletedHasNoContent
<1>11. ContentIsKept'
  <2> SUFFICES ASSUME NEW b \in bodies'
               PROVE  \/ message'[b[1]].body = b[2] \/ b \in messageEdit'
                      \/ message'[b[1]].isDeleted \/ b[1] \in overwritten'
    BY DEF ContentIsKept
  <2>1. CASE b = <<i, row.body>>
    BY <1>2, <2>1
  <2>2. CASE b \in bodies /\ b[1] # i
    <3>1. message'[b[1]] = message[b[1]]
      BY <1>1, <1>2, <2>2 DEF BodiesAreOfMessages
    <3>2. message[b[1]].body = b[2] \/ b \in messageEdit \/ message[b[1]].isDeleted \/ b[1] \in overwritten
      BY <1>1, <2>2 DEF ContentIsKept
    <3> QED BY <3>1, <3>2
  <2>3. CASE b \in bodies /\ b[1] = i
    <3>2. message[i].body = b[2] \/ b \in messageEdit \/ message[i].isDeleted \/ i \in overwritten
      BY <1>1, <2>3 DEF ContentIsKept
    <3>3. CASE b \in messageEdit \/ i \in overwritten
      BY <2>3, <3>3
    <3>4. CASE message[i].isDeleted \/ message[i].body = b[2]
      <4>1. CASE row.body = message[i].body /\ row.isDeleted = message[i].isDeleted
        BY <1>2, <2>3, <3>4, <4>1
      <4>2. CASE i \in overwritten' \/ row.isDeleted
        BY <1>2, <2>3, <4>2
      <4>3. CASE <<i, message[i].body>> \in messageEdit /\ ~message[i].isDeleted
        <5>1. message[i].body = b[2]
          BY <3>4, <4>3
        <5>2. PICK x, y : b = <<x, y>>
          BY <1>1, <2>3 DEF BodiesAreOfMessages
        <5> QED BY <2>3, <4>3, <5>1, <5>2
      <4> QED BY <4>1, <4>2, <4>3
    <3> QED BY <3>2, <3>3, <3>4
  <2> QED BY <2>1, <2>2, <2>3
<1> QED BY <1>4, <1>6, <1>7, <1>8, <1>9, <1>10, <1>11 DEF ChatInv

\* Every step of the specification keeps the inductive invariant.
LEMMA ChatNextInv == ChatInv /\ [ChatMessagesNext]_chatVars => ChatInv'
<1> SUFFICES ASSUME ChatInv, [ChatMessagesNext]_chatVars PROVE ChatInv'
  OBVIOUS
<1> USE ChatMessagesAssumption
<1>0. /\ ChatTypes /\ MessagesAreInOrder /\ BodiesAreOfMessages
      /\ \A d \in ChatCalls : ChatCallIsRight(d)
      /\ ReaderMissesNothing /\ OneMessagePerKey /\ ContentIsKept /\ DeletedHasNoContent
  BY DEF ChatInv
<1>i. ChatIdle \in ChatCallStates /\ ChatIdle.pc = "idle"
  BY DEF ChatCallStates, ChatIdle
<1>1. ASSUME NEW c \in ChatCalls, NEW k \in ChatKeys \cup {NoKey}, NEW p \in 0..1, SendMessage(c, k, p) PROVE ChatInv'
  <2> DEFINE copy == [NewMessage EXCEPT !.idempotencyKey = k, !.parent = p]
  <2>1. copy \in MessageRow /\ ~copy.isDeleted
    <3>1. NewMessage \in MessageRow /\ NewMessage.isDeleted = FALSE
      BY DEF NewMessage, MessageRow
    <3>2. p \in Nat
      OBVIOUS
    <3> QED BY <3>1, <3>2 DEF MessageRow
  <2>2. ChatStart(c, "lock", 0, copy)
    BY <1>1 DEF SendMessage
  <2> QED BY <2>1, <2>2, StartIsRight
<1>2. ASSUME NEW c \in ChatCalls, NEW m \in DOMAIN message, EditMessage(c, m) \/ DeleteMessage(c, m) PROVE ChatInv'
  <2>1. message[m] \in MessageRow /\ m \in Nat
    BY <1>0 DEF ChatTypes
  <2>2. ~message[m].isDeleted /\ (ChatStart(c, "history", m, message[m]) \/ ChatStart(c, "delete", m, message[m]))
    BY <1>2 DEF EditMessage, DeleteMessage
  <2> QED BY <2>1, <2>2, StartIsRight
<1>3. ASSUME NEW c \in ChatCalls, LockChannel(c) PROVE ChatInv'
  <2> DEFINE call == [chatCall[c] EXCEPT !.pc = "insert", !.copy.sequence = lastSequence + 1]
  <2>1. /\ chatCall' = [chatCall EXCEPT ![c] = call] /\ chatCall[c].pc = "lock" /\ rowLock = NoChatCall /\ rowLock' = c
        /\ UNCHANGED <<lastSequence, message, messageEdit, readOnly, chatCalls, cursor, seen, overwritten, bodies>>
    BY <1>3 DEF LockChannel, TakeNumber, ChatAt
  <2>2. lastSequence = Len(message) /\ lastSequence \in Nat /\ chatCall[c].copy \in MessageRow /\ ~chatCall[c].copy.isDeleted
    <3>1. lastSequence = Len(message) /\ lastSequence \in Nat
      BY <1>0 DEF ChatTypes
    <3>2. chatCall[c] \in ChatCallStates \ {ChatIdle}
      BY <1>0, <2>1 DEF ChatTypes, ChatIdle
    <3>3. chatCall[c].copy \in MessageRow
      BY <3>2 DEF ChatCallStates
    <3>4. ~chatCall[c].copy.isDeleted
      BY <1>0, <2>1 DEF ChatCallIsRight
    <3> QED BY <3>1, <3>3, <3>4
  <2>3. call \in ChatCallStates /\ call.pc = "insert" /\ call.copy.sequence = Len(message) + 1 /\ ~call.copy.isDeleted
    <3>1. [chatCall[c].copy EXCEPT !.sequence = lastSequence + 1] \in MessageRow
      BY <2>2 DEF MessageRow
    <3>2. chatCall[c] \in ChatCallStates \ {ChatIdle}
      BY <1>0, <2>1 DEF ChatTypes, ChatIdle
    <3> QED BY <2>2, <3>1, <3>2 DEF ChatCallStates, MessageRow
  <2> HIDE DEF call
  <2>4. chatCall'[c] = call => ChatCallIsRight(c)'
    BY <2>1, <2>3 DEF ChatCallIsRight
  <2>5. chatCalls' \in Nat
    BY <1>0, <2>1 DEF ChatTypes
  <2> QED BY <2>1, <2>3, <2>4, <2>5, StepOfOneCall
<1>4. ASSUME NEW c \in ChatCalls, InsertMessage(c) PROVE ChatInv'
  <2> DEFINE row == [chatCall[c].copy EXCEPT !.body = chatCall[c].body]
             call == IF row.parent = 0 THEN ChatIdle ELSE [chatCall[c] EXCEPT !.pc = "reply"]
  <2>1. /\ chatCall[c].pc = "insert" /\ KeyAccepted(row.idempotencyKey)
        /\ message' = Append(message, row) /\ lastSequence' = row.sequence
        /\ bodies' = bodies \cup {<<Len(message) + 1, row.body>>}
        /\ chatCall' = [chatCall EXCEPT ![c] = call]
        /\ rowLock' = (IF rowLock = c THEN NoChatCall ELSE rowLock)
        /\ UNCHANGED <<messageEdit, readOnly, chatCalls, cursor, seen, overwritten>>
    BY <1>4 DEF InsertMessage, ChatAt
  <2>2. rowLock = c /\ chatCall[c].copy.sequence = Len(message) + 1 /\ ~chatCall[c].copy.isDeleted
    BY <1>0, <2>1 DEF ChatCallIsRight
  <2>3. chatCall[c].copy \in MessageRow /\ chatCall[c].body \in Nat
    BY <1>0, <2>1 DEF ChatTypes, ChatCallStates, ChatIdle
  <2>4. row \in MessageRow /\ row.sequence = Len(message) + 1 /\ ~row.isDeleted
    BY <2>2, <2>3 DEF MessageRow
  <2>5. call \in ChatCallStates /\ call.pc \in {"idle", "reply"}
    <3>1. chatCall[c] \in ChatCallStates \ {ChatIdle}
      BY <1>0, <2>1 DEF ChatTypes, ChatIdle
    <3> QED BY <1>i, <3>1 DEF ChatCallStates
  <2> HIDE DEF row, call
  <2>6. /\ message' \in Seq(MessageRow) /\ Len(message') = Len(message) + 1 /\ DOMAIN message' = DOMAIN message \cup {Len(message) + 1}
        /\ message'[Len(message) + 1] = row
        /\ \A j \in DOMAIN message : message'[j] = message[j] /\ j # Len(message) + 1 /\ j \in 1..Len(message)
    BY <1>0, <2>1, <2>4, AppendToSeq DEF ChatTypes
  <2>7. /\ chatCall' \in [ChatCalls -> ChatCallStates] /\ chatCall'[c] = call
        /\ \A d \in ChatCalls : d # c => chatCall'[d] = chatCall[d]
    BY <1>0, <2>1, <2>5, OneChatCallMoves
  <2>8. ChatTypes'
    <3>1. lastSequence' = Len(message') /\ cursor' \in Nat /\ chatCalls' \in Nat /\ Len(message) \in Nat /\ cursor' <= Len(message)
      BY <1>0, <2>1, <2>4, <2>6 DEF ChatTypes
    <3> QED BY <2>6, <2>7, <3>1 DEF ChatTypes
  <2>9. ColumnsStay
    BY <2>6 DEF ColumnsStay
  <2>10. ASSUME NEW d \in ChatCalls PROVE ChatCallIsRight(d)'
    <3>1. rowLock' = NoChatCall /\ NoChatCall # d
      BY <2>1, <2>2
    <3>2. CASE d = c
      BY <2>5, <2>7, <3>1, <3>2 DEF ChatCallIsRight
    <3>3. CASE d # c
      BY <1>0, <2>1, <2>2, <2>7, <2>9, <3>1, <3>3, ChatCallKeeps
    <3> QED BY <3>2, <3>3
  <2>11. MessagesAreInOrder' /\ BodiesAreOfMessages'
    <3>1. row.body \in Nat
      BY <2>4 DEF MessageRow
    <3>2. MessagesAreInOrder'
      BY <1>0, <2>4, <2>6 DEF MessagesAreInOrder
    <3> QED BY <1>0, <2>1, <2>6, <3>1, <3>2 DEF BodiesAreOfMessages
  <2>12. ReaderMissesNothing'
    <3> SUFFICES ASSUME NEW m \in DOMAIN message', message'[m].sequence <= cursor', message'[m].parent = 0 PROVE m \in seen'
      BY DEF ReaderMissesNothing
    <3>1. m # Len(message) + 1
      BY <1>0, <2>1, <2>4, <2>6 DEF ChatTypes
    <3> QED BY <1>0, <2>1, <2>6, <3>1 DEF ReaderMissesNothing
  <2>13. OneMessagePerKey'
    <3>1. \A m \in DOMAIN message : row.idempotencyKey # NoKey => message[m].idempotencyKey # row.idempotencyKey
      BY <2>1 DEF KeyAccepted
    <3> QED BY <1>0, <2>6, <3>1 DEF OneMessagePerKey
  <2>14. ContentIsKept'
    <3> SUFFICES ASSUME NEW b \in bodies'
                 PROVE  \/ message'[b[1]].body = b[2] \/ b \in messageEdit'
                        \/ message'[b[1]].isDeleted \/ b[1] \in overwritten'
      BY DEF ContentIsKept
    <3>1. CASE b = <<Len(message) + 1, row.body>>
      BY <2>6, <3>1
    <3>2. CASE b \in bodies
      <4>1. b[1] \in DOMAIN message
        BY <1>0, <3>2 DEF BodiesAreOfMessages
      <4> QED BY <1>0, <2>1, <2>6, <3>2, <4>1 DEF ContentIsKept
    <3> QED BY <2>1, <3>1, <3>2
  <2>15. DeletedHasNoContent'
    BY <1>0, <2>4, <2>6 DEF DeletedHasNoContent
  <2> QED BY <2>8, <2>10, <2>11, <2>12, <2>13, <2>14, <2>15 DEF ChatInv
<1>5. ASSUME NEW c \in ChatCalls, CountReply(c) PROVE ChatInv'
  <2> DEFINE p == chatCall[c].copy.parent
             row == [message[p] EXCEPT !.replyCount = @ + 1]
  <2>1. /\ chatCall[c].pc = "reply" /\ message' = [message EXCEPT ![p] = row] /\ ChatEnd(c)
        /\ UNCHANGED <<lastSequence, messageEdit, rowLock, readOnly, chatCalls, cursor, seen, overwritten, bodies>>
    BY <1>5 DEF CountReply, ChatAt
  <2>2. CASE p \in DOMAIN message
    <3>1. message[p] \in MessageRow
      BY <1>0, <2>2 DEF ChatTypes
    <3>2. /\ row \in MessageRow /\ row.sequence = message[p].sequence /\ row.idempotencyKey = message[p].idempotencyKey
          /\ row.parent = message[p].parent /\ row.isDeleted = message[p].isDeleted /\ row.body = message[p].body
      BY <3>1 DEF MessageRow
    <3>3. row.sequence = p /\ (row.isDeleted => row.body = 0)
      BY <1>0, <2>2, <3>2 DEF MessagesAreInOrder, DeletedHasNoContent
    <3> HIDE DEF p, row
    <3> QED BY <2>1, <2>2, <3>2, <3>3, RowIsReplaced
  <2>3. CASE p \notin DOMAIN message
    <3>1. message' = message
      <4> HIDE DEF p, row
      <4> QED BY <1>0, <2>1, <2>3 DEF ChatTypes
    <3>2. chatCall' = [chatCall EXCEPT ![c] = ChatIdle] /\ rowLock # c
      BY <1>0, <2>1 DEF ChatEnd, ChatCallIsRight
    <3>3. chatCall'[c] = ChatIdle => ChatCallIsRight(c)'
      BY <2>1, <3>2 DEF ChatCallIsRight, ChatIdle
    <3>4. chatCalls' \in Nat
      BY <1>0, <2>1 DEF ChatTypes
    <3> QED BY <1>i, <2>1, <3>1, <3>2, <3>3, <3>4, StepOfOneCall
  <2> QED BY <2>2, <2>3
<1>6. ASSUME NEW c \in ChatCalls, AbortChatCall(c) PROVE ChatInv'
  <2>1. /\ chatCall' = [chatCall EXCEPT ![c] = ChatIdle] /\ rowLock' = (IF rowLock = c THEN NoChatCall ELSE rowLock)
        /\ UNCHANGED <<lastSequence, message, messageEdit, readOnly, chatCalls, cursor, seen, overwritten, bodies>>
    BY <1>6 DEF AbortChatCall, ChatEnd
  <2>2. rowLock' # c
    BY <2>1
  <2>3. chatCall'[c] = ChatIdle => ChatCallIsRight(c)'
    BY <2>2 DEF ChatCallIsRight, ChatIdle
  <2>4. chatCalls' \in Nat
    BY <1>0, <2>1 DEF ChatTypes
  <2>5. \A d \in ChatCalls : d # c => (rowLock = d <=> rowLock' = d)
    BY <2>1
  <2> QED BY <1>i, <2>1, <2>3, <2>4, <2>5, StepOfOneCall
<1>7. ASSUME NEW c \in ChatCalls, KeepHistory(c) PROVE ChatInv'
  <2> DEFINE call == [chatCall[c] EXCEPT !.pc = "edit"]
  <2>1. /\ chatCall[c].pc = "history" /\ chatCall' = [chatCall EXCEPT ![c] = call]
        /\ messageEdit' = messageEdit \cup {<<chatCall[c].at, chatCall[c].copy.body>>}
        /\ UNCHANGED <<lastSequence, message, rowLock, readOnly, chatCalls, cursor, seen, overwritten, bodies>>
    BY <1>7 DEF KeepHistory, ChatAt, ChatGo
  <2>2. call \in ChatCallStates /\ call.pc = "edit" /\ call.at = chatCall[c].at /\ call.copy = chatCall[c].copy
    <3>1. chatCall[c] \in ChatCallStates \ {ChatIdle}
      BY <1>0, <2>1 DEF ChatTypes, ChatIdle
    <3> QED BY <3>1 DEF ChatCallStates
  <2> HIDE DEF call
  <2>3. chatCall'[c] = call => ChatCallIsRight(c)'
    BY <1>0, <2>1, <2>2 DEF ChatCallIsRight
  <2>4. chatCalls' \in Nat
    BY <1>0, <2>1 DEF ChatTypes
  <2> QED BY <2>1, <2>2, <2>3, <2>4, StepOfOneCall
<1>8. ASSUME NEW c \in ChatCalls, SaveEdited(c) PROVE ChatInv'
  <2> DEFINE i == chatCall[c].at
             copy == chatCall[c].copy
             row == [copy EXCEPT !.body = chatCall[c].body]
  <2>1. /\ chatCall[c].pc = "edit" /\ message' = [message EXCEPT ![i] = row] /\ ChatEnd(c)
        /\ overwritten' = (IF message[i] = copy THEN overwritten ELSE overwritten \cup {i})
        /\ bodies' = bodies \cup {<<i, row.body>>}
        /\ UNCHANGED <<lastSequence, messageEdit, rowLock, readOnly, chatCalls, cursor, seen>>
    BY <1>8 DEF SaveEdited, SaveMessage, ChatAt
  <2>2. /\ i \in DOMAIN message /\ copy.sequence = i
        /\ copy.idempotencyKey = message[i].idempotencyKey
        /\ copy.parent = message[i].parent /\ ~copy.isDeleted
        /\ <<i, copy.body>> \in messageEdit
    BY <1>0, <2>1 DEF ChatCallIsRight
  <2>3. copy \in MessageRow /\ chatCall[c].body \in Nat
    BY <1>0, <2>1 DEF ChatTypes, ChatCallStates, ChatIdle
  <2> HIDE DEF i, copy
  <2>4. /\ row \in MessageRow /\ row.sequence = copy.sequence /\ row.idempotencyKey = copy.idempotencyKey
        /\ row.parent = copy.parent /\ row.isDeleted = copy.isDeleted
    BY <2>3 DEF MessageRow
  <2> HIDE DEF row
  <2>5. i \in overwritten' \/ (<<i, message[i].body>> \in messageEdit /\ ~message[i].isDeleted)
    BY <2>1, <2>2
  <2> QED BY <2>1, <2>2, <2>4, <2>5, RowIsReplaced
<1>9. ASSUME NEW c \in ChatCalls, SaveDeleted(c) PROVE ChatInv'
  <2> DEFINE i == chatCall[c].at
             copy == chatCall[c].copy
             row == [copy EXCEPT !.body = 0, !.isDeleted = TRUE]
  <2>1. /\ chatCall[c].pc = "delete" /\ message' = [message EXCEPT ![i] = row] /\ ChatEnd(c)
        /\ overwritten' = (IF message[i] = copy THEN overwritten ELSE overwritten \cup {i})
        /\ bodies' = bodies \cup {<<i, row.body>>}
        /\ UNCHANGED <<lastSequence, messageEdit, rowLock, readOnly, chatCalls, cursor, seen>>
    BY <1>9 DEF SaveDeleted, SaveMessage, ChatAt
  <2>2. /\ i \in DOMAIN message /\ copy.sequence = i
        /\ copy.idempotencyKey = message[i].idempotencyKey
        /\ copy.parent = message[i].parent
    BY <1>0, <2>1 DEF ChatCallIsRight
  <2>3. copy \in MessageRow
    BY <1>0, <2>1 DEF ChatTypes, ChatCallStates, ChatIdle
  <2> HIDE DEF i, copy
  <2>4. /\ row \in MessageRow /\ row.sequence = copy.sequence /\ row.idempotencyKey = copy.idempotencyKey
        /\ row.parent = copy.parent /\ row.isDeleted /\ row.body = 0
    BY <2>3 DEF MessageRow
  <2> HIDE DEF row
  <2> QED BY <2>1, <2>2, <2>4, RowIsReplaced
<1>10. CASE SetReadOnly \/ UNCHANGED chatVars
  <2>1. UNCHANGED <<lastSequence, message, messageEdit, rowLock, chatCall, chatCalls, cursor, seen, overwritten, bodies>>
    BY <1>10 DEF SetReadOnly, chatVars
  <2>2. ChatTypes' /\ \A d \in ChatCalls : ChatCallIsRight(d)'
    BY <1>0, <2>1 DEF ChatTypes, ChatCallIsRight
  <2> QED BY <2>1, <2>2, MessagesStand DEF ChatInv
<1>11. CASE ListMessages
  <2> DEFINE new == {m \in DOMAIN message : message[m].sequence > cursor /\ message[m].parent = 0}
             numbers == {message[m].sequence : m \in new}
  <2>1. /\ new # {} /\ seen' = seen \cup new
        /\ cursor' = CHOOSE n \in numbers : \A m \in new : message[m].sequence <= n
        /\ UNCHANGED <<lastSequence, message, messageEdit, rowLock, readOnly, chatCall, chatCalls, overwritten, bodies>>
    BY <1>11 DEF ListMessages
  <2>2. numbers \subseteq 1..Len(message) /\ numbers # {} /\ Len(message) \in Nat
    BY <1>0, <2>1 DEF ChatTypes, MessagesAreInOrder
  <2>3. PICK n \in numbers : \A x \in numbers : x <= n
    <3> HIDE DEF numbers
    <3>1. numbers \in SUBSET (0..Len(message))
      BY <2>2
    <3> QED BY <2>2, <3>1, GreatestOf
  <2>4. cursor' \in numbers /\ \A m \in new : message[m].sequence <= cursor'
    BY <2>1, <2>3
  <2>5. cursor' \in Nat /\ cursor' <= Len(message)
    BY <2>2, <2>4
  <2>6. ChatTypes' /\ \A d \in ChatCalls : ChatCallIsRight(d)'
    BY <1>0, <2>1, <2>5 DEF ChatTypes, ChatCallIsRight
  <2>7. /\ MessagesAreInOrder' /\ BodiesAreOfMessages' /\ OneMessagePerKey' /\ ContentIsKept' /\ DeletedHasNoContent'
    BY <1>0, <2>1 DEF MessagesAreInOrder, BodiesAreOfMessages, OneMessagePerKey, ContentIsKept, DeletedHasNoContent
  <2>8. ReaderMissesNothing'
    <3> SUFFICES ASSUME NEW m \in DOMAIN message, message[m].parent = 0 PROVE m \in seen'
      BY <2>1 DEF ReaderMissesNothing
    <3>1. message[m].sequence \in Nat /\ cursor \in Nat
      BY <1>0 DEF ChatTypes, MessagesAreInOrder
    <3> QED BY <1>0, <2>1, <3>1 DEF ReaderMissesNothing
  <2> QED BY <2>6, <2>7, <2>8 DEF ChatInv
<1> QED
  BY <1>1, <1>2, <1>3, <1>4, <1>5, <1>6, <1>7, <1>8, <1>9, <1>10, <1>11 DEF ChatMessagesNext

-----------------------------------------------------------------------------
\* Channels and their members.
\* Rows and calls without the bounds of the model.
ChannelTypes == {"group", "direct", "task_linked"}

\* Rows of members.
MemberRows ==
  [status: {"absent", "active", "left", "removed"}, role: {"owner", "member"}, lastReadSequence: Nat]

\* What a call may hold.
MemberCallStates ==
  [pc: {"channel", "find", "save", "leave", "read"}, channel: Nat, type: ChannelTypes,
   todo: Seq(ChatPositions), creates: BOOLEAN, copy: MemberRows, read: Nat] \cup {MemberIdle}

\* The types the proof needs.
ChannelTypesHold ==
  /\ channel \in Seq(Channel) /\ Len(channel) <= MaxChannels
  /\ member \in [(1..MaxChannels) \X ChatPositions -> MemberRows]
  /\ memberCall \in [MemberCalls -> MemberCallStates]
  /\ taskClosed \in BOOLEAN

\* The positions that have a row in a channel, and those a call has still to add.
HasRow(n) == {p \in ChatPositions : member[n, p].status # "absent"}

\* Those whom a call has still to add.
ToCome(c) == {memberCall[c].todo[i] : i \in DOMAIN memberCall[c].todo}

\* The call adds to the channel.
Adds(c, n) == memberCall[c].pc \in {"find", "save"} /\ memberCall[c].channel = n

\* What a call holds: the channel is there, and a channel that is being made will
\* have its members when the call is done.
MemberCallIsRight(c) ==
  LET call == memberCall[c]
  IN  /\ call.pc = "channel" =>
           /\ call.creates /\ call.channel = 0 /\ call.todo # <<>>
           /\ HasMembers(call.type, ToCome(c))
           /\ \E p, q \in ChatPositions : ToCome(c) \subseteq {p, q}
      /\ call.pc \in {"find", "save"} =>
           /\ call.channel \in DOMAIN channel /\ call.todo # <<>>
           /\ call.creates => HasMembers(channel[call.channel].type, HasRow(call.channel) \cup ToCome(c))
      /\ call.pc \in {"leave", "read"} =>
           /\ call.channel \in DOMAIN channel /\ call.todo # <<>> /\ ~call.creates
           /\ Head(call.todo) \in HasRow(call.channel) /\ call.copy.status # "absent"
      /\ call.pc = "read" => call.copy.lastReadSequence <= call.read
      /\ call.pc = "save" => (call.copy.status = "absent" => call.copy.lastReadSequence = 0)

\* A direct channel has rows for two positions, and nobody adds a third.
IsOfTwo(n) ==
  \E p, q \in ChatPositions :
    /\ HasRow(n) \subseteq {p, q}
    /\ \A c \in MemberCalls : Adds(c, n) => ToCome(c) \subseteq {p, q}

\* Rows are of channels that are there; one that is not there says nothing.
RowsAreOfChannels ==
  \A k \in (1..MaxChannels) \X ChatPositions :
    /\ member[k].status # "absent" => k[1] \in DOMAIN channel
    /\ member[k].status = "absent" => member[k].lastReadSequence = 0

\* The inductive invariant.
ChannelsInv ==
  /\ ChannelTypesHold /\ RowsAreOfChannels
  /\ \A c \in MemberCalls : MemberCallIsRight(c)
  /\ \A n \in DOMAIN channel : channel[n].type = "direct" => IsOfTwo(n)
  /\ CreatedWithMembers /\ FinishedTaskIsReadOnly

\* It implies the properties.
LEMMA ChannelsInvIsEnough == ChannelsInv => DirectMeansTwo /\ CreatedWithMembers /\ FinishedTaskIsReadOnly
<1> SUFFICES ASSUME ChannelsInv PROVE DirectMeansTwo
  BY DEF ChannelsInv
<1> SUFFICES ASSUME NEW n \in DOMAIN channel, channel[n].type = "direct",
                    NEW p \in ChatPositions, NEW q \in ChatPositions, NEW r \in ChatPositions,
                    \A x \in {p, q, r} : member[n, x].status # "absent"
             PROVE  p = q \/ q = r \/ p = r
  BY DEF DirectMeansTwo
<1>1. IsOfTwo(n)
  BY DEF ChannelsInv
<1>2. PICK a \in ChatPositions, b \in ChatPositions : HasRow(n) \subseteq {a, b}
  BY <1>1 DEF IsOfTwo
<1>3. p \in HasRow(n) /\ q \in HasRow(n) /\ r \in HasRow(n)
  BY DEF HasRow
<1> QED BY <1>2, <1>3

\* It holds at the start.
LEMMA ChannelsInitInv == ChatChannelsInit => ChannelsInv
<1> SUFFICES ASSUME ChatChannelsInit PROVE ChannelsInv
  OBVIOUS
<1>1. channel = <<>> /\ DOMAIN channel = {} /\ Len(channel) = 0
  BY DEF ChatChannelsInit
<1>2. NoMember \in MemberRows /\ NoMember.status = "absent" /\ NoMember.lastReadSequence = 0
  BY DEF NoMember, MemberRows
<1>3. ChannelTypesHold
  <2>1. channel \in Seq(Channel) /\ taskClosed \in BOOLEAN
    <3>1. channel = <<>> /\ taskClosed = FALSE
      BY DEF ChatChannelsInit
    <3>2. <<>> \in Seq(Channel)
      OBVIOUS
    <3>3. FALSE \in BOOLEAN
      OBVIOUS
    <3> QED BY <3>1, <3>2, <3>3
  <2>4. Len(channel) <= MaxChannels
    BY <1>1, ChatChannelsAssumption
  <2>2. member \in [(1..MaxChannels) \X ChatPositions -> MemberRows]
    BY <1>2 DEF ChatChannelsInit
  <2>3. memberCall \in [MemberCalls -> MemberCallStates]
    BY DEF ChatChannelsInit, MemberCallStates
  <2> QED BY <2>1, <2>2, <2>3, <2>4 DEF ChannelTypesHold
<1>4. RowsAreOfChannels
  BY <1>2 DEF ChatChannelsInit, RowsAreOfChannels
<1>5. \A c \in MemberCalls : MemberCallIsRight(c)
  BY DEF ChatChannelsInit, MemberCallIsRight, MemberIdle
<1> QED BY <1>1, <1>3, <1>4, <1>5 DEF ChatChannelsInit, ChannelsInv, CreatedWithMembers, FinishedTaskIsReadOnly

-----------------------------------------------------------------------------
\* One call goes on.
LEMMA OneMemberCallMoves ==
  ASSUME ChannelTypesHold, NEW c \in MemberCalls, NEW call \in MemberCallStates, memberCall' = [memberCall EXCEPT ![c] = call]
  PROVE  /\ memberCall' \in [MemberCalls -> MemberCallStates] /\ memberCall'[c] = call
         /\ \A d \in MemberCalls : d # c => memberCall'[d] = memberCall[d]
BY DEF ChannelTypesHold

\* More positions keep a channel's members complete.
LEMMA MoreMembers ==
  ASSUME NEW type, NEW S, NEW T, S \subseteq T, HasMembers(type, S)
  PROVE  HasMembers(type, T)
BY DEF HasMembers

\* Channels and rows stay.
RowsStay ==
  /\ DOMAIN channel \subseteq DOMAIN channel'
  /\ \A n \in DOMAIN channel : channel'[n].type = channel[n].type /\ HasRow(n) \subseteq HasRow(n)'

\* The other calls hold what they held.
LEMMA MemberCallKeeps ==
  ASSUME NEW c \in MemberCalls, MemberCallIsRight(c), memberCall'[c] = memberCall[c], RowsStay
  PROVE  MemberCallIsRight(c)'
<1>1. ToCome(c)' = ToCome(c)
  BY DEF ToCome
<1> DEFINE call == memberCall[c]
<1>2. ASSUME call.pc \in {"find", "save"}, call.creates
      PROVE  HasMembers(channel'[call.channel].type, HasRow(call.channel)' \cup ToCome(c)')
  <2>1. /\ call.channel \in DOMAIN channel
        /\ HasMembers(channel[call.channel].type, HasRow(call.channel) \cup ToCome(c))
    BY <1>2 DEF MemberCallIsRight
  <2> QED BY <1>1, <2>1, MoreMembers DEF RowsStay
<1>3. call.pc = "channel" =>
        /\ call.creates /\ call.channel = 0 /\ call.todo # <<>>
        /\ HasMembers(call.type, ToCome(c)')
        /\ \E p, q \in ChatPositions : ToCome(c)' \subseteq {p, q}
  BY <1>1 DEF MemberCallIsRight
<1>4. call.pc \in {"find", "save"} => call.channel \in DOMAIN channel' /\ call.todo # <<>>
  BY DEF MemberCallIsRight, RowsStay
<1>5. call.pc \in {"leave", "read"} =>
        /\ call.channel \in DOMAIN channel' /\ call.todo # <<>> /\ ~call.creates
        /\ Head(call.todo) \in HasRow(call.channel)' /\ call.copy.status # "absent"
  BY DEF MemberCallIsRight, RowsStay
<1>6. /\ call.pc = "read" => call.copy.lastReadSequence <= call.read
      /\ call.pc = "save" => (call.copy.status = "absent" => call.copy.lastReadSequence = 0)
  BY DEF MemberCallIsRight
<1> QED BY <1>2, <1>3, <1>4, <1>5, <1>6 DEF MemberCallIsRight

\* What a step of one call may do to a channel: it adds rows of those the call had to
\* add, and a call that ends leaves the channel complete or unfinished.
ChannelIsServed(c, n) ==
  /\ channel[n].type = "direct" =>
       /\ Adds(c, n)' => Adds(c, n) /\ ToCome(c)' \subseteq ToCome(c)
       /\ HasRow(n)' \subseteq HasRow(n) \/ (Adds(c, n) /\ HasRow(n)' \subseteq HasRow(n) \cup ToCome(c))
  /\ memberCall[c] # MemberIdle /\ memberCall[c].creates /\ memberCall[c].channel = n =>
       \/ memberCall'[c] # MemberIdle /\ memberCall'[c].creates /\ memberCall'[c].channel = n
       \/ n \in unfinished' \/ HasMembers(channel[n].type, HasRow(n)')

\* A step of one call that adds a row.
LEMMA OneMemberStep ==
  ASSUME ChannelsInv, NEW c \in MemberCalls, NEW call \in MemberCallStates, memberCall' = [memberCall EXCEPT ![c] = call],
         UNCHANGED <<channel, taskClosed>>, member' \in [(1..MaxChannels) \X ChatPositions -> MemberRows],
         RowsStay, RowsAreOfChannels', unfinished \subseteq unfinished',
         memberCall'[c] = call => MemberCallIsRight(c)',
         memberCall'[c] = call => \A n \in DOMAIN channel : ChannelIsServed(c, n)
  PROVE  ChannelsInv'
<1>1. ChannelTypesHold /\ (\A d \in MemberCalls : MemberCallIsRight(d)) /\ CreatedWithMembers /\ FinishedTaskIsReadOnly
  BY DEF ChannelsInv
<1>2. /\ memberCall' \in [MemberCalls -> MemberCallStates] /\ memberCall'[c] = call
      /\ \A d \in MemberCalls : d # c => memberCall'[d] = memberCall[d]
  BY <1>1, OneMemberCallMoves
<1>3. ChannelTypesHold'
  BY <1>1, <1>2 DEF ChannelTypesHold
<1>4. \A d \in MemberCalls : MemberCallIsRight(d)'
  BY <1>1, <1>2, MemberCallKeeps
<1>5. FinishedTaskIsReadOnly'
  BY <1>1 DEF FinishedTaskIsReadOnly
<1>6. ASSUME NEW n \in DOMAIN channel', channel'[n].type = "direct" PROVE IsOfTwo(n)'
  <2>1. IsOfTwo(n) /\ channel[n].type = "direct" /\ n \in DOMAIN channel
    BY <1>6 DEF ChannelsInv
  <2>2. PICK p \in ChatPositions, q \in ChatPositions :
          /\ HasRow(n) \subseteq {p, q}
          /\ \A d \in MemberCalls : Adds(d, n) => ToCome(d) \subseteq {p, q}
    BY <2>1 DEF IsOfTwo
  <2>3. /\ Adds(c, n)' => Adds(c, n) /\ ToCome(c)' \subseteq ToCome(c)
        /\ HasRow(n)' \subseteq HasRow(n) \/ (Adds(c, n) /\ HasRow(n)' \subseteq HasRow(n) \cup ToCome(c))
    BY <1>2, <2>1 DEF ChannelIsServed
  <2>4. \A d \in MemberCalls : d # c => (Adds(d, n)' <=> Adds(d, n)) /\ ToCome(d)' = ToCome(d)
    BY <1>2 DEF Adds, ToCome
  <2>5. HasRow(n)' \subseteq {p, q}
    BY <2>2, <2>3
  <2>6. \A d \in MemberCalls : Adds(d, n)' => ToCome(d)' \subseteq {p, q}
    BY <2>2, <2>3, <2>4
  <2> QED BY <2>5, <2>6 DEF IsOfTwo
<1>7. CreatedWithMembers'
  <2> SUFFICES ASSUME NEW n \in DOMAIN channel
               PROVE  \/ HasMembers(channel[n].type, HasRow(n)')
                      \/ n \in unfinished'
                      \/ \E d \in MemberCalls : memberCall'[d] # MemberIdle /\ memberCall'[d].creates /\ memberCall'[d].channel = n
    BY DEF CreatedWithMembers, HasRow, HasMembers
  <2>1. CASE HasMembers(channel[n].type, HasRow(n))
    BY <2>1, MoreMembers DEF RowsStay
  <2>2. CASE n \in unfinished
    BY <2>2
  <2>3. CASE \E d \in MemberCalls : memberCall[d] # MemberIdle /\ memberCall[d].creates /\ memberCall[d].channel = n
    <3>1. PICK d \in MemberCalls : memberCall[d] # MemberIdle /\ memberCall[d].creates /\ memberCall[d].channel = n
      BY <2>3
    <3>2. CASE d # c
      BY <1>2, <3>1, <3>2
    <3>3. CASE d = c
      BY <1>2, <3>1, <3>3 DEF ChannelIsServed
    <3> QED BY <3>2, <3>3
  <2> QED BY <1>1, <2>1, <2>2, <2>3 DEF CreatedWithMembers, HasRow
<1> QED BY <1>3, <1>4, <1>5, <1>6, <1>7 DEF ChannelsInv

\* A step that leaves the rows alone.
LEMMA RowsAlone ==
  ASSUME ChannelsInv, UNCHANGED <<channel, member>>
  PROVE  /\ RowsStay /\ RowsAreOfChannels' /\ member' \in [(1..MaxChannels) \X ChatPositions -> MemberRows]
         /\ \A n : HasRow(n)' = HasRow(n)
BY DEF ChannelsInv, ChannelTypesHold, RowsStay, RowsAreOfChannels, HasRow

\* A call starts: it makes a channel, adds a member to one that is not direct, or
\* changes a row that is there.
LEMMA MemberCallStarts ==
  ASSUME ChannelsInv, NEW c \in MemberCalls, NEW pc \in {"channel", "find", "leave", "read"}, NEW n \in Nat,
         NEW type \in ChannelTypes, NEW todo \in Seq(ChatPositions), todo # <<>>, NEW creates \in BOOLEAN,
         NEW copy \in MemberRows, NEW read \in Nat,
         MemberStart(c, pc, n, type, todo, creates, copy, read),
         LET S == {todo[i] : i \in DOMAIN todo}
         IN  \/ /\ pc = "channel" /\ creates /\ n = 0 /\ HasMembers(type, S)
                /\ \E p, q \in ChatPositions : S \subseteq {p, q}
             \/ pc = "find" /\ ~creates /\ n \in DOMAIN channel /\ channel[n].type # "direct"
             \/ /\ pc \in {"leave", "read"} /\ ~creates /\ n \in DOMAIN channel
                /\ Head(todo) \in HasRow(n) /\ copy.status # "absent"
                /\ pc = "read" => copy.lastReadSequence <= read
  PROVE  ChannelsInv'
<1> DEFINE call == [pc |-> pc, channel |-> n, type |-> type, todo |-> todo, creates |-> creates, copy |-> copy, read |-> read]
           S == {todo[i] : i \in DOMAIN todo}
<1>1. /\ memberCall[c] = MemberIdle /\ memberCall' = [memberCall EXCEPT ![c] = call]
      /\ UNCHANGED <<channel, member, taskClosed, unfinished, restored>>
  BY DEF MemberStart
<1>2. /\ call \in MemberCallStates /\ call.pc = pc /\ call.channel = n /\ call.type = type /\ call.todo = todo
      /\ call.creates = creates /\ call.copy = copy /\ call.read = read
  BY DEF MemberCallStates
<1>3. /\ RowsStay /\ RowsAreOfChannels' /\ member' \in [(1..MaxChannels) \X ChatPositions -> MemberRows]
      /\ \A k : HasRow(k)' = HasRow(k)
  BY <1>1, RowsAlone
<1> HIDE DEF call
<1>4. ASSUME memberCall'[c] = call PROVE MemberCallIsRight(c)'
  <2>1. ToCome(c)' = S
    BY <1>2, <1>4 DEF ToCome
  <2>2. CASE pc = "channel"
    <3>1. HasMembers(call.type, ToCome(c)') /\ \E p, q \in ChatPositions : ToCome(c)' \subseteq {p, q}
      BY <1>2, <2>1, <2>2
    <3> QED BY <1>2, <1>4, <2>2, <3>1 DEF MemberCallIsRight
  <2>3. CASE pc # "channel"
    BY <1>1, <1>2, <1>3, <1>4, <2>3 DEF MemberCallIsRight
  <2> QED BY <2>2, <2>3
<1>5. ASSUME memberCall'[c] = call, NEW k \in DOMAIN channel PROVE ChannelIsServed(c, k)
  <2>1. Adds(c, k)' => channel[k].type # "direct"
    BY <1>2, <1>5 DEF Adds
  <2> QED BY <1>1, <1>3, <2>1 DEF ChannelIsServed
<1> QED BY <1>1, <1>2, <1>3, <1>4, <1>5, OneMemberStep

\* The elements of a sequence are its head and those of its tail.
LEMMA HeadAndTail ==
  ASSUME NEW S, NEW q \in Seq(S), q # <<>>
  PROVE  /\ Head(q) \in S /\ Tail(q) \in Seq(S)
         /\ {q[i] : i \in DOMAIN q} = {Head(q)} \cup {Tail(q)[i] : i \in DOMAIN Tail(q)}
         /\ Tail(q) = <<>> => {q[i] : i \in DOMAIN q} = {Head(q)}
<1>1. Head(q) \in S /\ Tail(q) \in Seq(S) /\ Len(q) \in Nat /\ Len(q) > 0 /\ Len(Tail(q)) = Len(q) - 1
  OBVIOUS
<1>2. \A i \in DOMAIN Tail(q) : i + 1 \in DOMAIN q /\ Tail(q)[i] = q[i + 1]
  BY <1>1
<1>3. \A i \in DOMAIN q : i # 1 => i - 1 \in DOMAIN Tail(q) /\ Tail(q)[i - 1] = q[i]
  BY <1>1
<1>4. 1 \in DOMAIN q /\ Head(q) = q[1]
  BY <1>1
<1>5. {q[i] : i \in DOMAIN q} = {Head(q)} \cup {Tail(q)[i] : i \in DOMAIN Tail(q)}
  <2>1. ASSUME NEW i \in DOMAIN q PROVE q[i] \in {Head(q)} \cup {Tail(q)[j] : j \in DOMAIN Tail(q)}
    BY <1>3, <1>4
  <2>2. ASSUME NEW j \in DOMAIN Tail(q) PROVE Tail(q)[j] \in {q[i] : i \in DOMAIN q}
    BY <1>2
  <2>3. Head(q) \in {q[i] : i \in DOMAIN q}
    BY <1>4
  <2> QED BY <2>1, <2>2, <2>3
<1>6. Tail(q) = <<>> => {Tail(q)[i] : i \in DOMAIN Tail(q)} = {}
  OBVIOUS
<1> QED BY <1>1, <1>5, <1>6

\* The head of a call's list has its row: the call goes on with the rest.
LEMMA MemberIsServed ==
  ASSUME ChannelsInv, NEW c \in MemberCalls, memberCall[c].pc \in {"find", "save"}, NextMember(c),
         NEW n, n = memberCall[c].channel, NEW h, h = Head(memberCall[c].todo),
         UNCHANGED <<channel, taskClosed>>, member' \in [(1..MaxChannels) \X ChatPositions -> MemberRows],
         RowsStay, RowsAreOfChannels', unfinished \subseteq unfinished',
         h \in HasRow(n)', HasRow(n)' \subseteq HasRow(n) \cup {h},
         \A k \in DOMAIN channel : k # n => HasRow(k)' = HasRow(k)
  PROVE  ChannelsInv'
<1> DEFINE old == memberCall[c]
           rest == Tail(old.todo)
           next == [old EXCEPT !.pc = "find", !.todo = rest]
           call == IF rest = <<>> THEN MemberIdle ELSE next
           R == {rest[i] : i \in DOMAIN rest}
<1>1. ChannelTypesHold /\ MemberCallIsRight(c)
  BY DEF ChannelsInv
<1>2. old \in MemberCallStates \ {MemberIdle}
  BY <1>1 DEF ChannelTypesHold, MemberIdle
<1>3. /\ old.todo \in Seq(ChatPositions) /\ old.todo # <<>> /\ n \in DOMAIN channel /\ old # MemberIdle
      /\ old.creates => HasMembers(channel[n].type, HasRow(n) \cup ToCome(c))
  BY <1>1, <1>2 DEF MemberCallStates, MemberCallIsRight
<1>4. /\ h \in ChatPositions /\ rest \in Seq(ChatPositions) /\ ToCome(c) = {h} \cup R
      /\ rest = <<>> => ToCome(c) = {h}
  BY <1>3, HeadAndTail DEF ToCome
<1>5. memberCall' = [memberCall EXCEPT ![c] = call]
  BY DEF NextMember
<1>6. /\ next \in MemberCallStates /\ next.pc = "find" /\ next.todo = rest /\ next.channel = n /\ next.creates = old.creates
      /\ next # MemberIdle
  <2>1. next \in MemberCallStates /\ next.pc = "find" /\ next.todo = rest /\ next.channel = n /\ next.creates = old.creates
    BY <1>2, <1>4 DEF MemberCallStates
  <2> QED BY <2>1 DEF MemberIdle
<1>7. call \in MemberCallStates /\ (rest = <<>> => call = MemberIdle) /\ (rest # <<>> => call = next)
  BY <1>6 DEF MemberCallStates
<1>8. n \in DOMAIN channel' /\ h \in HasRow(n)' /\ HasRow(n) \subseteq HasRow(n)' /\ HasRow(n)' \subseteq HasRow(n) \cup {h}
  BY <1>3 DEF RowsStay
<1>9. (old.creates => HasMembers(channel[n].type, HasRow(n)' \cup R)) /\ (old.creates /\ rest = <<>> => HasMembers(channel[n].type, HasRow(n)'))
  <2>1. HasRow(n) \cup ToCome(c) \subseteq HasRow(n)' \cup R
    BY <1>4, <1>8
  <2>2. rest = <<>> => HasRow(n) \cup ToCome(c) \subseteq HasRow(n)'
    BY <1>4, <1>8
  <2> QED BY <1>3, <2>1, <2>2, MoreMembers
<1> HIDE DEF next, call
<1>10. ASSUME memberCall'[c] = call PROVE MemberCallIsRight(c)'
  <2>1. CASE rest = <<>>
    BY <1>7, <1>10, <2>1 DEF MemberCallIsRight, MemberIdle
  <2>2. CASE rest # <<>>
    <3>1. ToCome(c)' = R
      BY <1>6, <1>7, <1>10, <2>2 DEF ToCome
    <3>2. call.creates => HasMembers(channel'[n].type, HasRow(n)' \cup ToCome(c)')
      BY <1>6, <1>7, <1>9, <2>2, <3>1
    <3> QED BY <1>6, <1>7, <1>8, <1>10, <2>2, <3>2 DEF MemberCallIsRight
  <2> QED BY <2>1, <2>2
<1>11. ASSUME memberCall'[c] = call, NEW k \in DOMAIN channel PROVE ChannelIsServed(c, k)
  <2>1. Adds(c, k)' => k = n /\ ToCome(c)' = R
    <3>1. rest = <<>> => ~Adds(c, k)'
      BY <1>7, <1>11 DEF Adds, MemberIdle
    <3>2. rest # <<>> => ToCome(c)' = R /\ (Adds(c, k)' => k = n)
      BY <1>6, <1>7, <1>11 DEF Adds, ToCome
    <3> QED BY <3>1, <3>2
  <2>2. Adds(c, n)
    BY DEF Adds
  <2>3. HasRow(k)' \subseteq HasRow(k) \/ (Adds(c, k) /\ HasRow(k)' \subseteq HasRow(k) \cup ToCome(c))
    BY <1>4, <1>8, <2>2
  <2>4. old.creates /\ n = k =>
          \/ memberCall'[c] # MemberIdle /\ memberCall'[c].creates /\ memberCall'[c].channel = k
          \/ HasMembers(channel[k].type, HasRow(k)')
    BY <1>6, <1>7, <1>9, <1>11
  <2> QED BY <1>4, <2>1, <2>2, <2>3, <2>4 DEF ChannelIsServed
<1> QED BY <1>5, <1>7, <1>10, <1>11, OneMemberStep

\* A row that is written, not as absent.
LEMMA RowIsWritten ==
  ASSUME ChannelsInv, NEW n \in DOMAIN channel, NEW p \in ChatPositions, NEW row \in MemberRows, row.status # "absent",
         member' = [member EXCEPT ![<<n, p>>] = row], UNCHANGED channel
  PROVE  /\ member' \in [(1..MaxChannels) \X ChatPositions -> MemberRows] /\ RowsStay /\ RowsAreOfChannels'
         /\ HasRow(n)' = HasRow(n) \cup {p} /\ \A k \in DOMAIN channel : k # n => HasRow(k)' = HasRow(k)
         /\ member'[<<n, p>>] = row /\ \A k \in DOMAIN member : k # <<n, p>> => member'[k] = member[k]
         /\ <<n, p>> \in DOMAIN member
<1> USE ChatChannelsAssumption
<1>1. n \in 1..MaxChannels /\ DOMAIN channel \subseteq 1..MaxChannels
  BY DEF ChannelsInv, ChannelTypesHold
<1>2. <<n, p>> \in (1..MaxChannels) \X ChatPositions
  BY <1>1
<1>3. member \in [(1..MaxChannels) \X ChatPositions -> MemberRows] /\ RowsAreOfChannels
  BY DEF ChannelsInv, ChannelTypesHold
<1>4. /\ member' \in [(1..MaxChannels) \X ChatPositions -> MemberRows] /\ member'[<<n, p>>] = row
      /\ \A k \in DOMAIN member : k # <<n, p>> => member'[k] = member[k]
  BY <1>2, <1>3
<1>5. \A k \in DOMAIN channel, q \in ChatPositions :
        /\ <<k, q>> \in DOMAIN member
        /\ member'[k, q].status # "absent" <=> (member[k, q].status # "absent" \/ (k = n /\ q = p))
  BY <1>1, <1>3, <1>4
<1>6. HasRow(n)' = HasRow(n) \cup {p} /\ \A k \in DOMAIN channel : k # n => HasRow(k)' = HasRow(k)
  BY <1>5 DEF HasRow
<1>7. RowsAreOfChannels'
  <2> SUFFICES ASSUME NEW k \in (1..MaxChannels) \X ChatPositions
               PROVE  /\ member'[k].status # "absent" => k[1] \in DOMAIN channel
                      /\ member'[k].status = "absent" => member'[k].lastReadSequence = 0
    BY DEF RowsAreOfChannels
  <2>1. CASE k = <<n, p>>
    BY <1>4, <2>1
  <2>2. CASE k # <<n, p>>
    BY <1>3, <1>4, <2>2 DEF RowsAreOfChannels
  <2> QED BY <2>1, <2>2
<1> QED BY <1>2, <1>3, <1>4, <1>6, <1>7 DEF RowsStay

\* The call looks for the row,
LEMMA FindKeeps ==
  ASSUME ChannelsInv, NEW c \in MemberCalls, FindMember(c)
  PROVE  ChannelsInv'
<1> DEFINE old == memberCall[c]
<1>1. ChannelTypesHold /\ MemberCallIsRight(c) /\ RowsAreOfChannels
  BY DEF ChannelsInv
<1>2. old.pc = "find" /\ UNCHANGED <<channel, member, taskClosed, memberCalls, unfinished, restored>>
  BY DEF FindMember, MemberAt
<1>3. old \in MemberCallStates \ {MemberIdle}
  BY <1>1, <1>2 DEF ChannelTypesHold, MemberIdle
<1>4. /\ old.todo \in Seq(ChatPositions) /\ old.todo # <<>> /\ old.channel \in DOMAIN channel
      /\ old.creates => HasMembers(channel[old.channel].type, HasRow(old.channel) \cup ToCome(c))
  BY <1>1, <1>2, <1>3 DEF MemberCallStates, MemberCallIsRight
<1> DEFINE n == old.channel
           h == Head(old.todo)
<1>5. h \in ChatPositions
  BY <1>4, HeadAndTail
<1>6. /\ RowsStay /\ RowsAreOfChannels' /\ member' \in [(1..MaxChannels) \X ChatPositions -> MemberRows]
      /\ \A k : HasRow(k)' = HasRow(k)
  BY <1>2, RowsAlone
<1>7. CASE member[<<n, h>>].status = "active" /\ NextMember(c)
  <2>1. h \in HasRow(n)
    BY <1>5, <1>7 DEF HasRow
  <2>2. PICK m, g : m = n /\ g = h
    OBVIOUS
  <2>3. g \in HasRow(m)' /\ HasRow(m)' \subseteq HasRow(m) \cup {g}
    BY <1>6, <2>1, <2>2
  <2> QED BY <1>2, <1>6, <1>7, <2>2, <2>3, MemberIsServed
<1>8. CASE memberCall' = [memberCall EXCEPT ![c].pc = "save", ![c].copy = member[<<n, h>>]]
  <2> DEFINE call == [old EXCEPT !.pc = "save", !.copy = member[<<n, h>>]]
  <2>1. <<n, h>> \in (1..MaxChannels) \X ChatPositions
    BY <1>1, <1>4, <1>5, ChatChannelsAssumption DEF ChannelTypesHold
  <2>2. member[<<n, h>>] \in MemberRows /\ (member[<<n, h>>].status = "absent" => member[<<n, h>>].lastReadSequence = 0)
    BY <1>1, <2>1 DEF ChannelTypesHold, RowsAreOfChannels
  <2>3. /\ call \in MemberCallStates /\ call.pc = "save" /\ call.channel = n /\ call.todo = old.todo /\ call.creates = old.creates
        /\ call.copy = member[<<n, h>>]
    BY <1>3, <2>2 DEF MemberCallStates
  <2>4. memberCall' = [memberCall EXCEPT ![c] = call]
    BY <1>8
  <2>5. call # MemberIdle
    BY <2>3 DEF MemberIdle
  <2> HIDE DEF call
  <2>6. ASSUME memberCall'[c] = call PROVE MemberCallIsRight(c)' /\ ToCome(c)' = ToCome(c)
    <3>1. ToCome(c)' = ToCome(c)
      BY <2>3, <2>6 DEF ToCome
    <3> QED BY <1>2, <1>4, <1>6, <2>2, <2>3, <2>6, <3>1 DEF MemberCallIsRight
  <2>7. ASSUME memberCall'[c] = call, NEW k \in DOMAIN channel PROVE ChannelIsServed(c, k)
    <3>1. Adds(c, k)' <=> Adds(c, k)
      BY <1>2, <2>3, <2>7 DEF Adds
    <3> QED BY <1>6, <2>3, <2>5, <2>6, <2>7, <3>1 DEF ChannelIsServed
  <2> QED BY <1>2, <1>6, <2>3, <2>4, <2>6, <2>7, OneMemberStep
<1> QED BY <1>7, <1>8 DEF FindMember

\* inserts it,
LEMMA InsertKeeps ==
  ASSUME ChannelsInv, NEW c \in MemberCalls, InsertMember(c)
  PROVE  ChannelsInv'
<1> DEFINE old == memberCall[c]
<1>1. ChannelTypesHold /\ MemberCallIsRight(c)
  BY DEF ChannelsInv
<1>2. old.pc = "save" /\ UNCHANGED <<channel, taskClosed, unfinished>> /\ NextMember(c)
  BY DEF InsertMember, MemberAt
<1>3. old \in MemberCallStates \ {MemberIdle}
  BY <1>1, <1>2 DEF ChannelTypesHold, MemberIdle
<1>4. old.todo \in Seq(ChatPositions) /\ old.todo # <<>> /\ old.channel \in DOMAIN channel /\ old.copy \in MemberRows
  BY <1>1, <1>2, <1>3 DEF MemberCallStates, MemberCallIsRight
<1>5. PICK m \in DOMAIN channel, g \in ChatPositions : m = old.channel /\ g = Head(old.todo)
  BY <1>4, HeadAndTail
<1>6. PICK row \in MemberRows : row.status = "active" /\ member' = [member EXCEPT ![<<m, g>>] = row]
  <2> DEFINE row == IF old.copy.status = "absent"
                      THEN [status |-> "active", role |-> RoleOf(old), lastReadSequence |-> 0]
                      ELSE [old.copy EXCEPT !.status = "active"]
  <2>1. row \in MemberRows /\ row.status = "active"
    BY <1>4 DEF MemberRows, RoleOf
  <2>2. member' = [member EXCEPT ![<<m, g>>] = row]
    BY <1>5 DEF InsertMember
  <2> QED BY <2>1, <2>2
<1>7. /\ member' \in [(1..MaxChannels) \X ChatPositions -> MemberRows] /\ RowsStay /\ RowsAreOfChannels'
      /\ HasRow(m)' = HasRow(m) \cup {g} /\ \A k \in DOMAIN channel : k # m => HasRow(k)' = HasRow(k)
  BY <1>2, <1>6, RowIsWritten
<1> QED BY <1>2, <1>5, <1>7, MemberIsServed

\* or saves it,
LEMMA SaveKeeps ==
  ASSUME ChannelsInv, NEW c \in MemberCalls, SaveMember(c)
  PROVE  ChannelsInv'
<1> DEFINE old == memberCall[c]
<1>1. ChannelTypesHold /\ MemberCallIsRight(c)
  BY DEF ChannelsInv
<1>2. old.pc \in {"leave", "read"} /\ UNCHANGED <<channel, taskClosed, unfinished>> /\ memberCall' = [memberCall EXCEPT ![c] = MemberIdle]
  BY DEF SaveMember, MemberEnd
<1>3. old \in MemberCallStates \ {MemberIdle}
  BY <1>1, <1>2 DEF ChannelTypesHold, MemberIdle
<1>4. /\ old.todo \in Seq(ChatPositions) /\ old.todo # <<>> /\ old.channel \in DOMAIN channel /\ old.copy \in MemberRows
      /\ old.read \in Nat /\ ~old.creates /\ Head(old.todo) \in HasRow(old.channel) /\ old.copy.status # "absent"
  BY <1>1, <1>2, <1>3 DEF MemberCallStates, MemberCallIsRight
<1>5. PICK m \in DOMAIN channel, g \in ChatPositions : m = old.channel /\ g = Head(old.todo)
  BY <1>4, HeadAndTail
<1>6. PICK row \in MemberRows : row.status # "absent" /\ member' = [member EXCEPT ![<<m, g>>] = row]
  <2> DEFINE row == IF old.pc = "read" THEN [old.copy EXCEPT !.lastReadSequence = old.read] ELSE old.copy
  <2>1. row \in MemberRows /\ row.status # "absent"
    BY <1>4 DEF MemberRows
  <2>2. member' = [member EXCEPT ![<<m, g>>] = row]
    BY <1>5 DEF SaveMember
  <2> QED BY <2>1, <2>2
<1>7. /\ member' \in [(1..MaxChannels) \X ChatPositions -> MemberRows] /\ RowsStay /\ RowsAreOfChannels'
      /\ HasRow(m)' = HasRow(m) \cup {g} /\ \A k \in DOMAIN channel : k # m => HasRow(k)' = HasRow(k)
  BY <1>2, <1>6, RowIsWritten
<1>8. MemberIdle \in MemberCallStates /\ MemberIdle.pc = "idle"
  BY DEF MemberCallStates, MemberIdle
<1>9. ASSUME memberCall'[c] = MemberIdle PROVE MemberCallIsRight(c)'
  BY <1>8, <1>9 DEF MemberCallIsRight
<1>10. ASSUME memberCall'[c] = MemberIdle, NEW k \in DOMAIN channel PROVE ChannelIsServed(c, k)
  <2>1. ~Adds(c, k)'
    BY <1>8, <1>10 DEF Adds
  <2>2. HasRow(k)' \subseteq HasRow(k)
    BY <1>4, <1>5, <1>7
  <2> QED BY <1>4, <2>1, <2>2 DEF ChannelIsServed
<1> QED BY <1>2, <1>7, <1>8, <1>9, <1>10, OneMemberStep

\* or stops.
LEMMA AbortKeeps ==
  ASSUME ChannelsInv, NEW c \in MemberCalls, AbortMemberCall(c)
  PROVE  ChannelsInv'
<1> DEFINE old == memberCall[c]
<1>1. MemberCallIsRight(c) /\ ChannelTypesHold
  BY DEF ChannelsInv
<1>2. /\ memberCall' = [memberCall EXCEPT ![c] = MemberIdle] /\ UNCHANGED <<channel, member, taskClosed>>
      /\ unfinished' = (IF old.creates /\ old.channel # 0 THEN unfinished \cup {old.channel} ELSE unfinished)
  BY DEF AbortMemberCall, MemberEnd
<1>3. MemberIdle \in MemberCallStates /\ MemberIdle.pc = "idle"
  BY DEF MemberCallStates, MemberIdle
<1>4. ASSUME memberCall'[c] = MemberIdle PROVE MemberCallIsRight(c)'
  BY <1>3, <1>4 DEF MemberCallIsRight
<1>5. /\ RowsStay /\ RowsAreOfChannels' /\ member' \in [(1..MaxChannels) \X ChatPositions -> MemberRows]
      /\ \A n : HasRow(n)' = HasRow(n)
  BY <1>2, RowsAlone
<1>6. ASSUME memberCall'[c] = MemberIdle, NEW k \in DOMAIN channel PROVE ChannelIsServed(c, k)
  <2>1. ~Adds(c, k)' /\ k # 0
    BY <1>1, <1>3, <1>6 DEF Adds, ChannelTypesHold
  <2> QED BY <1>2, <1>5, <2>1 DEF ChannelIsServed
<1> QED BY <1>2, <1>3, <1>4, <1>5, <1>6, OneMemberStep

\* A task is finished.
LEMMA CloseKeeps == ChannelsInv /\ OnTaskStatusChanged => ChannelsInv'
<1> SUFFICES ASSUME ChannelsInv, OnTaskStatusChanged PROVE ChannelsInv'
  OBVIOUS
<1>1. /\ ChannelTypesHold /\ RowsAreOfChannels /\ CreatedWithMembers
      /\ \A c \in MemberCalls : MemberCallIsRight(c)
  BY DEF ChannelsInv
<1>2. /\ taskClosed' = TRUE /\ UNCHANGED <<member, memberCall, unfinished>>
      /\ channel' = [n \in DOMAIN channel |->
           IF channel[n].type = "task_linked" THEN [channel[n] EXCEPT !.status = "read_only"] ELSE channel[n]]
  BY DEF OnTaskStatusChanged, SetChannelReadOnly
<1>3. /\ channel' \in Seq(Channel) /\ DOMAIN channel' = DOMAIN channel /\ Len(channel') = Len(channel)
      /\ \A n \in DOMAIN channel : channel'[n].type = channel[n].type /\ (channel[n].type = "task_linked" => channel'[n].status = "read_only")
  <2>1. channel \in Seq(Channel)
    BY <1>1 DEF ChannelTypesHold
  <2>2. \A n \in DOMAIN channel : channel[n] \in Channel
    BY <2>1
  <2>3. \A n \in DOMAIN channel : [channel[n] EXCEPT !.status = "read_only"] \in Channel
    BY <2>2 DEF Channel
  <2>4. \A n \in DOMAIN channel : channel'[n] \in Channel
    BY <1>2, <2>2, <2>3
  <2>5. DOMAIN channel' = 1..Len(channel) /\ Len(channel) \in Nat
    BY <1>2, <2>1
  <2>6. channel' \in Seq(Channel) /\ Len(channel') = Len(channel)
    <3>1. channel' \in [1..Len(channel) -> Channel]
      BY <1>2, <2>1, <2>4
    <3> QED BY <2>5, <3>1
  <2>7. \A n \in DOMAIN channel : channel'[n].type = channel[n].type /\ (channel[n].type = "task_linked" => channel'[n].status = "read_only")
    BY <1>2, <2>2 DEF Channel
  <2> QED BY <1>2, <2>6, <2>7
<1>4. RowsStay /\ RowsAreOfChannels' /\ \A n : HasRow(n)' = HasRow(n)
  BY <1>1, <1>2, <1>3 DEF RowsStay, RowsAreOfChannels, HasRow
<1>5. \A c \in MemberCalls : MemberCallIsRight(c)'
  BY <1>1, <1>2, <1>4, MemberCallKeeps
<1>6. FinishedTaskIsReadOnly'
  BY <1>3 DEF FinishedTaskIsReadOnly
<1>7. ASSUME NEW n \in DOMAIN channel', channel'[n].type = "direct" PROVE IsOfTwo(n)'
  <2>1. IsOfTwo(n)
    BY <1>3, <1>7 DEF ChannelsInv
  <2>2. \A c \in MemberCalls : (Adds(c, n)' <=> Adds(c, n)) /\ ToCome(c)' = ToCome(c)
    BY <1>2 DEF Adds, ToCome
  <2> QED BY <1>4, <2>1, <2>2 DEF IsOfTwo
<1>8. CreatedWithMembers'
  <2>1. \A n \in DOMAIN channel : HasMembers(channel[n].type, {p \in ChatPositions : member[n, p].status # "absent"})
                                => HasMembers(channel'[n].type, {p \in ChatPositions : member'[n, p].status # "absent"})
    BY <1>2, <1>3
  <2> QED BY <1>1, <1>2, <1>3, <2>1 DEF CreatedWithMembers
<1> QED BY <1>1, <1>2, <1>3, <1>4, <1>5, <1>6, <1>7, <1>8 DEF ChannelsInv, ChannelTypesHold

\* A channel is created.
LEMMA SaveChannelKeeps ==
  ASSUME ChannelsInv, NEW c \in MemberCalls, SaveChannel(c)
  PROVE  ChannelsInv'
<1> USE ChatChannelsAssumption
<1>p. PICK new \in Nat : new = Len(channel) + 1
  BY DEF ChannelsInv, ChannelTypesHold
<1> DEFINE old == memberCall[c]
           row == [type |-> old.type, status |-> "active", late |-> taskClosed]
           call == [old EXCEPT !.pc = "find", !.channel = new]
<1>1. /\ ChannelTypesHold /\ RowsAreOfChannels /\ CreatedWithMembers /\ FinishedTaskIsReadOnly
      /\ \A d \in MemberCalls : MemberCallIsRight(d)
  BY DEF ChannelsInv
<1>2. /\ old.pc = "channel" /\ Len(channel) < MaxChannels /\ channel' = Append(channel, row)
      /\ memberCall' = [memberCall EXCEPT ![c] = call]
      /\ UNCHANGED <<member, taskClosed, memberCalls, unfinished, restored>>
  BY <1>p DEF SaveChannel, MemberAt
<1>3. old \in MemberCallStates \ {MemberIdle}
  BY <1>1, <1>2 DEF ChannelTypesHold, MemberIdle
<1>4. /\ old.creates /\ old.todo # <<>> /\ HasMembers(old.type, ToCome(c)) /\ old.type \in ChannelTypes
      /\ \E p, q \in ChatPositions : ToCome(c) \subseteq {p, q}
  BY <1>1, <1>2, <1>3 DEF MemberCallIsRight, MemberCallStates
<1>5. new \in Nat /\ channel \in Seq(Channel) /\ Len(channel) \in Nat /\ Len(channel') <= MaxChannels
  BY <1>1, <1>2 DEF ChannelTypesHold
<1>x. new \in 1..MaxChannels
  <2>1. Len(channel) < MaxChannels /\ Len(channel) \in Nat
    BY <1>2, <1>5
  <2> QED BY <1>p, <2>1
<1>6. /\ call \in MemberCallStates /\ call.pc = "find" /\ call.channel = new /\ call.todo = old.todo /\ call.creates = old.creates
  BY <1>3, <1>5 DEF MemberCallStates
<1>7. call # MemberIdle
  BY <1>6 DEF MemberIdle
<1>8. row.type = old.type /\ row.late = taskClosed
  OBVIOUS
<1> HIDE DEF call, row
<1>9. /\ DOMAIN channel' = DOMAIN channel \cup {new} /\ channel'[new] = row /\ new \notin DOMAIN channel
      /\ \A n \in DOMAIN channel : channel'[n] = channel[n]
  BY <1>p, <1>2, <1>5
<1>10. /\ memberCall' \in [MemberCalls -> MemberCallStates] /\ memberCall'[c] = call
       /\ \A d \in MemberCalls : d # c => memberCall'[d] = memberCall[d]
  BY <1>1, <1>2, <1>6, OneMemberCallMoves
<1>11. /\ RowsStay /\ RowsAreOfChannels' /\ \A n : HasRow(n)' = HasRow(n)
  BY <1>1, <1>2, <1>9 DEF RowsStay, RowsAreOfChannels, HasRow
<1>12. ToCome(c)' = ToCome(c)
  BY <1>6, <1>10 DEF ToCome
<1>13. ASSUME NEW d \in MemberCalls PROVE MemberCallIsRight(d)'
  <2>1. CASE d = c
    <3>1. HasMembers(channel'[new].type, HasRow(new)' \cup ToCome(c)')
      BY <1>4, <1>8, <1>9, <1>12, MoreMembers
    <3>2. /\ memberCall'[c].pc = "find" /\ memberCall'[c].channel = new /\ memberCall'[c].todo # <<>>
          /\ new \in DOMAIN channel'
      BY <1>4, <1>6, <1>9, <1>10
    <3>3. HasMembers(channel'[memberCall'[c].channel].type, HasRow(memberCall[c].channel)' \cup ToCome(c)')
      BY <3>1, <3>2 DEF HasRow
    <3> QED BY <2>1, <3>2, <3>3 DEF MemberCallIsRight
  <2>2. CASE d # c
    BY <1>1, <1>10, <1>11, <2>2, MemberCallKeeps
  <2> QED BY <2>1, <2>2
<1>14. FinishedTaskIsReadOnly'
  BY <1>1, <1>2, <1>8, <1>9 DEF FinishedTaskIsReadOnly
<1>15. ASSUME NEW n \in DOMAIN channel', channel'[n].type = "direct" PROVE IsOfTwo(n)'
  <2>1. \A d \in MemberCalls : d # c => (Adds(d, n)' <=> Adds(d, n)) /\ ToCome(d)' = ToCome(d)
    BY <1>10 DEF Adds, ToCome
  <2>2. CASE n \in DOMAIN channel
    <3>1. IsOfTwo(n) /\ ~Adds(c, n)'
      BY <1>6, <1>9, <1>10, <1>15, <2>2 DEF ChannelsInv, Adds
    <3> QED BY <1>11, <2>1, <3>1 DEF IsOfTwo
  <2>3. CASE n = new
    <3>1. HasRow(new) = {}
      <4> SUFFICES ASSUME NEW p \in ChatPositions, member[new, p].status # "absent" PROVE FALSE
        BY DEF HasRow
      <4>1. <<new, p>> \in (1..MaxChannels) \X ChatPositions
        BY <1>x
      <4>2. <<new, p>>[1] \in DOMAIN channel
        BY <1>1, <4>1 DEF RowsAreOfChannels
      <4> QED BY <1>9, <4>2
    <3>2. \A d \in MemberCalls : ~Adds(d, new)
      BY <1>1, <1>9 DEF Adds, MemberCallIsRight
    <3> QED BY <1>4, <1>11, <1>12, <2>1, <2>3, <3>1, <3>2 DEF IsOfTwo
  <2> QED BY <1>9, <2>2, <2>3
<1>16. CreatedWithMembers'
  <2> SUFFICES ASSUME NEW n \in DOMAIN channel'
               PROVE  \/ HasMembers(channel'[n].type, {p \in ChatPositions : member[n, p].status # "absent"})
                      \/ n \in unfinished
                      \/ \E d \in MemberCalls : memberCall'[d] # MemberIdle /\ memberCall'[d].creates /\ memberCall'[d].channel = n
    BY <1>2 DEF CreatedWithMembers
  <2>1. CASE n = new
    BY <1>4, <1>6, <1>7, <1>10, <2>1
  <2>2. CASE n \in DOMAIN channel
    <3>1. CASE \E d \in MemberCalls : memberCall[d] # MemberIdle /\ memberCall[d].creates /\ memberCall[d].channel = n
      <4>1. PICK d \in MemberCalls : memberCall[d] # MemberIdle /\ memberCall[d].creates /\ memberCall[d].channel = n
        BY <3>1
      <4>2. d # c
        <5>1. old.channel = 0 /\ n # 0
          <6>1. old.channel = 0
            BY <1>1, <1>2 DEF MemberCallIsRight
          <6>2. n \in 1..Len(channel)
            BY <1>5, <2>2
          <6> QED BY <6>1, <6>2
        <5> QED BY <4>1, <5>1
      <4> QED BY <1>10, <4>1, <4>2
    <3> QED BY <1>1, <1>9, <2>2, <3>1 DEF CreatedWithMembers
  <2> QED BY <1>9, <2>1, <2>2
<1>17. ChannelTypesHold'
  <2>1. row \in Channel
    BY <1>1, <1>4 DEF row, Channel, ChannelTypes, ChannelTypesHold
  <2>2. channel' \in Seq(Channel)
    BY <1>2, <1>5, <2>1
  <2> QED BY <1>1, <1>2, <1>5, <1>10, <2>2 DEF ChannelTypesHold
<1> QED BY <1>11, <1>13, <1>14, <1>15, <1>16, <1>17 DEF ChannelsInv

\* Every step of the specification keeps the inductive invariant.
LEMMA ChannelsNextInv == ChannelsInv /\ [ChatChannelsNext]_channelVars => ChannelsInv'
<1> SUFFICES ASSUME ChannelsInv, [ChatChannelsNext]_channelVars PROVE ChannelsInv'
  OBVIOUS
<1> USE ChatChannelsAssumption
<1>0. ChannelTypesHold /\ RowsAreOfChannels
  BY DEF ChannelsInv
<1>n. NoMember \in MemberRows
  BY DEF NoMember, MemberRows
<1>r. /\ DOMAIN channel \subseteq 1..MaxChannels
      /\ \A n \in DOMAIN channel : n \in Nat /\ channel[n].type \in ChannelTypes
      /\ \A n \in DOMAIN channel, p \in ChatPositions :
           member[n, p] \in MemberRows /\ (IsActive(n, p) => member[n, p].status = "active" /\ p \in HasRow(n))
  <2>1. DOMAIN channel \subseteq 1..MaxChannels /\ \A n \in DOMAIN channel : n \in Nat /\ channel[n] \in Channel
    BY <1>0 DEF ChannelTypesHold
  <2>2. \A n \in DOMAIN channel, p \in ChatPositions : <<n, p>> \in (1..MaxChannels) \X ChatPositions
    BY <2>1
  <2>3. \A n \in DOMAIN channel, p \in ChatPositions : member[n, p] \in MemberRows
    BY <1>0, <2>2 DEF ChannelTypesHold
  <2> QED BY <2>1, <2>3 DEF Channel, ChannelTypes, IsActive, HasRow
<1>1. ASSUME NEW c \in MemberCalls, NEW q \in ChatPositions,
             CreateChannel(c, Assigning, q) \/ GetOrCreateDmChannel(c, Assigning, q)
      PROVE  ChannelsInv'
  <2> DEFINE todo == <<Assigning, q>>
  <2>1. /\ todo \in Seq(ChatPositions) /\ todo # <<>> /\ {todo[i] : i \in DOMAIN todo} = {Assigning, q} /\ Assigning # q
    <3>1. Assigning # q
      BY <1>1 DEF CreateChannel, GetOrCreateDmChannel
    <3>2. todo \in Seq(ChatPositions) /\ todo # <<>> /\ DOMAIN todo = {1, 2} /\ todo[1] = Assigning /\ todo[2] = q
      OBVIOUS
    <3> QED BY <3>1, <3>2
  <2>2. \A type \in {"group", "direct"} : HasMembers(type, {Assigning, q})
    BY <2>1 DEF HasMembers
  <2>3. PICK type \in {"group", "direct"} : MemberStart(c, "channel", 0, type, todo, TRUE, NoMember, 0)
    <3>1. CreateChannel(c, Assigning, q) => MemberStart(c, "channel", 0, "group", todo, TRUE, NoMember, 0)
      BY DEF CreateChannel
    <3>2. GetOrCreateDmChannel(c, Assigning, q) => MemberStart(c, "channel", 0, "direct", todo, TRUE, NoMember, 0)
      BY DEF GetOrCreateDmChannel
    <3> QED BY <1>1, <3>1, <3>2
  <2>4. type \in ChannelTypes /\ HasMembers(type, {todo[i] : i \in DOMAIN todo})
    BY <2>1, <2>2 DEF ChannelTypes
  <2> HIDE DEF todo
  <2> QED BY <1>n, <2>1, <2>3, <2>4, MemberCallStarts
<1>2. ASSUME NEW c \in MemberCalls, CreateLinkedChannel(c) PROVE ChannelsInv'
  <2> DEFINE todo == MemberPositionIds
  <2>1. todo \in Seq(ChatPositions) /\ todo # <<>> /\ {todo[i] : i \in DOMAIN todo} = {Responsible, Assigning}
    BY DEF MemberPositionIds
  <2>2. HasMembers("task_linked", {todo[i] : i \in DOMAIN todo})
    BY <2>1 DEF HasMembers
  <2>3. MemberStart(c, "channel", 0, "task_linked", todo, TRUE, NoMember, 0) /\ "task_linked" \in ChannelTypes
    BY <1>2 DEF CreateLinkedChannel, ChannelTypes
  <2> HIDE DEF todo
  <2> QED BY <1>n, <2>1, <2>2, <2>3, MemberCallStarts
<1>3. ASSUME NEW c \in MemberCalls, NEW n \in DOMAIN channel, NEW p \in ChatPositions, NEW a \in ChatPositions,
             AddMemberToChannel(c, n, p, a)
      PROVE  ChannelsInv'
  <2>1. /\ channel[n].type # "direct" /\ channel[n].type \in ChannelTypes /\ n \in Nat
        /\ MemberStart(c, "find", n, channel[n].type, <<p>>, FALSE, NoMember, 0)
    BY <1>3, <1>r DEF AddMemberToChannel
  <2>2. <<p>> \in Seq(ChatPositions) /\ <<p>> # <<>>
    OBVIOUS
  <2>3. PICK type \in ChannelTypes, todo \in Seq(ChatPositions) : type = channel[n].type /\ todo = <<p>>
    BY <2>1, <2>2
  <2> QED BY <1>n, <2>1, <2>2, <2>3, MemberCallStarts
<1>4. ASSUME NEW c \in MemberCalls, NEW p \in ChatPositions, OnTaskExecutorAdded(c, p) PROVE ChannelsInv'
  <2>1. PICK n \in DOMAIN channel :
          channel[n].type = "task_linked" /\ MemberStart(c, "find", n, "task_linked", <<p>>, FALSE, NoMember, 0)
    BY <1>4 DEF OnTaskExecutorAdded
  <2>2. <<p>> \in Seq(ChatPositions) /\ <<p>> # <<>> /\ n \in Nat /\ "task_linked" \in ChannelTypes
    <3>1. n \in Nat
      BY <1>r
    <3> QED BY <3>1 DEF ChannelTypes
  <2>3. PICK todo \in Seq(ChatPositions) : todo = <<p>>
    BY <2>2
  <2> QED BY <1>n, <2>1, <2>2, <2>3, MemberCallStarts
<1>5. ASSUME NEW c \in MemberCalls, NEW n \in DOMAIN channel, NEW p \in ChatPositions, NEW a \in ChatPositions,
             RemoveMemberFromChannel(c, n, p, a)
      PROVE  ChannelsInv'
  <2> DEFINE row == [member[n, p] EXCEPT !.status = IF a = p THEN "left" ELSE "removed"]
  <2>1. MemberStart(c, "leave", n, channel[n].type, <<p>>, FALSE, row, 0) /\ IsActive(n, p)
    BY <1>5 DEF RemoveMemberFromChannel
  <2>2. row \in MemberRows /\ row.status # "absent"
    <3>1. member[n, p] \in MemberRows
      BY <1>r
    <3> QED BY <3>1 DEF MemberRows
  <2>3. /\ <<p>> \in Seq(ChatPositions) /\ <<p>> # <<>> /\ n \in Nat /\ channel[n].type \in ChannelTypes
        /\ Head(<<p>>) \in HasRow(n)
    <3>1. n \in Nat /\ channel[n].type \in ChannelTypes /\ p \in HasRow(n)
      BY <1>r, <2>1
    <3>2. <<p>> \in Seq(ChatPositions) /\ <<p>> # <<>> /\ Head(<<p>>) = p
      OBVIOUS
    <3> QED BY <3>1, <3>2
  <2>4. PICK copy \in MemberRows, todo \in Seq(ChatPositions), type \in ChannelTypes :
          copy = row /\ todo = <<p>> /\ type = channel[n].type
    BY <2>2, <2>3
  <2> HIDE DEF row
  <2> QED BY <2>1, <2>2, <2>3, <2>4, MemberCallStarts
<1>6. ASSUME NEW c \in MemberCalls, NEW n \in DOMAIN channel, NEW p \in ChatPositions, NEW r \in 1..MaxRead, MarkRead(c, n, p, r)
      PROVE  ChannelsInv'
  <2>1. /\ MemberStart(c, "read", n, channel[n].type, <<p>>, FALSE, member[n, p], r) /\ IsActive(n, p)
        /\ r > member[n, p].lastReadSequence
    BY <1>6 DEF MarkRead
  <2>2. /\ member[n, p] \in MemberRows /\ member[n, p].status = "active" /\ r \in Nat
    <3>1. member[n, p] \in MemberRows /\ member[n, p].status = "active"
      BY <1>r, <2>1
    <3>2. r \in Nat
      OBVIOUS
    <3> QED BY <3>1, <3>2
  <2>3. /\ <<p>> \in Seq(ChatPositions) /\ <<p>> # <<>> /\ n \in Nat /\ channel[n].type \in ChannelTypes
        /\ Head(<<p>>) \in HasRow(n)
    <3>1. n \in Nat /\ channel[n].type \in ChannelTypes /\ p \in HasRow(n)
      BY <1>r, <2>1
    <3>2. <<p>> \in Seq(ChatPositions) /\ <<p>> # <<>> /\ Head(<<p>>) = p
      OBVIOUS
    <3> QED BY <3>1, <3>2
  <2>4. PICK copy \in MemberRows, todo \in Seq(ChatPositions), type \in ChannelTypes :
          copy = member[n, p] /\ todo = <<p>> /\ type = channel[n].type
    BY <2>2, <2>3
  <2>5. copy.lastReadSequence \in Nat /\ r > copy.lastReadSequence
    BY <2>1, <2>4 DEF MemberRows
  <2>6. copy.lastReadSequence <= r
    BY <2>5, r \in Nat
  <2> QED BY <2>1, <2>2, <2>3, <2>4, <2>6, MemberCallStarts
<1>7. CASE UNCHANGED channelVars
  <2>1. UNCHANGED <<channel, member, taskClosed, memberCall, unfinished>>
    BY <1>7 DEF channelVars
  <2>2. RowsStay /\ RowsAreOfChannels' /\ \A n : HasRow(n)' = HasRow(n)
    BY <2>1, RowsAlone
  <2>3. \A c \in MemberCalls : MemberCallIsRight(c)'
    BY <2>1, <2>2, MemberCallKeeps DEF ChannelsInv
  <2>4. ASSUME NEW n \in DOMAIN channel, channel[n].type = "direct" PROVE IsOfTwo(n)'
    <3>1. IsOfTwo(n)
      BY <2>4 DEF ChannelsInv
    <3>2. \A c \in MemberCalls : (Adds(c, n)' <=> Adds(c, n)) /\ ToCome(c)' = ToCome(c)
      BY <2>1 DEF Adds, ToCome
    <3> QED BY <2>2, <3>1, <3>2 DEF IsOfTwo
  <2>5. CreatedWithMembers' /\ FinishedTaskIsReadOnly' /\ ChannelTypesHold'
    BY <2>1 DEF ChannelsInv, CreatedWithMembers, FinishedTaskIsReadOnly, ChannelTypesHold
  <2> QED BY <2>1, <2>2, <2>3, <2>4, <2>5 DEF ChannelsInv
<1> QED
  BY <1>1, <1>2, <1>3, <1>4, <1>5, <1>6, <1>7, SaveChannelKeeps, FindKeeps, InsertKeeps, SaveKeeps, AbortKeeps, CloseKeeps
  DEF ChatChannelsNext

\* No receipt goes back, unless two calls worked on it.
ReceiptsStand == \A k \in DOMAIN member : member[k].lastReadSequence <= member'[k].lastReadSequence \/ k \in restored'

\* It says so of every step the specification allows.
LEMMA ChannelStepsKeepReceipts == ChannelsInv /\ [ChatChannelsNext]_channelVars => ReceiptsStand
<1> SUFFICES ASSUME ChannelsInv, [ChatChannelsNext]_channelVars PROVE ReceiptsStand
  OBVIOUS
<1>0. ChannelTypesHold /\ RowsAreOfChannels /\ \A c \in MemberCalls : MemberCallIsRight(c)
  BY DEF ChannelsInv
<1>1. DOMAIN member = (1..MaxChannels) \X ChatPositions /\ \A k \in DOMAIN member : member[k] \in MemberRows /\ member[k].lastReadSequence \in Nat
  BY <1>0 DEF ChannelTypesHold, MemberRows
<1>2. CASE member' = member
  <2>1. \A k \in DOMAIN member : member[k].lastReadSequence <= member[k].lastReadSequence
    BY <1>1
  <2> QED BY <1>2, <2>1 DEF ReceiptsStand
<1>3. ASSUME NEW c \in MemberCalls, InsertMember(c) \/ SaveMember(c) PROVE ReceiptsStand
  <2> DEFINE old == memberCall[c]
             key == <<old.channel, Head(old.todo)>>
  <2>1. old.pc \in {"save", "leave", "read"}
    BY <1>3 DEF InsertMember, SaveMember, MemberAt
  <2>2. old \in MemberCallStates \ {MemberIdle}
    BY <1>0, <2>1 DEF ChannelTypesHold, MemberIdle
  <2>3. /\ old.copy \in MemberRows /\ old.read \in Nat /\ old.copy.lastReadSequence \in Nat
        /\ old.pc = "save" => (old.copy.status = "absent" => old.copy.lastReadSequence = 0)
        /\ old.pc = "read" => old.copy.lastReadSequence <= old.read
    BY <1>0, <2>2 DEF MemberCallStates, MemberCallIsRight, MemberRows
  <2>4. PICK row \in MemberRows :
          /\ member' = [member EXCEPT ![key] = row]
          /\ key \in restored' \/ (member[key].lastReadSequence = old.copy.lastReadSequence /\ old.copy.lastReadSequence <= row.lastReadSequence)
    <3>1. CASE InsertMember(c)
      <4> DEFINE row == IF old.copy.status = "absent"
                          THEN [status |-> "active", role |-> RoleOf(old), lastReadSequence |-> 0]
                          ELSE [old.copy EXCEPT !.status = "active"]
      <4>1. old.pc = "save" /\ member' = [member EXCEPT ![key] = row] /\ (key \in restored' \/ member[key] = old.copy)
        BY <3>1 DEF InsertMember, MemberAt
      <4>2. row \in MemberRows /\ row.lastReadSequence = old.copy.lastReadSequence
        BY <2>3, <4>1 DEF MemberRows, RoleOf
      <4>3. old.copy.lastReadSequence <= row.lastReadSequence
        BY <2>3, <4>2
      <4> QED BY <4>1, <4>2, <4>3
    <3>2. CASE SaveMember(c)
      <4> DEFINE row == IF old.pc = "read" THEN [old.copy EXCEPT !.lastReadSequence = old.read] ELSE old.copy
      <4>1. member' = [member EXCEPT ![key] = row] /\ (key \in restored' \/ member[key].lastReadSequence = old.copy.lastReadSequence)
        BY <3>2 DEF SaveMember
      <4>2. row \in MemberRows /\ old.copy.lastReadSequence <= row.lastReadSequence
        <5>1. CASE old.pc = "read"
          BY <2>3, <5>1 DEF MemberRows
        <5>2. CASE old.pc # "read"
          BY <2>3, <5>2
        <5> QED BY <5>1, <5>2
      <4> QED BY <4>1, <4>2
    <3> QED BY <1>3, <3>1, <3>2
  <2> HIDE DEF key
  <2> SUFFICES ASSUME NEW k \in DOMAIN member PROVE member[k].lastReadSequence <= member'[k].lastReadSequence \/ k \in restored'
    BY DEF ReceiptsStand
  <2>5. CASE k = key
    BY <2>4, <2>5
  <2>6. CASE k # key
    <3>1. member'[k] = member[k]
      BY <2>4, <2>6
    <3> QED BY <1>1, <3>1
  <2> QED BY <2>5, <2>6
<1>4. CASE \A c \in MemberCalls : ~InsertMember(c) /\ ~SaveMember(c)
  <2>1. ASSUME NEW c \in MemberCalls, NEW q \in ChatPositions, CreateChannel(c, Assigning, q) \/ GetOrCreateDmChannel(c, Assigning, q)
        PROVE  member' = member
    BY <2>1 DEF CreateChannel, GetOrCreateDmChannel, MemberStart
  <2>2. ASSUME NEW c \in MemberCalls, CreateLinkedChannel(c) \/ SaveChannel(c) \/ FindMember(c) \/ AbortMemberCall(c)
        PROVE  member' = member
    BY <2>2 DEF CreateLinkedChannel, SaveChannel, FindMember, AbortMemberCall, MemberStart
  <2>3. ASSUME NEW c \in MemberCalls, NEW n \in DOMAIN channel, NEW p \in ChatPositions, NEW a \in ChatPositions,
               AddMemberToChannel(c, n, p, a) \/ RemoveMemberFromChannel(c, n, p, a)
        PROVE  member' = member
    BY <2>3 DEF AddMemberToChannel, RemoveMemberFromChannel, MemberStart
  <2>4. ASSUME NEW c \in MemberCalls, NEW p \in ChatPositions, OnTaskExecutorAdded(c, p) PROVE member' = member
    BY <2>4 DEF OnTaskExecutorAdded, MemberStart
  <2>5. ASSUME NEW c \in MemberCalls, NEW n \in DOMAIN channel, NEW p \in ChatPositions, NEW r \in 1..MaxRead, MarkRead(c, n, p, r)
        PROVE  member' = member
    BY <2>5 DEF MarkRead, MemberStart
  <2>6. OnTaskStatusChanged \/ UNCHANGED channelVars => member' = member
    BY DEF OnTaskStatusChanged, channelVars
  <2>7. member' = member
    BY <1>4, <2>1, <2>2, <2>3, <2>4, <2>5, <2>6 DEF ChatChannelsNext
  <2> QED BY <1>2, <2>7
<1> QED BY <1>3, <1>4

-----------------------------------------------------------------------------
\* Notifications.
\* Handlers without the bounds of the model.
DispatchStates ==
  [pc: {"email", "emailSend", "emailSent", "emailFailed", "sms", "smsSend", "telegram", "telegramSend", "push", "pushSend"},
   request: NoteRequests, at: Nat, prefs: NotificationPreference, link: TelegramStatuses] \cup {DispatchIdle}

\* The types the proof needs.
NotesTypes ==
  /\ noteRequest \in [NoteRequests -> {"new", "running", "done", "failed"}]
  /\ note \in Seq(Note)
  /\ preference \in NotificationPreference /\ telegram \in TelegramStatuses
  /\ dispatch \in [Dispatches -> DispatchStates]
  /\ mails \in Nat

\* A delivery is pending only while its channel is being served.
PendingAt(delivery, pc) ==
  /\ delivery["email"] = "pending" => pc \in {"emailSend", "emailSent", "emailFailed"}
  /\ delivery["sms"] = "pending" => pc = "smsSend"
  /\ delivery["telegram"] = "pending" => pc = "telegramSend"
  /\ delivery["push"] = "pending" => pc = "pushSend"

\* A handler works on the last notification of its request.
DispatchIsRight(d) ==
  LET job == dispatch[d]
  IN  job # DispatchIdle =>
        /\ job.at \in DOMAIN note /\ note[job.at].request = job.request /\ noteRequest[job.request] = "running"
        /\ \A m \in DOMAIN note : note[m].request = job.request => m <= job.at
        /\ PendingAt(note[job.at].delivery, job.pc)
        /\ job.pc \in {"email", "emailSend", "emailSent", "emailFailed"} => note[job.at].delivery["email"] # "sent"
        /\ job.pc = "telegramSend" => job.link = "active"

\* and has it for itself.
OneHandlerEach ==
  \A d, e \in Dispatches :
    dispatch[d] # DispatchIdle /\ dispatch[e] # DispatchIdle /\ dispatch[d].request = dispatch[e].request => d = e

\* An email in the period.
SentRecently(n) == note[n].delivery["email"] = "sent" /\ note[n].recent

\* One handler at a time is between the check and the note of the result, no email of
\* the period went out before its own, and one that went out can be seen.
ThrottleHolds ==
  ~unthrottled /\ CriticalRequests = {} =>
    /\ \A d, e \in Dispatches : Mailing(d) /\ Mailing(e) => d = e
    /\ mails \in {0, 1}
    /\ mails = 1 => (\E n \in DOMAIN note : SentRecently(n)) \/ \E d \in Dispatches : dispatch[d].pc = "emailSent"
    /\ \A d \in Dispatches : dispatch[d].pc = "emailSend" => mails = 0

\* The inductive invariant.
NotesInv ==
  /\ NotesTypes /\ OneHandlerEach /\ ThrottleHolds /\ HandledIsDecided
  /\ \A d \in Dispatches : DispatchIsRight(d)

\* It implies the properties.
LEMMA NotesInvIsEnough == NotesInv => EmailsAreThrottled /\ HandledIsDecided
BY DEF NotesInv, EmailsAreThrottled, ThrottleHolds

\* It holds at the start.
LEMMA NotesInitInv == NotificationsInit => NotesInv
<1> SUFFICES ASSUME NotificationsInit PROVE NotesInv
  OBVIOUS
<1>1. NotesTypes
  <2>1. note = <<>> /\ <<>> \in Seq(Note)
    BY DEF NotificationsInit
  <2>2. preference \in NotificationPreference /\ telegram \in TelegramStatuses /\ mails \in Nat
    BY DEF NotificationsInit, NotificationPreference, TelegramStatuses
  <2>3. noteRequest \in [NoteRequests -> {"new", "running", "done", "failed"}]
    BY DEF NotificationsInit
  <2>4. dispatch \in [Dispatches -> DispatchStates]
    BY DEF NotificationsInit, DispatchStates
  <2> QED BY <2>1, <2>2, <2>3, <2>4 DEF NotesTypes
<1>2. \A d \in Dispatches : dispatch[d] = DispatchIdle /\ dispatch[d].pc = "idle"
  BY DEF NotificationsInit, DispatchIdle
<1>3. DOMAIN note = {} /\ mails = 0
  BY DEF NotificationsInit
<1>4. ThrottleHolds
  BY <1>2, <1>3 DEF ThrottleHolds, Mailing
<1>5. HandledIsDecided
  BY <1>3 DEF HandledIsDecided
<1> QED BY <1>1, <1>2, <1>4, <1>5 DEF NotesInv, OneHandlerEach, DispatchIsRight

\* One handler goes on.
LEMMA OneDispatchMoves ==
  ASSUME NotesTypes, NEW d \in Dispatches, NEW job \in DispatchStates, dispatch' = [dispatch EXCEPT ![d] = job]
  PROVE  /\ dispatch' \in [Dispatches -> DispatchStates] /\ dispatch'[d] = job
         /\ \A e \in Dispatches : e # d => dispatch'[e] = dispatch[e]
BY DEF NotesTypes

\* A handler that is not idle has the fields of one,
LEMMA JobIsTyped ==
  ASSUME NotesTypes, NEW d \in Dispatches, dispatch[d] # DispatchIdle
  PROVE  /\ dispatch[d].request \in NoteRequests /\ dispatch[d].at \in Nat
         /\ dispatch[d].prefs \in NotificationPreference /\ dispatch[d].link \in TelegramStatuses
BY DEF NotesTypes, DispatchStates

\* The steps of a handler after the request.
DispatchPcs == {"email", "emailSend", "emailSent", "emailFailed", "sms", "smsSend", "telegram", "telegramSend", "push", "pushSend"}

\* also at its next step.
LEMMA JobGoesOn ==
  ASSUME NotesTypes, NEW d \in Dispatches, dispatch[d] # DispatchIdle, NEW pc \in DispatchPcs,
         NEW job, job = [dispatch[d] EXCEPT !.pc = pc]
  PROVE  /\ job \in DispatchStates /\ job # DispatchIdle /\ job.pc = pc /\ job.request = dispatch[d].request
         /\ job.at = dispatch[d].at /\ job.prefs = dispatch[d].prefs /\ job.link = dispatch[d].link
<1>1. dispatch[d] \in DispatchStates \ {DispatchIdle}
  BY DEF NotesTypes
<1>2. /\ job \in DispatchStates /\ job.pc = pc /\ job.request = dispatch[d].request
      /\ job.at = dispatch[d].at /\ job.prefs = dispatch[d].prefs /\ job.link = dispatch[d].link
  BY <1>1 DEF DispatchStates, DispatchPcs
<1> QED BY <1>2 DEF DispatchPcs, DispatchIdle

\* A handler writes the row of its notification and goes on, or has handled the request.
LEMMA RowIsDelivered ==
  ASSUME NotesInv, NEW d \in Dispatches, dispatch[d] # DispatchIdle, NEW job \in DispatchStates, NEW row \in Note, NEW at,
         at = dispatch[d].at, dispatch' = [dispatch EXCEPT ![d] = job], note' = [note EXCEPT ![at] = row],
         row.request = note[at].request,
         \/ /\ job # DispatchIdle /\ job.request = dispatch[d].request /\ job.at = at /\ noteRequest' = noteRequest
            /\ PendingAt(row.delivery, job.pc) /\ (job.pc = "telegramSend" => job.link = "active")
            /\ job.pc \in {"email", "emailSend", "emailSent", "emailFailed"} => row.delivery["email"] # "sent"
         \/ /\ job = DispatchIdle /\ noteRequest' = [noteRequest EXCEPT ![dispatch[d].request] = "done"]
            /\ \A c \in DeliveryChannels : row.delivery[c] # "pending"
  PROVE  /\ note' \in Seq(Note) /\ DOMAIN note' = DOMAIN note /\ note'[at] = row /\ at \in DOMAIN note
         /\ \A n \in DOMAIN note : n # at => note'[n] = note[n]
         /\ dispatch' \in [Dispatches -> DispatchStates] /\ dispatch'[d] = job
         /\ \A e \in Dispatches : e # d => dispatch'[e] = dispatch[e]
         /\ noteRequest' \in [NoteRequests -> {"new", "running", "done", "failed"}]
         /\ OneHandlerEach' /\ HandledIsDecided' /\ \A e \in Dispatches : DispatchIsRight(e)'
<1>1. NotesTypes /\ OneHandlerEach /\ HandledIsDecided /\ \A e \in Dispatches : DispatchIsRight(e)
  BY DEF NotesInv
<1>2. /\ at \in DOMAIN note /\ note[at].request = dispatch[d].request /\ noteRequest[dispatch[d].request] = "running"
      /\ \A m \in DOMAIN note : note[m].request = dispatch[d].request => m <= at
  BY <1>1 DEF DispatchIsRight
<1>3. /\ note' \in Seq(Note) /\ DOMAIN note' = DOMAIN note /\ note'[at] = row
      /\ \A n \in DOMAIN note : n # at => note'[n] = note[n]
  BY <1>1, <1>2 DEF NotesTypes
<1>4. /\ dispatch' \in [Dispatches -> DispatchStates] /\ dispatch'[d] = job
      /\ \A e \in Dispatches : e # d => dispatch'[e] = dispatch[e]
  BY <1>1, OneDispatchMoves
<1>5. \A n \in DOMAIN note : note'[n].request = note[n].request /\ note[n].request \in NoteRequests
  <2>1. \A n \in DOMAIN note : note[n] \in Note
    BY <1>1 DEF NotesTypes
  <2>2. \A n \in DOMAIN note : note'[n].request = note[n].request
    BY <1>3
  <2> QED BY <2>1, <2>2 DEF Note
<1>6. /\ noteRequest' \in [NoteRequests -> {"new", "running", "done", "failed"}]
      /\ \A r \in NoteRequests : r # dispatch[d].request => noteRequest'[r] = noteRequest[r]
      /\ job # DispatchIdle => noteRequest' = noteRequest
      /\ job = DispatchIdle => noteRequest'[dispatch[d].request] = "done"
  BY <1>1, JobIsTyped DEF NotesTypes
<1>7. OneHandlerEach'
  BY <1>1, <1>4 DEF OneHandlerEach
<1>8. ASSUME NEW e \in Dispatches PROVE DispatchIsRight(e)'
  <2>1. CASE e = d
    <3>1. CASE job # DispatchIdle
      BY <1>2, <1>3, <1>4, <1>5, <1>6, <2>1, <3>1 DEF DispatchIsRight
    <3>2. CASE job = DispatchIdle
      BY <1>4, <2>1, <3>2 DEF DispatchIsRight
    <3> QED BY <3>1, <3>2
  <2>2. CASE e # d /\ dispatch[e] # DispatchIdle
    <3>1. dispatch[e].request # dispatch[d].request /\ dispatch[e].request \in NoteRequests
      BY <1>1, <2>2, JobIsTyped DEF OneHandlerEach
    <3>2. /\ dispatch[e].at \in DOMAIN note /\ note[dispatch[e].at].request = dispatch[e].request
          /\ noteRequest[dispatch[e].request] = "running"
          /\ \A m \in DOMAIN note : note[m].request = dispatch[e].request => m <= dispatch[e].at
          /\ PendingAt(note[dispatch[e].at].delivery, dispatch[e].pc)
          /\ dispatch[e].pc \in {"email", "emailSend", "emailSent", "emailFailed"} => note[dispatch[e].at].delivery["email"] # "sent"
          /\ dispatch[e].pc = "telegramSend" => dispatch[e].link = "active"
      BY <1>1, <2>2 DEF DispatchIsRight
    <3>3. note'[dispatch[e].at] = note[dispatch[e].at]
      BY <1>2, <1>3, <3>1, <3>2
    <3>4. noteRequest'[dispatch[e].request] = "running"
      BY <1>6, <3>1, <3>2
    <3> QED BY <1>3, <1>4, <1>5, <2>2, <3>2, <3>3, <3>4 DEF DispatchIsRight
  <2>3. CASE e # d /\ dispatch[e] = DispatchIdle
    BY <1>4, <2>3 DEF DispatchIsRight
  <2> QED BY <2>1, <2>2, <2>3
<1>9. HandledIsDecided'
  <2> SUFFICES ASSUME NEW n \in DOMAIN note, noteRequest'[note'[n].request] = "done",
                      \A m \in DOMAIN note : note'[m].request = note'[n].request => m <= n, NEW c \in DeliveryChannels
               PROVE  note'[n].delivery[c] # "pending"
    BY <1>3 DEF HandledIsDecided
  <2>1. \A m \in DOMAIN note : note[m].request = note[n].request => m <= n
    BY <1>5
  <2>2. CASE note[n].request # dispatch[d].request
    <3>1. noteRequest[note[n].request] = "done" /\ n # at
      BY <1>2, <1>5, <1>6, <2>2
    <3> QED BY <1>1, <1>3, <2>1, <3>1 DEF HandledIsDecided
  <2>3. CASE note[n].request = dispatch[d].request
    <3>1. job = DispatchIdle
      BY <1>2, <1>5, <1>6, <2>3
    <3>2. at <= n /\ n <= at /\ n \in Nat /\ at \in Nat
      BY <1>1, <1>2, <2>1, <2>3 DEF NotesTypes
    <3>3. n = at
      BY <3>2
    <3> QED BY <1>3, <3>1, <3>3
  <2> QED BY <2>2, <2>3
<1> QED BY <1>2, <1>3, <1>4, <1>6, <1>7, <1>8, <1>9

\* A step that has nothing to do with email keeps the throttle.
LEMMA ThrottleKept ==
  ASSUME NotesInv, mails' = mails, unthrottled => unthrottled', DOMAIN note \subseteq DOMAIN note',
         \A n \in DOMAIN note : SentRecently(n) => SentRecently(n)',
         \A e \in Dispatches : \A pc \in {"emailSend", "emailSent"} : dispatch'[e].pc = pc <=> dispatch[e].pc = pc
  PROVE  ThrottleHolds'
<1>1. ThrottleHolds
  BY DEF NotesInv
<1>2. \A e \in Dispatches : Mailing(e)' <=> Mailing(e)
  BY DEF Mailing
<1> SUFFICES ASSUME ~unthrottled', CriticalRequests = {}
             PROVE  /\ \A d, e \in Dispatches : Mailing(d)' /\ Mailing(e)' => d = e
                    /\ mails \in {0, 1}
                    /\ mails = 1 => (\E n \in DOMAIN note' : SentRecently(n)') \/ \E d \in Dispatches : dispatch'[d].pc = "emailSent"
                    /\ \A d \in Dispatches : dispatch'[d].pc = "emailSend" => mails = 0
  BY DEF ThrottleHolds
<1> QED BY <1>1, <1>2 DEF ThrottleHolds

\* The row of a notification with another status of one channel.
LEMMA RowOfDelivery ==
  ASSUME NotesTypes, NEW at \in DOMAIN note, NEW ch \in DeliveryChannels, NEW status \in DeliveryStatuses
  PROVE  \E row \in Note :
           /\ row = [note[at] EXCEPT !.delivery[ch] = status]
           /\ row.request = note[at].request /\ row.recent = note[at].recent /\ row.delivery[ch] = status
           /\ \A c \in DeliveryChannels : c # ch => row.delivery[c] = note[at].delivery[c]
<1>1. note[at] \in Note
  BY DEF NotesTypes
<1>2. note[at].delivery \in [DeliveryChannels -> DeliveryStatuses]
  BY <1>1 DEF Note
<1> DEFINE delivery == [note[at].delivery EXCEPT ![ch] = status]
<1>3. /\ delivery \in [DeliveryChannels -> DeliveryStatuses]
      /\ delivery[ch] = status /\ \A c \in DeliveryChannels : c # ch => delivery[c] = note[at].delivery[c]
  BY <1>2
<1>4. [note[at] EXCEPT !.delivery[ch] = status] = [note[at] EXCEPT !.delivery = delivery]
  OBVIOUS
<1> HIDE DEF delivery
<1> DEFINE row == [note[at] EXCEPT !.delivery = delivery]
<1>5. row \in Note /\ row.request = note[at].request /\ row.recent = note[at].recent /\ row.delivery = delivery
  BY <1>1, <1>3 DEF Note
<1> HIDE DEF row
<1>6. row = [note[at] EXCEPT !.delivery[ch] = status]
  BY <1>4 DEF row
<1> QED BY <1>3, <1>5, <1>6

\* What a handler that is at a step knows of its notification.
LEMMA AtStep ==
  ASSUME NotesInv, NEW d \in Dispatches, dispatch[d].pc # "idle"
  PROVE  /\ NotesTypes /\ dispatch[d] # DispatchIdle /\ dispatch[d].at \in DOMAIN note
         /\ PendingAt(note[dispatch[d].at].delivery, dispatch[d].pc)
         /\ dispatch[d].pc \in {"email", "emailSend", "emailSent", "emailFailed"} => note[dispatch[d].at].delivery["email"] # "sent"
         /\ dispatch[d].request \in NoteRequests
<1>1. NotesTypes /\ dispatch[d] # DispatchIdle /\ DispatchIsRight(d)
  BY DEF NotesInv, DispatchIdle
<1> QED BY <1>1, JobIsTyped DEF DispatchIsRight

\* A handler settles a channel other than email, and goes on or is done.
LEMMA ChannelServed ==
  ASSUME NotesInv, NEW d \in Dispatches, dispatch[d].pc \notin {"idle", "emailSend", "emailSent"},
         NEW ch \in {"sms", "telegram", "push"}, NEW status \in DeliveryStatuses \ {"sent"}, NEW job \in DispatchStates,
         Deliver(d, ch, status), dispatch' = [dispatch EXCEPT ![d] = job], UNCHANGED <<preference, mails, unthrottled>>,
         telegram' \in TelegramStatuses, job.pc \notin {"emailSend", "emailSent", "emailFailed", "email"},
         dispatch[d].pc \in {"sms", "smsSend", "telegram", "telegramSend", "push", "pushSend"},
         \A c \in {"sms", "telegram", "push"} : c # ch /\ note[dispatch[d].at].delivery[c] = "pending" => FALSE,
         status = "pending" => (ch = "sms" /\ job.pc = "smsSend") \/ (ch = "telegram" /\ job.pc = "telegramSend") \/ (ch = "push" /\ job.pc = "pushSend"),
         \/ /\ job # DispatchIdle /\ job.request = dispatch[d].request /\ job.at = dispatch[d].at /\ noteRequest' = noteRequest
            /\ job.pc = "telegramSend" => job.link = "active"
         \/ job = DispatchIdle /\ noteRequest' = [noteRequest EXCEPT ![dispatch[d].request] = "done"]
  PROVE  NotesInv'
<1>1. /\ NotesTypes /\ dispatch[d] # DispatchIdle /\ dispatch[d].at \in DOMAIN note
      /\ PendingAt(note[dispatch[d].at].delivery, dispatch[d].pc)
  BY AtStep
<1>2. PICK at \in DOMAIN note : at = dispatch[d].at
  BY <1>1
<1>4. ch \in DeliveryChannels /\ ch # "email" /\ "email" \in DeliveryChannels
  BY DEF DeliveryChannels
<1>5. PICK row \in Note :
        /\ row = [note[at] EXCEPT !.delivery[ch] = status]
        /\ row.request = note[at].request /\ row.recent = note[at].recent /\ row.delivery[ch] = status
        /\ \A c \in DeliveryChannels : c # ch => row.delivery[c] = note[at].delivery[c]
  BY <1>1, <1>4, RowOfDelivery
<1>3. note' = [note EXCEPT ![at] = row]
  BY <1>2, <1>5 DEF Deliver
<1>6. \A c \in DeliveryChannels : row.delivery[c] = "pending" => c = ch /\ status = "pending"
  BY <1>1, <1>2, <1>5 DEF DeliveryChannels, PendingAt
<1>7. PendingAt(row.delivery, job.pc)
  BY <1>6 DEF PendingAt, DeliveryChannels
<1>8. job = DispatchIdle => \A c \in DeliveryChannels : row.delivery[c] # "pending"
  BY <1>5, <1>6 DEF DispatchIdle
<1>9. /\ note' \in Seq(Note) /\ DOMAIN note' = DOMAIN note /\ note'[at] = row /\ at \in DOMAIN note
      /\ \A n \in DOMAIN note : n # at => note'[n] = note[n]
      /\ dispatch' \in [Dispatches -> DispatchStates] /\ dispatch'[d] = job
      /\ \A e \in Dispatches : e # d => dispatch'[e] = dispatch[e]
      /\ noteRequest' \in [NoteRequests -> {"new", "running", "done", "failed"}]
      /\ OneHandlerEach' /\ HandledIsDecided' /\ \A e \in Dispatches : DispatchIsRight(e)'
  <2>1. \/ /\ job # DispatchIdle /\ job.request = dispatch[d].request /\ job.at = at /\ noteRequest' = noteRequest
           /\ PendingAt(row.delivery, job.pc) /\ (job.pc = "telegramSend" => job.link = "active")
           /\ job.pc \in {"email", "emailSend", "emailSent", "emailFailed"} => row.delivery["email"] # "sent"
        \/ /\ job = DispatchIdle /\ noteRequest' = [noteRequest EXCEPT ![dispatch[d].request] = "done"]
           /\ \A c \in DeliveryChannels : row.delivery[c] # "pending"
    BY <1>2, <1>7, <1>8
  <2>2. row.request = note[at].request /\ dispatch[d] # DispatchIdle /\ at = dispatch[d].at
    BY <1>1, <1>2, <1>5
  <2> QED BY <1>3, <2>1, <2>2, RowIsDelivered
<1>10. NotesTypes'
  BY <1>1, <1>9 DEF NotesTypes
<1>11. \A n \in DOMAIN note : SentRecently(n) => SentRecently(n)'
  <2>1. row.delivery["email"] = note[at].delivery["email"] /\ row.recent = note[at].recent
    BY <1>4, <1>5
  <2>2. \A n \in DOMAIN note : note'[n].delivery["email"] = note[n].delivery["email"] /\ note'[n].recent = note[n].recent
    BY <1>9, <2>1
  <2> QED BY <2>2 DEF SentRecently
<1>12. \A e \in Dispatches : \A pc \in {"emailSend", "emailSent"} : dispatch'[e].pc = pc <=> dispatch[e].pc = pc
  BY <1>9
<1>13. ThrottleHolds'
  BY <1>9, <1>11, <1>12, ThrottleKept
<1> QED BY <1>9, <1>10, <1>13 DEF NotesInv

\* A step that leaves the handlers and the deliveries alone.
LEMMA HandlersStand ==
  ASSUME NotesInv, UNCHANGED <<noteRequest, dispatch>>, DOMAIN note' = DOMAIN note,
         \A n \in DOMAIN note : note'[n].request = note[n].request /\ note'[n].delivery = note[n].delivery
  PROVE  OneHandlerEach' /\ HandledIsDecided' /\ \A d \in Dispatches : DispatchIsRight(d)'
<1>1. OneHandlerEach'
  BY DEF NotesInv, OneHandlerEach
<1>2. HandledIsDecided'
  BY DEF NotesInv, HandledIsDecided
<1>3. \A d \in Dispatches : DispatchIsRight(d)'
  BY DEF NotesInv, DispatchIsRight
<1> QED BY <1>1, <1>2, <1>3

\* A request is taken up.
LEMMA RequestTaken ==
  ASSUME NotesInv, NEW d \in Dispatches, NEW r \in NoteRequests, OnNotificationRequested(d, r)
  PROVE  NotesInv'
<1>1. NotesTypes /\ OneHandlerEach /\ HandledIsDecided /\ \A e \in Dispatches : DispatchIsRight(e)
  BY DEF NotesInv
<1>p. PICK new \in Nat : new = Len(note) + 1
  BY <1>1 DEF NotesTypes
<1> DEFINE row == [request |-> r, isRead |-> FALSE, recent |-> FALSE, delivery |-> [c \in DeliveryChannels |-> "none"]]
           job == [pc |-> "email", request |-> r, at |-> new, prefs |-> preference, link |-> "none"]
<1>2. /\ dispatch[d] = DispatchIdle /\ noteRequest[r] \in {"new", "failed"}
      /\ noteRequest' = [noteRequest EXCEPT ![r] = "running"]
      /\ note' = Append(note, row) /\ dispatch' = [dispatch EXCEPT ![d] = job]
      /\ UNCHANGED <<preference, telegram, noteSettings, linkToken, pushSub, mails, unthrottled, overtakenLink>>
  BY <1>p DEF OnNotificationRequested
<1>3. row \in Note /\ row.request = r /\ \A c \in DeliveryChannels : row.delivery[c] = "none"
  BY DEF Note, DeliveryStatuses
<1>4. job \in DispatchStates /\ job # DispatchIdle /\ job.pc = "email" /\ job.request = r /\ job.at = new
  BY <1>1, <1>p DEF NotesTypes, DispatchStates, TelegramStatuses, DispatchIdle
<1> HIDE DEF row, job
<1>5. /\ note' \in Seq(Note) /\ DOMAIN note' = DOMAIN note \cup {new} /\ note'[new] = row /\ new \notin DOMAIN note
      /\ \A n \in DOMAIN note : note'[n] = note[n] /\ n <= new /\ n \in Nat
  <2>1. note \in Seq(Note) /\ Len(note) \in Nat /\ DOMAIN note = 1..Len(note)
    BY <1>1 DEF NotesTypes
  <2>2. note' \in Seq(Note) /\ DOMAIN note' = 1..new /\ note'[new] = row /\ \A n \in DOMAIN note : note'[n] = note[n]
    BY <1>p, <1>2, <1>3, <2>1
  <2>3. \A n \in DOMAIN note : n <= new /\ n \in Nat
    BY <1>p, <2>1
  <2>4. DOMAIN note' = DOMAIN note \cup {new} /\ new \notin DOMAIN note
    BY <1>p, <2>1, <2>2
  <2> QED BY <2>2, <2>3, <2>4
<1>6. /\ dispatch' \in [Dispatches -> DispatchStates] /\ dispatch'[d] = job
      /\ \A e \in Dispatches : e # d => dispatch'[e] = dispatch[e]
  BY <1>1, <1>2, <1>4, OneDispatchMoves
<1>7. /\ noteRequest' \in [NoteRequests -> {"new", "running", "done", "failed"}] /\ noteRequest'[r] = "running"
      /\ \A q \in NoteRequests : q # r => noteRequest'[q] = noteRequest[q]
  BY <1>1, <1>2 DEF NotesTypes
<1>8. NotesTypes'
  BY <1>1, <1>2, <1>5, <1>6, <1>7 DEF NotesTypes
<1>9. \A e \in Dispatches : dispatch[e] # DispatchIdle => dispatch[e].request # r /\ dispatch[e].request \in NoteRequests
  BY <1>1, <1>2, JobIsTyped DEF DispatchIsRight
<1>10. OneHandlerEach'
  BY <1>1, <1>4, <1>6, <1>9 DEF OneHandlerEach
<1>11. ASSUME NEW e \in Dispatches PROVE DispatchIsRight(e)'
  <2>1. CASE e = d
    <3>1. PendingAt(row.delivery, "email") /\ row.delivery["email"] # "sent"
      BY <1>3 DEF PendingAt, DeliveryChannels
    <3>2. \A m \in DOMAIN note' : m <= new
      BY <1>5
    <3> QED BY <1>3, <1>4, <1>5, <1>6, <1>7, <2>1, <3>1, <3>2 DEF DispatchIsRight
  <2>2. CASE e # d /\ dispatch[e] # DispatchIdle
    <3>1. /\ dispatch[e].at \in DOMAIN note /\ note[dispatch[e].at].request = dispatch[e].request
          /\ noteRequest[dispatch[e].request] = "running"
          /\ \A m \in DOMAIN note : note[m].request = dispatch[e].request => m <= dispatch[e].at
          /\ PendingAt(note[dispatch[e].at].delivery, dispatch[e].pc)
          /\ dispatch[e].pc \in {"email", "emailSend", "emailSent", "emailFailed"} => note[dispatch[e].at].delivery["email"] # "sent"
          /\ dispatch[e].pc = "telegramSend" => dispatch[e].link = "active"
      BY <1>1, <2>2 DEF DispatchIsRight
    <3>2. note'[dispatch[e].at] = note[dispatch[e].at] /\ noteRequest'[dispatch[e].request] = "running" /\ dispatch[e].at \in DOMAIN note'
      BY <1>5, <1>7, <1>9, <2>2, <3>1
    <3>3. \A m \in DOMAIN note' : note'[m].request = dispatch[e].request => m <= dispatch[e].at
      BY <1>3, <1>5, <1>9, <2>2, <3>1
    <3> QED BY <1>6, <2>2, <3>1, <3>2, <3>3 DEF DispatchIsRight
  <2>3. CASE e # d /\ dispatch[e] = DispatchIdle
    BY <1>6, <2>3 DEF DispatchIsRight
  <2> QED BY <2>1, <2>2, <2>3
<1>12. HandledIsDecided'
  <2> SUFFICES ASSUME NEW n \in DOMAIN note', noteRequest'[note'[n].request] = "done",
                      \A m \in DOMAIN note' : note'[m].request = note'[n].request => m <= n, NEW c \in DeliveryChannels
               PROVE  note'[n].delivery[c] # "pending"
    BY DEF HandledIsDecided
  <2>1. CASE n = new
    BY <1>3, <1>5, <2>1
  <2>2. CASE n \in DOMAIN note
    <3>1. note[n] \in Note
      BY <1>1, <2>2 DEF NotesTypes
    <3>2. note[n].request \in NoteRequests
      BY <3>1 DEF Note
    <3>3. noteRequest[note[n].request] = "done"
      BY <1>5, <1>7, <2>2, <3>2
    <3>4. \A m \in DOMAIN note : note[m].request = note[n].request => m <= n
      BY <1>5, <2>2
    <3> QED BY <1>1, <1>5, <2>2, <3>3, <3>4 DEF HandledIsDecided
  <2> QED BY <1>5, <2>1, <2>2
<1>13. ThrottleHolds'
  <2>1. \A n \in DOMAIN note : SentRecently(n) => SentRecently(n)'
    BY <1>5 DEF SentRecently
  <2>2. \A e \in Dispatches : \A pc \in {"emailSend", "emailSent"} : dispatch'[e].pc = pc <=> dispatch[e].pc = pc
    BY <1>2, <1>4, <1>6 DEF DispatchIdle
  <2> QED BY <1>2, <1>5, <2>1, <2>2, ThrottleKept
<1> QED BY <1>8, <1>10, <1>11, <1>12, <1>13 DEF NotesInv

\* The check, and the note of the result.
LEMMA EmailServed ==
  ASSUME NotesInv, NEW d \in Dispatches, CheckEmail(d) \/ UpdateDelivery(d)
  PROVE  NotesInv'
<1> DEFINE old == dispatch[d]
<1>1. old.pc # "idle" /\ old.pc \in {"email", "emailSent", "emailFailed"}
  BY DEF CheckEmail, UpdateDelivery, DispatchAt
<1>2. /\ NotesTypes /\ old # DispatchIdle /\ old.at \in DOMAIN note /\ PendingAt(note[old.at].delivery, old.pc)
      /\ note[old.at].delivery["email"] # "sent"
  BY <1>1, AtStep
<1>3. PICK at \in DOMAIN note : at = old.at
  BY <1>2
<1>e. "email" \in DeliveryChannels
  BY DEF DeliveryChannels
<1>4. CASE CheckEmail(d)
  <2>1. PICK skip \in BOOLEAN : skip = (~old.prefs.email \/ Throttled(d))
    OBVIOUS
  <2>2. PICK status \in DeliveryStatuses \ {"sent"}, pc \in {"sms", "emailSend"} :
          /\ (skip => status = "settled" /\ pc = "sms") /\ (~skip => status = "pending" /\ pc = "emailSend")
    BY DEF DeliveryStatuses
  <2> DEFINE job == [old EXCEPT !.pc = pc]
  <2>3. PICK row \in Note :
          /\ row = [note[at] EXCEPT !.delivery["email"] = status]
          /\ row.request = note[at].request /\ row.recent = note[at].recent /\ row.delivery["email"] = status
          /\ \A c \in DeliveryChannels : c # "email" => row.delivery[c] = note[at].delivery[c]
    BY <1>2, <1>e, RowOfDelivery
  <2>4. /\ note' = [note EXCEPT ![at] = row] /\ dispatch' = [dispatch EXCEPT ![d] = job]
        /\ unthrottled' = (unthrottled \/ (~skip /\ \E e \in Dispatches : e # d /\ Mailing(e)))
        /\ UNCHANGED <<noteRequest, preference, telegram, mails>>
    BY <1>3, <1>4, <2>1, <2>2, <2>3 DEF CheckEmail, Deliver, DispatchGo
  <2>5. job \in DispatchStates /\ job # DispatchIdle /\ job.pc = pc /\ job.request = old.request /\ job.at = old.at
    <3>1. pc \in DispatchPcs
      BY DEF DispatchPcs
    <3> QED BY <1>2, <3>1, JobGoesOn
  <2> HIDE DEF job
  <2>o. old.pc = "email"
    BY <1>4 DEF CheckEmail, DispatchAt
  <2>6. /\ PendingAt(row.delivery, job.pc) /\ (job.pc = "telegramSend" => job.link = "active")
        /\ job.pc \in {"email", "emailSend", "emailSent", "emailFailed"} => row.delivery["email"] # "sent"
    <3>1. \A c \in DeliveryChannels : c # "email" => row.delivery[c] # "pending"
      BY <1>2, <1>3, <2>3, <2>o DEF PendingAt, DeliveryChannels
    <3> QED BY <2>2, <2>3, <2>5, <3>1 DEF PendingAt, DeliveryChannels
  <2>7. row.request = note[at].request /\ job.request = old.request /\ job.at = at
    BY <1>3, <2>3, <2>5
  <2>8. /\ note' \in Seq(Note) /\ DOMAIN note' = DOMAIN note /\ note'[at] = row /\ at \in DOMAIN note
        /\ \A n \in DOMAIN note : n # at => note'[n] = note[n]
        /\ dispatch' \in [Dispatches -> DispatchStates] /\ dispatch'[d] = job
        /\ \A e \in Dispatches : e # d => dispatch'[e] = dispatch[e]
        /\ noteRequest' \in [NoteRequests -> {"new", "running", "done", "failed"}]
        /\ OneHandlerEach' /\ HandledIsDecided' /\ \A e \in Dispatches : DispatchIsRight(e)'
    BY <1>2, <1>3, <2>4, <2>5, <2>6, <2>7, RowIsDelivered
  <2>9. NotesTypes'
    BY <1>2, <2>4, <2>8 DEF NotesTypes
  <2>10. \A n \in DOMAIN note : SentRecently(n) => n # at /\ SentRecently(n)'
    BY <1>2, <1>3, <2>8 DEF SentRecently
  <2>11. CASE skip
    <3>1. \A e \in Dispatches : \A k \in {"emailSend", "emailSent"} : dispatch'[e].pc = k <=> dispatch[e].pc = k
      BY <2>2, <2>5, <2>8, <2>11, <2>o
    <3>2. unthrottled => unthrottled'
      BY <2>4
    <3>3. ThrottleHolds'
      BY <2>4, <2>8, <2>10, <3>1, <3>2, ThrottleKept
    <3> QED BY <2>8, <2>9, <3>3 DEF NotesInv
  <2>12. CASE ~skip
    <3> SUFFICES ASSUME ~unthrottled', CriticalRequests = {}
                 PROVE  /\ \A a, b \in Dispatches : Mailing(a)' /\ Mailing(b)' => a = b
                        /\ mails' \in {0, 1}
                        /\ mails' = 1 => (\E n \in DOMAIN note' : SentRecently(n)') \/ \E a \in Dispatches : dispatch'[a].pc = "emailSent"
                        /\ \A a \in Dispatches : dispatch'[a].pc = "emailSend" => mails' = 0
      BY <2>8, <2>9 DEF NotesInv, ThrottleHolds
    <3>1. ~unthrottled /\ \A e \in Dispatches : e # d => ~Mailing(e)
      BY <2>4, <2>12
    <3>2. \A n \in DOMAIN note : ~SentRecently(n)
      BY <2>1, <2>12 DEF Throttled, SentRecently
    <3>3. mails = 0
      <4>1. ~Mailing(d)
        BY <2>o DEF Mailing
      <4>2. \A a \in Dispatches : dispatch[a].pc # "emailSent"
        BY <3>1, <4>1 DEF Mailing
      <4> QED BY <3>1, <3>2, <4>2 DEF NotesInv, ThrottleHolds
    <3>4. \A a \in Dispatches : Mailing(a)' => a = d
      BY <2>8, <3>1 DEF Mailing
    <3> QED BY <2>4, <3>3, <3>4
  <2> QED BY <2>11, <2>12
<1>5. CASE UpdateDelivery(d)
  <2>1. PICK sent \in BOOLEAN, status \in DeliveryStatuses :
          /\ sent = (old.pc = "emailSent") /\ (sent => status = "sent") /\ (~sent => status = "settled")
    BY DEF DeliveryStatuses
  <2> DEFINE job == [old EXCEPT !.pc = "sms"]
  <2>2. PICK mid \in Note :
          /\ mid = [note[at] EXCEPT !.delivery["email"] = status]
          /\ mid.request = note[at].request /\ mid.recent = note[at].recent /\ mid.delivery["email"] = status
          /\ \A c \in DeliveryChannels : c # "email" => mid.delivery[c] = note[at].delivery[c]
    BY <1>2, <1>e, RowOfDelivery
  <2>3. PICK row \in Note :
          /\ row = [mid EXCEPT !.recent = sent] /\ row.request = note[at].request /\ row.recent = sent /\ row.delivery = mid.delivery
    <3> DEFINE row == [mid EXCEPT !.recent = sent]
    <3>1. row \in Note /\ row.request = mid.request /\ row.recent = sent /\ row.delivery = mid.delivery
      <4>1. mid \in Note
        OBVIOUS
      <4> QED BY <4>1 DEF Note
    <3> QED BY <2>2, <3>1
  <2>4. /\ note' = [note EXCEPT ![at] = row] /\ dispatch' = [dispatch EXCEPT ![d] = job]
        /\ UNCHANGED <<noteRequest, preference, telegram, mails, unthrottled>>
    <3>1. note' = [note EXCEPT ![at].delivery["email"] = status, ![at].recent = sent]
      <4>1. note' = [note EXCEPT ![at].delivery["email"] = IF old.pc = "emailSent" THEN "sent" ELSE "settled",
                                 ![at].recent = (old.pc = "emailSent")]
        BY <1>3, <1>5 DEF UpdateDelivery
      <4>2. (IF old.pc = "emailSent" THEN "sent" ELSE "settled") = status
        BY <2>1
      <4> QED BY <2>1, <4>1, <4>2
    <3>2. note' = [note EXCEPT ![at] = row]
      BY <1>2, <2>2, <2>3, <3>1 DEF NotesTypes
    <3> QED BY <1>5, <3>2 DEF UpdateDelivery, DispatchGo
  <2>5. job \in DispatchStates /\ job # DispatchIdle /\ job.pc = "sms" /\ job.request = old.request /\ job.at = old.at
    BY <1>2, JobGoesOn DEF DispatchPcs
  <2> HIDE DEF job
  <2>6. PendingAt(row.delivery, job.pc)
    <3>1. \A c \in DeliveryChannels : c # "email" => row.delivery[c] # "pending"
      BY <1>1, <1>2, <1>3, <2>2, <2>3 DEF PendingAt, DeliveryChannels
    <3>2. row.delivery["email"] # "pending"
      BY <2>1, <2>2, <2>3
    <3> QED BY <3>1, <3>2 DEF PendingAt, DeliveryChannels
  <2>7. row.request = note[at].request /\ job.request = old.request /\ job.at = at /\ job.pc = "sms"
    BY <1>3, <2>3, <2>5
  <2>8. /\ note' \in Seq(Note) /\ DOMAIN note' = DOMAIN note /\ note'[at] = row /\ at \in DOMAIN note
        /\ \A n \in DOMAIN note : n # at => note'[n] = note[n]
        /\ dispatch' \in [Dispatches -> DispatchStates] /\ dispatch'[d] = job
        /\ \A e \in Dispatches : e # d => dispatch'[e] = dispatch[e]
        /\ noteRequest' \in [NoteRequests -> {"new", "running", "done", "failed"}]
        /\ OneHandlerEach' /\ HandledIsDecided' /\ \A e \in Dispatches : DispatchIsRight(e)'
    BY <1>2, <1>3, <2>4, <2>5, <2>6, <2>7, RowIsDelivered
  <2>9. NotesTypes'
    BY <1>2, <2>4, <2>8 DEF NotesTypes
  <2>10. \A n \in DOMAIN note : SentRecently(n) => n # at /\ SentRecently(n)'
    BY <1>2, <1>3, <2>8 DEF SentRecently
  <2>11. sent => SentRecently(at)'
    BY <2>1, <2>2, <2>3, <2>8 DEF SentRecently
  <2>12. \A e \in Dispatches : (Mailing(e)' => Mailing(e) /\ e # d) /\ (dispatch'[e].pc = "emailSend" => dispatch[e].pc = "emailSend")
                             /\ (dispatch[e].pc = "emailSent" => dispatch'[e].pc = "emailSent" \/ e = d)
    BY <2>7, <2>8 DEF Mailing
  <2>13. ThrottleHolds'
    <3> SUFFICES ASSUME ~unthrottled, CriticalRequests = {}
                 PROVE  /\ \A a, b \in Dispatches : Mailing(a)' /\ Mailing(b)' => a = b
                        /\ mails \in {0, 1}
                        /\ mails = 1 => (\E n \in DOMAIN note' : SentRecently(n)') \/ \E a \in Dispatches : dispatch'[a].pc = "emailSent"
                        /\ \A a \in Dispatches : dispatch'[a].pc = "emailSend" => mails = 0
      BY <2>4 DEF ThrottleHolds
    <3>1. /\ \A a, b \in Dispatches : Mailing(a) /\ Mailing(b) => a = b
          /\ mails \in {0, 1}
          /\ mails = 1 => (\E n \in DOMAIN note : SentRecently(n)) \/ \E a \in Dispatches : dispatch[a].pc = "emailSent"
          /\ \A a \in Dispatches : dispatch[a].pc = "emailSend" => mails = 0
      BY DEF NotesInv, ThrottleHolds
    <3>2. mails = 1 => (\E n \in DOMAIN note' : SentRecently(n)') \/ \E a \in Dispatches : dispatch'[a].pc = "emailSent"
      BY <2>1, <2>8, <2>10, <2>11, <2>12, <3>1
    <3> QED BY <2>12, <3>1, <3>2
  <2> QED BY <2>8, <2>9, <2>13 DEF NotesInv
<1> QED BY <1>4, <1>5

\* The channels after email.
LEMMA OthersServed ==
  ASSUME NotesInv, NEW d \in Dispatches,
         LoadSms(d) \/ SendSms(d) \/ LoadTelegram(d) \/ SendTelegram(d) \/ LoadPush(d) \/ SendPush(d)
  PROVE  NotesInv'
<1> DEFINE old == dispatch[d]
<1>1. old.pc \in {"sms", "smsSend", "telegram", "telegramSend", "push", "pushSend"}
  BY DEF LoadSms, SendSms, LoadTelegram, SendTelegram, LoadPush, SendPush, DispatchAt
<1>2. /\ NotesTypes /\ old # DispatchIdle /\ old.at \in DOMAIN note /\ PendingAt(note[old.at].delivery, old.pc)
      /\ old.request \in NoteRequests /\ DispatchIdle \in DispatchStates /\ DispatchIdle.pc = "idle"
  BY <1>1, AtStep DEF DispatchStates, DispatchIdle
<1>3. \A pc \in DispatchPcs :
        LET job == [old EXCEPT !.pc = pc]
        IN  job \in DispatchStates /\ job # DispatchIdle /\ job.pc = pc /\ job.request = old.request /\ job.at = old.at
  BY <1>2, JobGoesOn
<1>s. "settled" \in DeliveryStatuses \ {"sent"} /\ "pending" \in DeliveryStatuses \ {"sent"} /\ "none" \in DeliveryStatuses \ {"sent"}
  BY DEF DeliveryStatuses
<1>4. \A c \in {"sms", "telegram", "push"} : note[old.at].delivery[c] = "pending" =>
        (c = "sms" /\ old.pc = "smsSend") \/ (c = "telegram" /\ old.pc = "telegramSend") \/ (c = "push" /\ old.pc = "pushSend")
  BY <1>2 DEF PendingAt
<1>5. CASE LoadSms(d)
  <2>1. old.pc = "sms" /\ UNCHANGED <<noteRequest, preference, telegram, mails, unthrottled>>
    BY <1>5 DEF LoadSms, DispatchAt
  <2>2. PICK status \in DeliveryStatuses \ {"sent"}, pc \in {"smsSend", "telegram"} :
          Deliver(d, "sms", status) /\ DispatchGo(d, pc) /\ (status = "pending" => pc = "smsSend")
    BY <1>5, <1>s DEF LoadSms
  <2>3. PICK job \in DispatchStates :
          /\ job = [old EXCEPT !.pc = pc] /\ job # DispatchIdle /\ job.pc = pc /\ job.request = old.request /\ job.at = old.at
    BY <1>3 DEF DispatchPcs
  <2>4. dispatch' = [dispatch EXCEPT ![d] = job] /\ telegram' \in TelegramStatuses
    BY <1>2, <2>1, <2>2, <2>3 DEF DispatchGo, NotesTypes
  <2> QED BY <1>1, <1>4, <2>1, <2>2, <2>3, <2>4, ChannelServed
<1>6. CASE SendSms(d)
  <2>1. /\ old.pc = "smsSend" /\ UNCHANGED <<noteRequest, preference, telegram, mails, unthrottled>>
        /\ Deliver(d, "sms", "settled") /\ DispatchGo(d, "telegram")
    BY <1>6 DEF SendSms, DispatchAt
  <2>3. PICK job \in DispatchStates :
          /\ job = [old EXCEPT !.pc = "telegram"] /\ job # DispatchIdle /\ job.pc = "telegram" /\ job.request = old.request /\ job.at = old.at
    BY <1>3 DEF DispatchPcs
  <2>4. dispatch' = [dispatch EXCEPT ![d] = job] /\ telegram' \in TelegramStatuses
    BY <1>2, <2>1, <2>3 DEF DispatchGo, NotesTypes
  <2> QED BY <1>1, <1>4, <1>s, <2>1, <2>3, <2>4, ChannelServed
<1>7. CASE LoadTelegram(d)
  <2>1. old.pc = "telegram" /\ UNCHANGED <<noteRequest, preference, telegram, mails, unthrottled>>
    BY <1>7 DEF LoadTelegram, DispatchAt
  <2>2. PICK status \in DeliveryStatuses \ {"sent"}, pc \in {"telegramSend", "push"} :
          /\ Deliver(d, "telegram", status) /\ dispatch' = [dispatch EXCEPT ![d].link = telegram, ![d].pc = pc]
          /\ (status = "pending" => pc = "telegramSend") /\ (pc = "telegramSend" => telegram = "active")
    BY <1>7, <1>s DEF LoadTelegram
  <2> DEFINE job == [old EXCEPT !.link = telegram, !.pc = pc]
  <2>3. /\ job \in DispatchStates /\ job # DispatchIdle /\ job.pc = pc /\ job.request = old.request /\ job.at = old.at
        /\ job.link = telegram
    <3>1. old \in DispatchStates \ {DispatchIdle} /\ telegram \in TelegramStatuses
      BY <1>2 DEF NotesTypes
    <3>2. /\ job \in DispatchStates /\ job.pc = pc /\ job.request = old.request /\ job.at = old.at
          /\ job.link = telegram
      BY <3>1 DEF DispatchStates
    <3> QED BY <3>2 DEF DispatchIdle
  <2>4. dispatch' = [dispatch EXCEPT ![d] = job] /\ telegram' \in TelegramStatuses
    BY <1>2, <2>1, <2>2 DEF NotesTypes
  <2> HIDE DEF job
  <2> QED BY <1>1, <1>4, <2>1, <2>2, <2>3, <2>4, ChannelServed
<1>8. CASE SendTelegram(d)
  <2>1. /\ old.pc = "telegramSend" /\ UNCHANGED <<noteRequest, preference, mails, unthrottled>>
        /\ telegram' \in {"active", "invalid", old.link}
        /\ Deliver(d, "telegram", "settled") /\ DispatchGo(d, "push")
    BY <1>8 DEF SendTelegram, DispatchAt
  <2>3. PICK job \in DispatchStates :
          /\ job = [old EXCEPT !.pc = "push"] /\ job # DispatchIdle /\ job.pc = "push" /\ job.request = old.request /\ job.at = old.at
    BY <1>3 DEF DispatchPcs
  <2>4. dispatch' = [dispatch EXCEPT ![d] = job] /\ telegram' \in TelegramStatuses
    BY <1>2, <2>1, <2>3, JobIsTyped DEF DispatchGo, TelegramStatuses
  <2> QED BY <1>1, <1>4, <1>s, <2>1, <2>3, <2>4, ChannelServed
<1>9. CASE LoadPush(d)
  <2>1. old.pc = "push" /\ UNCHANGED <<preference, telegram, mails, unthrottled>>
    BY <1>9 DEF LoadPush, DispatchAt
  <2>t. telegram' \in TelegramStatuses
    BY <1>2, <2>1 DEF NotesTypes
  <2>2. CASE Deliver(d, "push", "pending") /\ DispatchGo(d, "pushSend") /\ UNCHANGED noteRequest
    <3>3. PICK job \in DispatchStates :
            /\ job = [old EXCEPT !.pc = "pushSend"] /\ job # DispatchIdle /\ job.pc = "pushSend" /\ job.request = old.request /\ job.at = old.at
      BY <1>3 DEF DispatchPcs
    <3>4. dispatch' = [dispatch EXCEPT ![d] = job]
      BY <2>2, <3>3 DEF DispatchGo
    <3> QED BY <1>1, <1>4, <1>s, <2>1, <2>t, <2>2, <3>3, <3>4, ChannelServed
  <2>3. CASE Deliver(d, "push", "settled") /\ Handled(d)
    BY <1>1, <1>2, <1>4, <1>s, <2>1, <2>t, <2>3, ChannelServed DEF Handled
  <2> QED BY <1>9, <2>2, <2>3 DEF LoadPush
<1>10. CASE SendPush(d)
  <2>1. old.pc = "pushSend" /\ UNCHANGED <<preference, telegram, mails, unthrottled>> /\ Deliver(d, "push", "settled") /\ Handled(d)
    BY <1>10 DEF SendPush, DispatchAt
  <2>t. telegram' \in TelegramStatuses
    BY <1>2, <2>1 DEF NotesTypes
  <2> QED BY <1>1, <1>2, <1>4, <1>s, <2>1, <2>t, ChannelServed DEF Handled
<1> QED BY <1>5, <1>6, <1>7, <1>8, <1>9, <1>10

\* The answer of the mail server.
LEMMA EmailSent ==
  ASSUME NotesInv, NEW d \in Dispatches, SendEmail(d)
  PROVE  NotesInv'
<1> DEFINE old == dispatch[d]
<1>1. old.pc = "emailSend" /\ UNCHANGED <<noteRequest, note, preference, telegram, unthrottled>>
  BY DEF SendEmail, DispatchAt
<1>2. PICK pc \in {"emailSent", "emailFailed"} :
        /\ DispatchGo(d, pc) /\ (pc = "emailSent" => mails' = mails + 1) /\ (pc = "emailFailed" => mails' = mails)
  BY DEF SendEmail
<1>3. /\ NotesTypes /\ old # DispatchIdle /\ old.at \in DOMAIN note /\ PendingAt(note[old.at].delivery, old.pc)
      /\ note[old.at].delivery["email"] # "sent"
  BY <1>1, AtStep
<1>4. PICK at \in DOMAIN note : at = old.at
  BY <1>3
<1>5. PICK row \in Note : row = note[at]
  BY <1>3 DEF NotesTypes
<1> DEFINE job == [old EXCEPT !.pc = pc]
<1>6. job \in DispatchStates /\ job # DispatchIdle /\ job.pc = pc /\ job.request = old.request /\ job.at = old.at
  BY <1>3, JobGoesOn DEF DispatchPcs
<1>7. dispatch' = [dispatch EXCEPT ![d] = job]
  BY <1>2 DEF DispatchGo
<1> HIDE DEF job
<1>8. note' = [note EXCEPT ![at] = row]
  BY <1>1, <1>3, <1>5 DEF NotesTypes
<1>9. /\ PendingAt(row.delivery, job.pc) /\ (job.pc = "telegramSend" => job.link = "active")
      /\ job.pc \in {"email", "emailSend", "emailSent", "emailFailed"} => row.delivery["email"] # "sent"
  BY <1>1, <1>2, <1>3, <1>4, <1>5, <1>6 DEF PendingAt, DeliveryChannels
<1>10. job.request = old.request /\ job.at = at /\ row.request = note[at].request /\ noteRequest' = noteRequest
  BY <1>1, <1>4, <1>5, <1>6
<1>11. /\ note' \in Seq(Note) /\ DOMAIN note' = DOMAIN note /\ note'[at] = row /\ at \in DOMAIN note
       /\ \A n \in DOMAIN note : n # at => note'[n] = note[n]
       /\ dispatch' \in [Dispatches -> DispatchStates] /\ dispatch'[d] = job
       /\ \A e \in Dispatches : e # d => dispatch'[e] = dispatch[e]
       /\ noteRequest' \in [NoteRequests -> {"new", "running", "done", "failed"}]
       /\ OneHandlerEach' /\ HandledIsDecided' /\ \A e \in Dispatches : DispatchIsRight(e)'
  BY <1>3, <1>4, <1>6, <1>7, <1>8, <1>9, <1>10, RowIsDelivered
<1>m. mails' \in Nat
  <2>1. mails \in Nat /\ (mails' = mails + 1 \/ mails' = mails)
    BY <1>2, <1>3 DEF NotesTypes
  <2> QED BY <2>1
<1>12. NotesTypes'
  BY <1>1, <1>3, <1>11, <1>m DEF NotesTypes
<1>13. ThrottleHolds'
  <2> SUFFICES ASSUME ~unthrottled, CriticalRequests = {}
               PROVE  /\ \A a, b \in Dispatches : Mailing(a)' /\ Mailing(b)' => a = b
                      /\ mails' \in {0, 1}
                      /\ mails' = 1 => (\E n \in DOMAIN note' : SentRecently(n)') \/ \E a \in Dispatches : dispatch'[a].pc = "emailSent"
                      /\ \A a \in Dispatches : dispatch'[a].pc = "emailSend" => mails' = 0
    BY <1>1 DEF ThrottleHolds
  <2>1. /\ \A a, b \in Dispatches : Mailing(a) /\ Mailing(b) => a = b
        /\ mails = 0 /\ Mailing(d)
    BY <1>1 DEF NotesInv, ThrottleHolds, Mailing
  <2>2. \A a \in Dispatches : Mailing(a)' => Mailing(a)
    BY <1>1, <1>2, <1>6, <1>11 DEF Mailing
  <2>3. \A a \in Dispatches : dispatch'[a].pc # "emailSend"
    BY <1>2, <1>6, <1>11, <2>1 DEF Mailing
  <2>4. (pc = "emailSent" => mails' = 1) /\ (pc = "emailFailed" => mails' = 0)
    BY <1>2, <2>1
  <2> QED BY <1>2, <1>6, <1>11, <2>1, <2>2, <2>3, <2>4
<1> QED BY <1>11, <1>12, <1>13 DEF NotesInv

\* A handler stops.
LEMMA DispatchAborted ==
  ASSUME NotesInv, NEW d \in Dispatches, AbortDispatch(d)
  PROVE  NotesInv'
<1>1. NotesTypes /\ OneHandlerEach /\ HandledIsDecided /\ \A e \in Dispatches : DispatchIsRight(e)
  BY DEF NotesInv
<1>2. /\ dispatch[d] # DispatchIdle /\ noteRequest' = [noteRequest EXCEPT ![dispatch[d].request] = "failed"]
      /\ unthrottled' = (unthrottled \/ Mailing(d)) /\ dispatch' = [dispatch EXCEPT ![d] = DispatchIdle]
      /\ UNCHANGED <<note, preference, telegram, mails>>
  BY DEF AbortDispatch
<1>3. DispatchIdle \in DispatchStates /\ DispatchIdle.pc = "idle"
  BY DEF DispatchStates, DispatchIdle
<1>4. /\ dispatch' \in [Dispatches -> DispatchStates] /\ dispatch'[d] = DispatchIdle
      /\ \A e \in Dispatches : e # d => dispatch'[e] = dispatch[e]
  BY <1>1, <1>2, <1>3, OneDispatchMoves
<1>5. /\ noteRequest' \in [NoteRequests -> {"new", "running", "done", "failed"}]
      /\ noteRequest'[dispatch[d].request] = "failed"
      /\ \A q \in NoteRequests : q # dispatch[d].request => noteRequest'[q] = noteRequest[q]
  BY <1>1, <1>2, JobIsTyped DEF NotesTypes
<1>6. NotesTypes'
  BY <1>1, <1>2, <1>4, <1>5 DEF NotesTypes
<1>7. OneHandlerEach'
  BY <1>1, <1>4 DEF OneHandlerEach
<1>8. ASSUME NEW e \in Dispatches PROVE DispatchIsRight(e)'
  <2>1. CASE dispatch'[e] = DispatchIdle
    BY <2>1 DEF DispatchIsRight
  <2>2. CASE dispatch'[e] # DispatchIdle
    <3>1. e # d /\ dispatch'[e] = dispatch[e] /\ dispatch[e].request # dispatch[d].request /\ dispatch[e].request \in NoteRequests
      BY <1>1, <1>2, <1>4, <2>2, JobIsTyped DEF OneHandlerEach
    <3>2. noteRequest'[dispatch[e].request] = noteRequest[dispatch[e].request]
      BY <1>5, <3>1
    <3> QED BY <1>1, <1>2, <3>1, <3>2 DEF DispatchIsRight
  <2> QED BY <2>1, <2>2
<1>9. HandledIsDecided'
  <2>1. \A n \in DOMAIN note : note[n] \in Note
    BY <1>1 DEF NotesTypes
  <2>2. \A n \in DOMAIN note : note[n].request \in NoteRequests
    BY <2>1 DEF Note
  <2>3. \A n \in DOMAIN note : noteRequest'[note[n].request] = "done" => noteRequest[note[n].request] = "done"
    BY <1>5, <2>2
  <2> QED BY <1>1, <1>2, <2>3 DEF HandledIsDecided
<1>10. ThrottleHolds'
  <2> SUFFICES ASSUME ~unthrottled, ~Mailing(d), CriticalRequests = {}
               PROVE  /\ \A a, b \in Dispatches : Mailing(a)' /\ Mailing(b)' => a = b
                      /\ mails \in {0, 1}
                      /\ mails = 1 => (\E n \in DOMAIN note : SentRecently(n)) \/ \E a \in Dispatches : dispatch'[a].pc = "emailSent"
                      /\ \A a \in Dispatches : dispatch'[a].pc = "emailSend" => mails = 0
    BY <1>2 DEF ThrottleHolds, SentRecently
  <2>1. \A a \in Dispatches : (Mailing(a)' <=> Mailing(a)) /\ \A pc \in {"emailSend", "emailSent"} : dispatch'[a].pc = pc <=> dispatch[a].pc = pc
    BY <1>3, <1>4 DEF Mailing
  <2> QED BY <2>1 DEF NotesInv, ThrottleHolds
<1> QED BY <1>6, <1>7, <1>8, <1>9, <1>10 DEF NotesInv

\* Reading, and the time that passes.
LEMMA NotesLookedAt ==
  ASSUME NotesInv, (\E ns \in {{1}, DOMAIN note} : MarkNotesRead(ns)) \/ ThrottlePasses
  PROVE  NotesInv'
<1>1. NotesTypes /\ \A n \in DOMAIN note : note[n] \in Note
  BY DEF NotesInv, NotesTypes
<1>2. UNCHANGED <<noteRequest, preference, telegram, dispatch>>
  BY DEF MarkNotesRead, ThrottlePasses
<1>3. ASSUME NEW f, note' = [n \in DOMAIN note |-> f[n]],
             \A n \in DOMAIN note : f[n] \in Note /\ f[n].request = note[n].request /\ f[n].delivery = note[n].delivery
      PROVE  note' \in Seq(Note) /\ OneHandlerEach' /\ HandledIsDecided' /\ \A d \in Dispatches : DispatchIsRight(d)'
  <2>1. DOMAIN note' = DOMAIN note /\ \A n \in DOMAIN note : note'[n] = f[n]
    BY <1>3
  <2>2. DOMAIN note = 1..Len(note) /\ Len(note) \in Nat
    BY <1>1 DEF NotesTypes
  <2>3. note' \in Seq(Note)
    <3>1. note' = [n \in 1..Len(note) |-> f[n]] /\ \A n \in 1..Len(note) : f[n] \in Note
      BY <1>3, <2>2
    <3> QED BY <2>2, <3>1
  <2> QED BY <1>2, <1>3, <2>1, <2>3, HandlersStand
<1>4. ASSUME NEW ns, MarkNotesRead(ns) PROVE NotesInv'
  <2> DEFINE f == [n \in DOMAIN note |-> [note[n] EXCEPT !.isRead = @ \/ n \in ns]]
  <2>1. note' = f /\ UNCHANGED <<mails, unthrottled>>
    BY <1>4 DEF MarkNotesRead
  <2>2. ASSUME NEW n \in DOMAIN note
        PROVE  f[n] \in Note /\ f[n].request = note[n].request /\ f[n].delivery = note[n].delivery /\ f[n].recent = note[n].recent
    <3> DEFINE read == note[n].isRead \/ n \in ns
    <3>1. read \in BOOLEAN /\ f[n] = [note[n] EXCEPT !.isRead = read]
      BY <1>1, <2>2 DEF Note
    <3> HIDE DEF f, read
    <3> QED BY <1>1, <3>1 DEF Note
  <2> HIDE DEF f
  <2>f. DOMAIN note' = DOMAIN note
    BY <2>1 DEF f
  <2>3. note' = [n \in DOMAIN note |-> f[n]]
    BY <2>1 DEF f
  <2>4. note' \in Seq(Note) /\ OneHandlerEach' /\ HandledIsDecided' /\ \A d \in Dispatches : DispatchIsRight(d)'
    BY <1>3, <2>2, <2>3
  <2>5. NotesTypes'
    BY <1>1, <1>2, <2>1, <2>4 DEF NotesTypes
  <2>6. \A n \in DOMAIN note : SentRecently(n) => SentRecently(n)'
    BY <2>1, <2>2 DEF SentRecently
  <2>7. \A e \in Dispatches : \A pc \in {"emailSend", "emailSent"} : dispatch'[e].pc = pc <=> dispatch[e].pc = pc
    BY <1>2
  <2>8. ThrottleHolds'
    BY <2>1, <2>6, <2>7, <2>f, ThrottleKept
  <2> QED BY <2>4, <2>5, <2>8 DEF NotesInv
<1>5. CASE ThrottlePasses
  <2> DEFINE f == [n \in DOMAIN note |-> [note[n] EXCEPT !.recent = FALSE]]
  <2>1. note' = f /\ mails' = 0 /\ \A d \in Dispatches : ~Mailing(d)
    BY <1>5 DEF ThrottlePasses
  <2>2. \A n \in DOMAIN note : f[n] \in Note /\ f[n].request = note[n].request /\ f[n].delivery = note[n].delivery
    BY <1>1 DEF Note
  <2> HIDE DEF f
  <2>3. note' = [n \in DOMAIN note |-> f[n]]
    BY <2>1 DEF f
  <2>4. note' \in Seq(Note) /\ OneHandlerEach' /\ HandledIsDecided' /\ \A d \in Dispatches : DispatchIsRight(d)'
    BY <1>3, <2>2, <2>3
  <2>m. mails' \in Nat /\ mails' \in {0, 1} /\ ~(mails' = 1)
    BY <2>1
  <2>5. NotesTypes'
    BY <1>1, <1>2, <2>4, <2>m DEF NotesTypes
  <2>6. \A d \in Dispatches : ~Mailing(d)' /\ dispatch'[d].pc # "emailSend"
    BY <1>2, <2>1 DEF Mailing
  <2>7. ThrottleHolds'
    BY <2>1, <2>6, <2>m DEF ThrottleHolds
  <2> QED BY <2>4, <2>5, <2>7 DEF NotesInv
<1> QED BY <1>4, <1>5

\* What the user sets up.
LEMMA NotesSettings ==
  ASSUME NotesInv, UNCHANGED <<noteRequest, note, dispatch, mails, unthrottled>>,
         preference' \in NotificationPreference, telegram' \in TelegramStatuses
  PROVE  NotesInv'
<1>1. NotesTypes'
  BY DEF NotesInv, NotesTypes
<1>2. OneHandlerEach' /\ HandledIsDecided' /\ \A d \in Dispatches : DispatchIsRight(d)'
  BY HandlersStand
<1>3. ThrottleHolds'
  BY DEF NotesInv, ThrottleHolds, SentRecently, Mailing
<1> QED BY <1>1, <1>2, <1>3 DEF NotesInv

\* Every step of the specification keeps the inductive invariant.
LEMMA NotesNextInv == NotesInv /\ [NotificationsNext]_noteVars => NotesInv'
<1> SUFFICES ASSUME NotesInv, [NotificationsNext]_noteVars PROVE NotesInv'
  OBVIOUS
<1>t. NotesTypes
  BY DEF NotesInv
<1>1. ASSUME NEW d \in Dispatches, DispatchStep(d) PROVE NotesInv'
  BY <1>1, EmailServed, OthersServed, EmailSent DEF DispatchStep
<1>2. ASSUME NEW d \in Dispatches, AbortDispatch(d) \/ \E r \in NoteRequests : OnNotificationRequested(d, r) PROVE NotesInv'
  BY <1>2, DispatchAborted, RequestTaken
<1>3. ASSUME MarkNotesRead({1}) \/ MarkNotesRead(DOMAIN note) \/ ThrottlePasses PROVE NotesInv'
  BY <1>3, NotesLookedAt
<1>4. CASE GenerateTelegramLinkToken \/ DropLinkToken \/ SetPushSubscription("none") \/ SetPushSubscription("active") \/ UNCHANGED noteVars
  <2>1. UNCHANGED <<noteRequest, note, dispatch, mails, unthrottled, preference, telegram>>
    BY <1>4 DEF GenerateTelegramLinkToken, DropLinkToken, SetPushSubscription, noteVars
  <2> QED BY <1>t, <2>1, NotesSettings DEF NotesTypes
<1>5. CASE LinkTelegram \/ UnlinkTelegram
  <2>1. UNCHANGED <<noteRequest, note, dispatch, mails, unthrottled, preference>> /\ telegram' \in {"active", "revoked"}
    BY <1>5 DEF LinkTelegram, UnlinkTelegram, RegisterTelegramSubscription
  <2>2. telegram' \in TelegramStatuses
    BY <2>1 DEF TelegramStatuses
  <2> QED BY <1>t, <2>1, <2>2, NotesSettings DEF NotesTypes
<1>6. ASSUME NEW ch \in {"email", "sms", "telegram", "push"}, UpdatePreference(ch) PROVE NotesInv'
  <2>1. UNCHANGED <<noteRequest, note, dispatch, mails, unthrottled, telegram>> /\ preference' = [preference EXCEPT ![ch] = ~preference[ch]]
    BY <1>6 DEF UpdatePreference
  <2>2. preference \in NotificationPreference
    BY <1>t DEF NotesTypes
  <2>3. preference' \in NotificationPreference
    BY <2>1, <2>2 DEF NotificationPreference
  <2> QED BY <1>t, <2>1, <2>3, NotesSettings DEF NotesTypes
<1> QED BY <1>1, <1>2, <1>3, <1>4, <1>5, <1>6 DEF NotificationsNext

\* RevokedStaysRevoked for one step.
LEMMA NoteStepsKeepRevoked ==
  NotesInv /\ [NotificationsNext]_noteVars =>
    (telegram = "revoked" /\ telegram' # "revoked" => (linkToken /\ UNCHANGED dispatch) \/ overtakenLink')
<1> SUFFICES ASSUME NotesInv, [NotificationsNext]_noteVars, telegram = "revoked", telegram' # telegram
             PROVE  (linkToken /\ UNCHANGED dispatch) \/ overtakenLink'
  OBVIOUS
<1>1. \/ \E d \in Dispatches : SendTelegram(d)
      \/ LinkTelegram
      \/ UnlinkTelegram
  <2>1. ASSUME NEW d \in Dispatches, DispatchStep(d), ~SendTelegram(d) PROVE telegram' = telegram
    BY <2>1 DEF DispatchStep, CheckEmail, SendEmail, LoadSms, SendSms, LoadTelegram, LoadPush, SendPush, UpdateDelivery
  <2>2. ASSUME NEW d \in Dispatches, AbortDispatch(d) \/ \E r \in NoteRequests : OnNotificationRequested(d, r) PROVE telegram' = telegram
    BY <2>2 DEF AbortDispatch, OnNotificationRequested
  <2>3. ASSUME \/ MarkNotesRead({1}) \/ MarkNotesRead(DOMAIN note) \/ ThrottlePasses
               \/ GenerateTelegramLinkToken \/ DropLinkToken \/ SetPushSubscription("none") \/ SetPushSubscription("active")
               \/ (\E ch \in {"email", "sms", "telegram", "push"} : UpdatePreference(ch)) \/ UNCHANGED noteVars
        PROVE  telegram' = telegram
    BY <2>3 DEF MarkNotesRead, ThrottlePasses, GenerateTelegramLinkToken, DropLinkToken, SetPushSubscription, UpdatePreference, noteVars
  <2> QED BY <2>1, <2>2, <2>3 DEF NotificationsNext
<1>2. ASSUME NEW d \in Dispatches, SendTelegram(d) PROVE overtakenLink'
  <2>1. dispatch[d].pc = "telegramSend" /\ overtakenLink' = (overtakenLink \/ telegram # dispatch[d].link)
    BY <1>2 DEF SendTelegram, DispatchAt
  <2>2. dispatch[d].link = "active"
    BY <2>1 DEF NotesInv, DispatchIsRight, DispatchIdle
  <2> QED BY <2>1, <2>2
<1>3. LinkTelegram => linkToken /\ UNCHANGED dispatch
  BY DEF LinkTelegram
<1>4. ~UnlinkTelegram
  BY DEF UnlinkTelegram
<1> QED BY <1>1, <1>2, <1>3, <1>4

-----------------------------------------------------------------------------
\* Calls.
\* The types the proof needs.
CallTypes ==
  /\ participant \in [CallUsers -> CallParticipant]
  /\ callOp \in [CallOps -> CallOpBusy \cup {CallOpIdle}]
  /\ crowded \in BOOLEAN

\* A call in progress that only saves does not join anybody.
SavesJoinNobody ==
  \A c \in CallOps :
    /\ callOp[c].pc = "join" => callOp[c].row.status = "joined"
    /\ callOp[c].pc = "save" => callOp[c].row.status \in {"left", callOp[c].copy.status}

\* A place is kept for the one join that is under way.
PlaceIsKept ==
  ~crowded =>
    /\ \A c, d \in CallOps : callOp[c].pc = "join" /\ callOp[d].pc = "join" => c = d
    /\ \A c \in CallOps : callOp[c].pc = "join" => Cardinality(Joined \cup {callOp[c].user}) <= MaxParticipants

\* The inductive invariant.
CallsInv ==
  /\ CallTypes /\ SavesJoinNobody /\ PlaceIsKept
  /\ IsFiniteSet(Joined) /\ CallHasPlace

\* It holds at the start.
LEMMA CallsInitInv == CallSessionsInit => CallsInv
<1> SUFFICES ASSUME CallSessionsInit PROVE CallsInv
  OBVIOUS
<1>1. CallTypes
  BY DEF CallSessionsInit, CallTypes, CallParticipant
<1>2. \A c \in CallOps : callOp[c].pc = "idle"
  BY DEF CallSessionsInit, CallOpIdle
<1>3. Joined = {Initiator}
  BY CallSessionsAssumption DEF CallSessionsInit, Joined
<1>4. IsFiniteSet(Joined) /\ Cardinality(Joined) = 1
  BY <1>3, FS_Singleton
<1>5. CallHasPlace
  BY <1>4, CallSessionsAssumption DEF CallHasPlace
<1> QED BY <1>1, <1>2, <1>4, <1>5 DEF CallsInv, SavesJoinNobody, PlaceIsKept

\* A smaller set of joined participants has room as well.
LEMMA FewerJoined ==
  ASSUME NEW S, IsFiniteSet(S), NEW T \in SUBSET S
  PROVE  IsFiniteSet(T) /\ Cardinality(T) <= Cardinality(S) /\ Cardinality(T) \in Nat /\ Cardinality(S) \in Nat
BY FS_Subset, FS_CardinalityType

\* One service call goes on.
LEMMA OneCallOpMoves ==
  ASSUME CallTypes, NEW c \in CallOps, NEW op \in CallOpBusy \cup {CallOpIdle}, callOp' = [callOp EXCEPT ![c] = op]
  PROVE  /\ callOp' \in [CallOps -> CallOpBusy \cup {CallOpIdle}] /\ callOp'[c] = op
         /\ \A d \in CallOps : d # c => callOp'[d] = callOp[d]
BY DEF CallTypes

\* A service call has loaded the row.
LEMMA CallOpStarts ==
  ASSUME CallsInv, NEW c \in CallOps, NEW u \in CallUsers, NEW pc \in {"join", "save"}, NEW row \in CallParticipant,
         CallOpStart(c, pc, u, row),
         pc = "join" => row.status = "joined" /\ Cardinality(Joined) < MaxParticipants,
         pc = "save" => row.status \in {"left", participant[u].status},
         crowded' = (crowded \/ (pc = "join" /\ \E d \in CallOps : callOp[d].pc = "join"))
  PROVE  CallsInv'
<1> DEFINE op == [pc |-> pc, user |-> u, copy |-> participant[u], row |-> row]
<1>t. CallTypes /\ SavesJoinNobody /\ PlaceIsKept /\ IsFiniteSet(Joined) /\ CallHasPlace
  BY DEF CallsInv
<1>1. callOp[c] = CallOpIdle /\ callOp' = [callOp EXCEPT ![c] = op] /\ UNCHANGED <<callStatus, participant, outdatedRows>>
  BY DEF CallOpStart
<1>2. op \in CallOpBusy /\ op.pc = pc /\ op.user = u /\ op.copy = participant[u] /\ op.row = row
  BY <1>t DEF CallTypes, CallOpBusy
<1> HIDE DEF op
<1>3. /\ callOp' \in [CallOps -> CallOpBusy \cup {CallOpIdle}] /\ callOp'[c] = op
      /\ \A d \in CallOps : d # c => callOp'[d] = callOp[d]
  BY <1>t, <1>1, <1>2, OneCallOpMoves
<1>4. CallTypes'
  BY <1>t, <1>1, <1>3 DEF CallTypes
<1>5. SavesJoinNobody'
  BY <1>t, <1>2, <1>3 DEF SavesJoinNobody
<1>6. Joined' = Joined
  BY <1>1 DEF Joined
<1>7. IsFiniteSet(Joined') /\ CallHasPlace'
  BY <1>t, <1>6 DEF CallHasPlace
<1>8. PlaceIsKept'
  <2> SUFFICES ASSUME ~crowded'
               PROVE  /\ \A a, b \in CallOps : callOp'[a].pc = "join" /\ callOp'[b].pc = "join" => a = b
                      /\ \A a \in CallOps : callOp'[a].pc = "join" => Cardinality(Joined \cup {callOp'[a].user}) <= MaxParticipants
    BY <1>6 DEF PlaceIsKept
  <2>1. /\ \A a, b \in CallOps : callOp[a].pc = "join" /\ callOp[b].pc = "join" => a = b
        /\ \A a \in CallOps : callOp[a].pc = "join" => Cardinality(Joined \cup {callOp[a].user}) <= MaxParticipants
        /\ pc = "join" => \A d \in CallOps : callOp[d].pc # "join"
    BY <1>t DEF PlaceIsKept
  <2>2. pc = "join" => Cardinality(Joined \cup {u}) <= MaxParticipants
    <3>1. Cardinality(Joined \cup {u}) \in {Cardinality(Joined), Cardinality(Joined) + 1} /\ Cardinality(Joined) \in Nat
      BY <1>t, FS_AddElement, FS_CardinalityType
    <3> QED BY <3>1, CallSessionsAssumption
  <2> QED BY <1>2, <1>3, <2>1, <2>2
<1> QED BY <1>4, <1>5, <1>7, <1>8 DEF CallsInv

\* A row is saved.
LEMMA ParticipantSaved ==
  ASSUME CallsInv, NEW c \in CallOps, SaveParticipant(c)
  PROVE  CallsInv'
<1> DEFINE op == callOp[c]
<1>t. CallTypes /\ SavesJoinNobody /\ PlaceIsKept /\ IsFiniteSet(Joined) /\ CallHasPlace
  BY DEF CallsInv
<1>1. /\ op # CallOpIdle /\ participant' = [participant EXCEPT ![op.user] = op.row]
      /\ crowded' = (crowded \/ (op.pc = "save" /\ op.row.status = "joined" /\ participant[op.user] # op.copy))
      /\ callOp' = [callOp EXCEPT ![c] = CallOpIdle]
  BY DEF SaveParticipant
<1>2. op \in CallOpBusy
  BY <1>t, <1>1 DEF CallTypes
<1>3. PICK u \in CallUsers : u = op.user
  BY <1>2 DEF CallOpBusy
<1>4. op.row \in CallParticipant /\ op.pc \in {"join", "save"}
  BY <1>2 DEF CallOpBusy
<1>5. /\ participant' \in [CallUsers -> CallParticipant] /\ participant'[u] = op.row
      /\ \A v \in CallUsers : v # u => participant'[v] = participant[v]
  BY <1>t, <1>1, <1>3, <1>4 DEF CallTypes
<1>6. /\ callOp' \in [CallOps -> CallOpBusy \cup {CallOpIdle}] /\ callOp'[c] = CallOpIdle
      /\ \A d \in CallOps : d # c => callOp'[d] = callOp[d]
  BY <1>t, <1>1, OneCallOpMoves
<1>i. CallOpIdle.pc = "idle"
  BY DEF CallOpIdle
<1>7. CallTypes'
  BY <1>t, <1>1, <1>5, <1>6 DEF CallTypes
<1>8. SavesJoinNobody'
  BY <1>t, <1>6, <1>i DEF SavesJoinNobody
<1>9. Joined' \subseteq Joined \cup {u}
  BY <1>5 DEF Joined
<1>10. ~crowded' /\ op.pc = "save" => Joined' \subseteq Joined
  <2> SUFFICES ASSUME ~crowded', op.pc = "save" PROVE Joined' \subseteq Joined
    OBVIOUS
  <2>1. op.row.status = "joined" => participant[u] = op.copy
    BY <1>1, <1>3
  <2>2. op.row.status \in {"left", op.copy.status}
    BY <1>t DEF SavesJoinNobody
  <2>3. op.row.status = "joined" => participant[u].status = "joined"
    BY <2>1, <2>2
  <2> QED BY <1>5, <2>3 DEF Joined
<1>11. IsFiniteSet(Joined \cup {u}) /\ IsFiniteSet(Joined')
  <2>1. IsFiniteSet(Joined \cup {u})
    BY <1>t, FS_AddElement
  <2> QED BY <1>9, <2>1, FS_Subset
<1>12. CallHasPlace'
  <2> SUFFICES ASSUME ~crowded' PROVE Cardinality(Joined') <= MaxParticipants
    BY DEF CallHasPlace
  <2>0. ~crowded
    BY <1>1
  <2>1. CASE op.pc = "join"
    <3>1. Cardinality(Joined \cup {u}) <= MaxParticipants
      BY <1>t, <1>3, <2>0, <2>1 DEF PlaceIsKept
    <3> QED BY <1>9, <1>11, <3>1, FewerJoined, CallSessionsAssumption
  <2>2. CASE op.pc = "save"
    <3>1. Cardinality(Joined) <= MaxParticipants
      BY <1>t, <2>0 DEF CallHasPlace
    <3>2. Joined' \subseteq Joined
      BY <1>10, <2>2
    <3> QED BY <1>t, <3>1, <3>2, FewerJoined, CallSessionsAssumption
  <2> QED BY <1>4, <2>1, <2>2
<1>13. PlaceIsKept'
  <2> SUFFICES ASSUME ~crowded'
               PROVE  /\ \A a, b \in CallOps : callOp'[a].pc = "join" /\ callOp'[b].pc = "join" => a = b
                      /\ \A a \in CallOps : callOp'[a].pc = "join" => Cardinality(Joined' \cup {callOp'[a].user}) <= MaxParticipants
    BY DEF PlaceIsKept
  <2>1. /\ \A a, b \in CallOps : callOp[a].pc = "join" /\ callOp[b].pc = "join" => a = b
        /\ \A a \in CallOps : callOp[a].pc = "join" => Cardinality(Joined \cup {callOp[a].user}) <= MaxParticipants
    BY <1>t, <1>1 DEF PlaceIsKept
  <2>2. ASSUME NEW a \in CallOps, callOp'[a].pc = "join" PROVE Cardinality(Joined' \cup {callOp'[a].user}) <= MaxParticipants
    <3>1. a # c /\ callOp'[a] = callOp[a] /\ callOp[a].pc = "join"
      BY <1>6, <1>i, <2>2
    <3>2. op.pc = "save"
      BY <1>4, <2>1, <3>1
    <3>3. Joined' \cup {callOp[a].user} \subseteq Joined \cup {callOp[a].user}
      BY <1>10, <3>2
    <3>4. IsFiniteSet(Joined \cup {callOp[a].user}) /\ Cardinality(Joined \cup {callOp[a].user}) <= MaxParticipants
      BY <1>t, <2>1, <3>1, FS_AddElement
    <3> QED BY <3>1, <3>3, <3>4, FewerJoined, CallSessionsAssumption
  <2>3. \A a \in CallOps : callOp'[a].pc = "join" => callOp[a].pc = "join"
    BY <1>6, <1>i
  <2> QED BY <2>1, <2>2, <2>3
<1> QED BY <1>7, <1>8, <1>11, <1>12, <1>13 DEF CallsInv

\* Every step of the specification keeps the inductive invariant.
LEMMA CallsNextInv == CallsInv /\ [CallSessionsNext]_callVars => CallsInv'
<1> SUFFICES ASSUME CallsInv, [CallSessionsNext]_callVars PROVE CallsInv'
  OBVIOUS
<1>t. CallTypes /\ SavesJoinNobody /\ PlaceIsKept /\ IsFiniteSet(Joined) /\ CallHasPlace
  BY DEF CallsInv
<1>k. \A u \in CallUsers : participant[u] \in CallParticipant
  BY <1>t DEF CallTypes
<1>1. ASSUME NEW c \in CallOps, NEW u \in CallUsers, JoinCall(c, u) PROVE CallsInv'
  <2> DEFINE row == [participant[u] EXCEPT !.status = "joined"]
  <2>1. row \in CallParticipant /\ row.status = "joined"
    BY <1>k DEF CallParticipant
  <2>2. /\ CallOpStart(c, "join", u, row) /\ Cardinality(Joined) < MaxParticipants
        /\ crowded' = (crowded \/ \E d \in CallOps : callOp[d].pc = "join")
    BY <1>1 DEF JoinCall
  <2> HIDE DEF row
  <2> QED BY <2>1, <2>2, CallOpStarts
<1>2. ASSUME NEW c \in CallOps, NEW u \in CallUsers, NEW actor \in CallUsers, LeaveCall(c, u, actor) PROVE CallsInv'
  <2> DEFINE row == [participant[u] EXCEPT !.status = "left"]
  <2>1. row \in CallParticipant /\ row.status = "left"
    BY <1>k DEF CallParticipant
  <2>2. CallOpStart(c, "save", u, row) /\ crowded' = crowded
    BY <1>2 DEF LeaveCall
  <2> HIDE DEF row
  <2>3. crowded' = (crowded \/ ("save" = "join" /\ \E d \in CallOps : callOp[d].pc = "join"))
    BY <1>t, <2>2 DEF CallTypes
  <2> QED BY <2>1, <2>2, <2>3, CallOpStarts
<1>3. ASSUME NEW c \in CallOps, NEW u \in CallUsers, NEW actor \in CallUsers, ModerateParticipant(c, u, actor) PROVE CallsInv'
  <2> DEFINE row == [participant[u] EXCEPT !.audioMuted = ~participant[u].audioMuted]
  <2>1. row \in CallParticipant /\ row.status = participant[u].status
    BY <1>k DEF CallParticipant
  <2>2. CallOpStart(c, "save", u, row) /\ crowded' = crowded
    BY <1>3 DEF ModerateParticipant
  <2> HIDE DEF row
  <2>3. crowded' = (crowded \/ ("save" = "join" /\ \E d \in CallOps : callOp[d].pc = "join"))
    BY <1>t, <2>2 DEF CallTypes
  <2> QED BY <2>1, <2>2, <2>3, CallOpStarts
<1>4. ASSUME NEW c \in CallOps, SaveParticipant(c) PROVE CallsInv'
  BY <1>4, ParticipantSaved
<1>5. ASSUME NEW c \in CallOps, AbortCallOp(c) PROVE CallsInv'
  <2>1. /\ callOp' = [callOp EXCEPT ![c] = CallOpIdle] /\ UNCHANGED <<participant, crowded>>
    BY <1>5 DEF AbortCallOp
  <2>2. /\ callOp' \in [CallOps -> CallOpBusy \cup {CallOpIdle}] /\ callOp'[c] = CallOpIdle
        /\ \A d \in CallOps : d # c => callOp'[d] = callOp[d]
    BY <1>t, <2>1, OneCallOpMoves
  <2>3. \A d \in CallOps : callOp'[d].pc \in {"join", "save"} => callOp'[d] = callOp[d]
    BY <2>2 DEF CallOpIdle
  <2>4. Joined' = Joined
    BY <2>1 DEF Joined
  <2>5. CallTypes' /\ SavesJoinNobody'
    BY <1>t, <2>1, <2>2, <2>3 DEF CallTypes, SavesJoinNobody
  <2>6. PlaceIsKept'
    BY <1>t, <2>1, <2>3, <2>4 DEF PlaceIsKept
  <2> QED BY <1>t, <2>1, <2>4, <2>5, <2>6 DEF CallsInv, CallHasPlace
<1>6. CASE (\E actor \in CallUsers : EndCall(actor)) \/ UNCHANGED callVars
  <2>1. UNCHANGED <<participant, callOp, crowded>>
    BY <1>6 DEF EndCall, callVars
  <2>2. Joined' = Joined
    BY <2>1 DEF Joined
  <2>3. CallTypes' /\ SavesJoinNobody' /\ PlaceIsKept'
    BY <1>t, <2>1, <2>2 DEF CallTypes, SavesJoinNobody, PlaceIsKept
  <2> QED BY <1>t, <2>1, <2>2, <2>3 DEF CallsInv, CallHasPlace
<1> QED BY <1>1, <1>2, <1>3, <1>4, <1>5, <1>6 DEF CallSessionsNext

\* LeftStaysLeft for one step.
LEMMA CallStepsKeepLeft ==
  CallsInv /\ [CallSessionsNext]_callVars =>
    \A u \in CallUsers : participant[u].status = "left" /\ participant'[u].status = "joined" =>
       u \in outdatedRows' \/ \E c \in CallOps : callOp[c].pc = "join" /\ callOp'[c] = CallOpIdle
<1> SUFFICES ASSUME CallsInv, [CallSessionsNext]_callVars,
                    NEW u \in CallUsers, participant[u].status = "left", participant'[u].status = "joined"
             PROVE  u \in outdatedRows' \/ \E c \in CallOps : callOp[c].pc = "join" /\ callOp'[c] = CallOpIdle
  OBVIOUS
<1>t. CallTypes /\ SavesJoinNobody
  BY DEF CallsInv
<1>1. PICK c \in CallOps : SaveParticipant(c)
  <2>1. ASSUME \A c \in CallOps : ~SaveParticipant(c) PROVE UNCHANGED participant
    <3>1. ASSUME NEW c \in CallOps, NEW v \in CallUsers, JoinCall(c, v) PROVE UNCHANGED participant
      BY <3>1 DEF JoinCall, CallOpStart
    <3>2. ASSUME NEW c \in CallOps, NEW v \in CallUsers, NEW actor \in CallUsers, LeaveCall(c, v, actor) \/ ModerateParticipant(c, v, actor)
          PROVE  UNCHANGED participant
      BY <3>2 DEF LeaveCall, ModerateParticipant, CallOpStart
    <3>3. (\E c \in CallOps : AbortCallOp(c)) \/ (\E actor \in CallUsers : EndCall(actor)) \/ UNCHANGED callVars => UNCHANGED participant
      BY DEF AbortCallOp, EndCall, callVars
    <3> QED BY <2>1, <3>1, <3>2, <3>3 DEF CallSessionsNext
  <2> QED BY <2>1
<1>2. /\ callOp[c] # CallOpIdle /\ participant' = [participant EXCEPT ![callOp[c].user] = callOp[c].row]
      /\ outdatedRows' = IF participant[callOp[c].user] = callOp[c].copy THEN outdatedRows ELSE outdatedRows \cup {callOp[c].user}
      /\ callOp' = [callOp EXCEPT ![c] = CallOpIdle]
  BY <1>1 DEF SaveParticipant
<1>3. callOp'[c] = CallOpIdle
  BY <1>t, <1>2 DEF CallTypes
<1>4. u = callOp[c].user /\ callOp[c].row.status = "joined"
  BY <1>t, <1>2 DEF CallTypes
<1>5. callOp[c].pc \in {"join", "save"}
  BY <1>t, <1>2 DEF CallTypes, CallOpBusy
<1>6. CASE callOp[c].pc = "join"
  BY <1>3, <1>6
<1>7. CASE callOp[c].pc = "save"
  <2>1. callOp[c].copy.status = "joined"
    BY <1>t, <1>4, <1>7 DEF SavesJoinNobody
  <2> QED BY <1>2, <1>4, <2>1
<1> QED BY <1>5, <1>6, <1>7

-----------------------------------------------------------------------------
\* Media sessions.
\* The types the proof needs.
MediaTypes ==
  /\ place \in [Participants -> MediaSockets \cup {NoSocket}]
  /\ signal \in [MediaSockets -> MediaSocket]
  /\ sessionOpen \in BOOLEAN /\ recordingActive \in BOOLEAN /\ orphaned \in BOOLEAN

\* A place belongs to a socket of its participant that has joined, and that socket
\* is open or closed while its join was waiting.
PlaceIsTaken ==
  \A p \in Participants :
    place[p] # NoSocket =>
      /\ place[p] \in MediaSockets /\ ParticipantOf[place[p]] = p
      /\ signal[place[p]].active /\ signal[place[p]].pc = "idle"
      /\ signal[place[p]].open \/ signal[place[p]].late

\* A socket whose join waits is open or closed meanwhile; one that is in the session
\* has no join under way.
WaitingIsOpenOrLate ==
  \A s \in MediaSockets :
    /\ signal[s].pc \in {"router", "redis"} => signal[s].open \/ signal[s].late
    /\ signal[s].active => signal[s].pc = "idle"

\* The inductive invariant.
MediaInv ==
  /\ MediaTypes /\ PlaceIsTaken /\ WaitingIsOpenOrLate
  /\ ConnectedHasPlace /\ EmptySessionIsClosed

\* It implies the properties.
LEMMA MediaInvIsEnough == MediaInv => NoGhosts /\ ConnectedHasPlace /\ EmptySessionIsClosed
BY DEF MediaInv, PlaceIsTaken, NoGhosts, Present

\* It holds at the start.
LEMMA MediaInitInv == MediaSessionsInit => MediaInv
<1> SUFFICES ASSUME MediaSessionsInit PROVE MediaInv
  OBVIOUS
<1>1. MediaTypes
  BY DEF MediaSessionsInit, MediaTypes, MediaSocket, Nobody
<1>2. \A p \in Participants : place[p] = NoSocket
  BY DEF MediaSessionsInit, Nobody
<1>3. \A s \in MediaSockets : signal[s].pc = "new" /\ signal[s].active = FALSE
  BY DEF MediaSessionsInit
<1>4. sessionOpen = FALSE
  BY DEF MediaSessionsInit
<1> QED BY <1>1, <1>2, <1>3, <1>4 DEF MediaInv, PlaceIsTaken, WaitingIsOpenOrLate, ConnectedHasPlace, EmptySessionIsClosed

\* One socket moves.
LEMMA OneSignalMoves ==
  ASSUME MediaTypes, NEW s \in MediaSockets, NEW row \in MediaSocket, signal' = [signal EXCEPT ![s] = row]
  PROVE  /\ signal' \in [MediaSockets -> MediaSocket] /\ signal'[s] = row
         /\ \A t \in MediaSockets : t # s => signal'[t] = signal[t]
BY DEF MediaTypes

\* The participant of a socket is one.
LEMMA SocketHasParticipant ==
  ASSUME NEW s \in MediaSockets
  PROVE  ParticipantOf[s] \in Participants
BY DEF Participants

\* A socket takes its place.
LEMMA PlaceGiven ==
  ASSUME MediaInv, NEW s \in MediaSockets, AddParticipant(s), signal[s].open \/ signal[s].late
  PROVE  MediaInv'
<1> DEFINE row == [signal[s] EXCEPT !.pc = "idle", !.active = TRUE]
<1>t. MediaTypes /\ PlaceIsTaken /\ WaitingIsOpenOrLate /\ ConnectedHasPlace /\ EmptySessionIsClosed
  BY DEF MediaInv
<1>0. PICK p \in Participants : p = ParticipantOf[s]
  BY SocketHasParticipant
<1>1. /\ signal' = [signal EXCEPT ![s] = row]
      /\ place' = IF sessionOpen THEN [place EXCEPT ![p] = s] ELSE place
      /\ excused' = IF ~sessionOpen THEN excused \cup {s}
                    ELSE IF place[p] # NoSocket THEN excused \cup {place[p]} ELSE excused
      /\ UNCHANGED <<sessionOpen, recordingActive, orphaned>>
  BY <1>0 DEF AddParticipant
<1>2. row \in MediaSocket /\ row.pc = "idle" /\ row.active /\ row.open = signal[s].open /\ row.late = signal[s].late
  BY <1>t DEF MediaTypes, MediaSocket
<1> HIDE DEF row
<1>3. /\ signal' \in [MediaSockets -> MediaSocket] /\ signal'[s] = row
      /\ \A t \in MediaSockets : t # s => signal'[t] = signal[t]
  BY <1>t, <1>1, <1>2, OneSignalMoves
<1>4. CASE sessionOpen
  <2>1. /\ place' \in [Participants -> MediaSockets \cup {NoSocket}] /\ place'[p] = s
        /\ \A q \in Participants : q # p => place'[q] = place[q]
    BY <1>t, <1>1, <1>4 DEF MediaTypes
  <2>2. MediaTypes'
    BY <1>t, <1>1, <1>3, <2>1 DEF MediaTypes
  <2>s. s # NoSocket
    BY MediaSessionsAssumption
  <2>3. PlaceIsTaken'
    <3> SUFFICES ASSUME NEW q \in Participants, place'[q] # NoSocket
                 PROVE  /\ place'[q] \in MediaSockets /\ ParticipantOf[place'[q]] = q
                        /\ signal'[place'[q]].active /\ signal'[place'[q]].pc = "idle"
                        /\ signal'[place'[q]].open \/ signal'[place'[q]].late
      BY DEF PlaceIsTaken
    <3>1. CASE q = p
      BY <1>0, <1>2, <1>3, <2>1, <3>1
    <3>2. CASE q # p
      <4>1. /\ place'[q] = place[q] /\ place[q] \in MediaSockets /\ ParticipantOf[place[q]] = q
            /\ signal[place[q]].active /\ signal[place[q]].pc = "idle"
            /\ signal[place[q]].open \/ signal[place[q]].late
        BY <1>t, <2>1, <3>2 DEF PlaceIsTaken
      <4>2. signal'[place[q]] = signal[place[q]]
        BY <1>0, <1>3, <3>2, <4>1
      <4> QED BY <4>1, <4>2
    <3> QED BY <3>1, <3>2
  <2>4. WaitingIsOpenOrLate'
    BY <1>t, <1>2, <1>3 DEF WaitingIsOpenOrLate
  <2>5. ConnectedHasPlace'
    <3> SUFFICES ASSUME NEW t \in MediaSockets, signal'[t].open, signal'[t].active
                 PROVE  place'[ParticipantOf[t]] = t \/ t \in excused'
      BY DEF ConnectedHasPlace
    <3>1. CASE t = s
      BY <1>0, <2>1, <3>1
    <3>2. CASE t # s
      <4>1. place[ParticipantOf[t]] = t \/ t \in excused
        BY <1>t, <1>3, <3>2 DEF ConnectedHasPlace
      <4>2. t # NoSocket
        BY MediaSessionsAssumption
      <4> QED BY <1>1, <1>4, <2>1, <4>1, <4>2, SocketHasParticipant
    <3> QED BY <3>1, <3>2
  <2>6. EmptySessionIsClosed'
    BY <2>1, <2>s DEF EmptySessionIsClosed, Present
  <2> QED BY <2>2, <2>3, <2>4, <2>5, <2>6 DEF MediaInv
<1>5. CASE ~sessionOpen
  <2>1. place' = place /\ excused' = excused \cup {s} /\ ~sessionOpen'
    BY <1>1, <1>5
  <2>2. MediaTypes'
    BY <1>t, <1>1, <1>3, <2>1 DEF MediaTypes
  <2>3. \A t \in MediaSockets : signal[t].open \/ signal[t].late => signal'[t].open \/ signal'[t].late
    BY <1>2, <1>3
  <2>4. \A t \in MediaSockets : signal[t].active /\ signal[t].pc = "idle" => signal'[t].active /\ signal'[t].pc = "idle"
    BY <1>2, <1>3
  <2>5. PlaceIsTaken'
    BY <1>t, <2>1, <2>3, <2>4 DEF PlaceIsTaken
  <2>6. WaitingIsOpenOrLate'
    BY <1>t, <1>2, <1>3 DEF WaitingIsOpenOrLate
  <2>7. ConnectedHasPlace'
    BY <1>t, <1>3, <2>1 DEF ConnectedHasPlace
  <2>8. EmptySessionIsClosed'
    BY <2>1 DEF EmptySessionIsClosed
  <2> QED BY <2>2, <2>5, <2>6, <2>7, <2>8 DEF MediaInv
<1> QED BY <1>4, <1>5

\* A participant loses his place in a step of a socket that stops to be in the
\* session, or of his own that closes.
LEMMA PlaceTaken ==
  ASSUME MediaInv, NEW s \in MediaSockets, NEW p, p = ParticipantOf[s], NEW row \in MediaSocket,
         signal' = [signal EXCEPT ![s] = row], RemoveParticipant(p),
         \A t \in MediaSockets : place[p] = t => t \in excused' \/ t = s,
         excused \subseteq excused', ~row.active \/ ~row.open \/ s \in excused', row.pc \notin {"router", "redis"},
         row.active => row.pc = "idle", signal[s].pc # "redis",
         UNCHANGED <<recordingActive, orphaned>>
  PROVE  MediaInv'
<1>t. MediaTypes /\ PlaceIsTaken /\ WaitingIsOpenOrLate /\ ConnectedHasPlace /\ EmptySessionIsClosed
  BY DEF MediaInv
<1>0. p \in Participants
  BY SocketHasParticipant
<1>1. /\ signal' \in [MediaSockets -> MediaSocket] /\ signal'[s] = row
      /\ \A t \in MediaSockets : t # s => signal'[t] = signal[t]
  BY <1>t, OneSignalMoves
<1>2. /\ place' \in [Participants -> MediaSockets \cup {NoSocket}] /\ place'[p] = NoSocket
      /\ \A q \in Participants : q # p => place'[q] = place[q]
  BY <1>t, <1>0 DEF MediaTypes, RemoveParticipant
<1>3. sessionOpen' = (sessionOpen /\ ~(Present = {p} /\ ~recordingActive))
  BY DEF RemoveParticipant
<1>4. MediaTypes'
  BY <1>t, <1>1, <1>2, <1>3 DEF MediaTypes
<1>5. PlaceIsTaken'
  <2> SUFFICES ASSUME NEW q \in Participants, place'[q] # NoSocket
               PROVE  /\ place'[q] \in MediaSockets /\ ParticipantOf[place'[q]] = q
                      /\ signal'[place'[q]].active /\ signal'[place'[q]].pc = "idle"
                      /\ signal'[place'[q]].open \/ signal'[place'[q]].late
    BY DEF PlaceIsTaken
  <2>1. /\ q # p /\ place'[q] = place[q] /\ place[q] \in MediaSockets /\ ParticipantOf[place[q]] = q
        /\ signal[place[q]].active /\ signal[place[q]].pc = "idle"
        /\ signal[place[q]].open \/ signal[place[q]].late
    BY <1>t, <1>2 DEF PlaceIsTaken
  <2>2. signal'[place[q]] = signal[place[q]]
    BY <1>1, <2>1
  <2> QED BY <2>1, <2>2
<1>6. WaitingIsOpenOrLate'
  BY <1>t, <1>1 DEF WaitingIsOpenOrLate
<1>7. ConnectedHasPlace'
  <2> SUFFICES ASSUME NEW t \in MediaSockets, signal'[t].open, signal'[t].active
               PROVE  place'[ParticipantOf[t]] = t \/ t \in excused'
    BY DEF ConnectedHasPlace
  <2>1. CASE t = s
    BY <1>1, <2>1
  <2>2. CASE t # s
    <3>1. place[ParticipantOf[t]] = t \/ t \in excused
      BY <1>t, <1>1, <2>2 DEF ConnectedHasPlace
    <3> QED BY <1>2, <2>2, <3>1, SocketHasParticipant
  <2> QED BY <2>1, <2>2
<1>8. EmptySessionIsClosed'
  <2> SUFFICES ASSUME sessionOpen', Present' = {}
               PROVE  recordingActive \/ orphaned \/ \E t \in MediaSockets : signal'[t].pc = "redis"
    BY DEF EmptySessionIsClosed
  <2>1. Present \subseteq {p}
    BY <1>2 DEF Present
  <2>2. CASE Present = {}
    <3>1. recordingActive \/ orphaned \/ \E t \in MediaSockets : signal[t].pc = "redis"
      BY <1>t, <1>3, <2>2 DEF EmptySessionIsClosed
    <3> QED BY <1>1, <3>1
  <2>3. CASE Present = {p}
    BY <1>3, <2>3
  <2> QED BY <2>1, <2>2, <2>3
<1> QED BY <1>4, <1>5, <1>6, <1>7, <1>8 DEF MediaInv

\* Everybody loses his place.
LEMMA PlacesCleared ==
  ASSUME MediaInv, place' = Nobody, recordingActive' = FALSE, orphaned' = orphaned, sessionOpen' \in BOOLEAN,
         excused' = excused \cup {place[p] : p \in Present},
         signal' \in [MediaSockets -> MediaSocket],
         \A s \in MediaSockets : /\ signal'[s].open = signal[s].open /\ signal'[s].active = signal[s].active
                                 /\ signal'[s].late = signal[s].late
                                 /\ signal'[s].pc \in {"router", "redis"} => signal[s].pc \in {"router", "redis"}
                                 /\ signal[s].active => signal'[s].pc = signal[s].pc,
         sessionOpen' => \E s \in MediaSockets : signal'[s].pc = "redis"
  PROVE  MediaInv'
<1>t. MediaTypes /\ PlaceIsTaken /\ WaitingIsOpenOrLate /\ ConnectedHasPlace
  BY DEF MediaInv
<1>1. \A p \in Participants : place'[p] = NoSocket
  BY DEF Nobody
<1>2. MediaTypes'
  BY <1>t DEF MediaTypes, Nobody
<1>3. PlaceIsTaken' /\ WaitingIsOpenOrLate' /\ EmptySessionIsClosed'
  BY <1>t, <1>1 DEF PlaceIsTaken, WaitingIsOpenOrLate, EmptySessionIsClosed
<1>4. ConnectedHasPlace'
  <2> SUFFICES ASSUME NEW t \in MediaSockets, signal'[t].open, signal'[t].active
               PROVE  t \in excused'
    BY DEF ConnectedHasPlace
  <2>1. place[ParticipantOf[t]] = t \/ t \in excused
    BY <1>t DEF ConnectedHasPlace
  <2>2. t # NoSocket
    BY MediaSessionsAssumption
  <2>3. place[ParticipantOf[t]] = t => ParticipantOf[t] \in Present
    BY <2>2, SocketHasParticipant DEF Present
  <2> QED BY <2>1, <2>3
<1> QED BY <1>2, <1>3, <1>4 DEF MediaInv

\* Every step of the specification keeps the inductive invariant.
LEMMA MediaNextInv == MediaInv /\ [MediaSessionsNext]_mediaVars => MediaInv'
<1> SUFFICES ASSUME MediaInv, [MediaSessionsNext]_mediaVars PROVE MediaInv'
  OBVIOUS
<1>t. MediaTypes /\ PlaceIsTaken /\ WaitingIsOpenOrLate /\ ConnectedHasPlace /\ EmptySessionIsClosed
  BY DEF MediaInv
<1>k. \A s \in MediaSockets : signal[s] \in MediaSocket
  BY <1>t DEF MediaTypes
<1>1. ASSUME NEW s \in MediaSockets, Join(s) PROVE MediaInv'
  <2>1. CASE sessionOpen
    BY <1>1, <2>1, PlaceGiven DEF Join
  <2>2. CASE ~sessionOpen
    <3> DEFINE row == [signal[s] EXCEPT !.pc = "router"]
    <3>1. /\ signal' = [signal EXCEPT ![s] = row] /\ signal[s].open /\ signal[s].pc = "new"
          /\ UNCHANGED <<sessionOpen, place, recordingActive, excused, orphaned>>
      BY <1>1, <2>2 DEF Join
    <3>2. row \in MediaSocket /\ row.pc = "router" /\ row.open = signal[s].open /\ row.active = signal[s].active
      BY <1>k DEF MediaSocket
    <3> HIDE DEF row
    <3>3. /\ signal' \in [MediaSockets -> MediaSocket] /\ signal'[s] = row
          /\ \A t \in MediaSockets : t # s => signal'[t] = signal[t]
      BY <1>t, <3>1, <3>2, OneSignalMoves
    <3>4. MediaTypes'
      BY <1>t, <3>1, <3>3 DEF MediaTypes
    <3>5. PlaceIsTaken'
      <4>1. \A p \in Participants : place[p] # NoSocket => place[p] # s
        BY <1>t, <3>1 DEF PlaceIsTaken
      <4> QED BY <1>t, <3>1, <3>3, <4>1 DEF PlaceIsTaken
    <3>6. WaitingIsOpenOrLate'
      BY <1>t, <3>1, <3>2, <3>3 DEF WaitingIsOpenOrLate
    <3>7. ConnectedHasPlace'
      BY <1>t, <3>1, <3>2, <3>3 DEF ConnectedHasPlace
    <3>8. EmptySessionIsClosed'
      BY <2>2, <3>1 DEF EmptySessionIsClosed
    <3> QED BY <3>4, <3>5, <3>6, <3>7, <3>8 DEF MediaInv
  <2> QED BY <2>1, <2>2
<1>2. ASSUME NEW s \in MediaSockets, RouterCreated(s) PROVE MediaInv'
  <2> DEFINE row == [signal[s] EXCEPT !.pc = "redis"]
  <2>1. /\ signal' = [signal EXCEPT ![s] = row] /\ signal[s].pc = "router" /\ sessionOpen' = TRUE /\ place' = Nobody
        /\ recordingActive' = FALSE /\ excused' = excused \cup {place[p] : p \in Present} /\ orphaned' = orphaned
    BY <1>2 DEF RouterCreated
  <2>2. /\ row \in MediaSocket /\ row.pc = "redis" /\ row.open = signal[s].open /\ row.active = signal[s].active
        /\ row.late = signal[s].late
    BY <1>k DEF MediaSocket
  <2> HIDE DEF row
  <2>3. /\ signal' \in [MediaSockets -> MediaSocket] /\ signal'[s] = row
        /\ \A t \in MediaSockets : t # s => signal'[t] = signal[t]
    BY <1>t, <2>1, <2>2, OneSignalMoves
  <2>4. \A t \in MediaSockets : /\ signal'[t].open = signal[t].open /\ signal'[t].active = signal[t].active
                                /\ signal'[t].late = signal[t].late
                                /\ signal'[t].pc \in {"router", "redis"} => signal[t].pc \in {"router", "redis"}
                                /\ signal[t].active => signal'[t].pc = signal[t].pc
    BY <1>t, <2>1, <2>2, <2>3 DEF WaitingIsOpenOrLate
  <2>5. \E t \in MediaSockets : signal'[t].pc = "redis"
    BY <2>2, <2>3
  <2>6. sessionOpen' \in BOOLEAN
    BY <2>1
  <2> QED BY <2>1, <2>3, <2>4, <2>5, <2>6, PlacesCleared
<1>3. ASSUME NEW s \in MediaSockets, SessionTracked(s) PROVE MediaInv'
  <2>1. signal[s].open \/ signal[s].late
    BY <1>t, <1>3 DEF WaitingIsOpenOrLate, SessionTracked
  <2> QED BY <1>3, <2>1, PlaceGiven DEF SessionTracked
<1>4. ASSUME NEW s \in MediaSockets, JoinFails(s) PROVE MediaInv'
  <2> DEFINE row == [signal[s] EXCEPT !.pc = "new"]
  <2>1. /\ signal' = [signal EXCEPT ![s] = row] /\ signal[s].pc \in {"router", "redis"}
        /\ orphaned' = (orphaned \/ signal[s].pc = "redis")
        /\ UNCHANGED <<sessionOpen, place, recordingActive, excused>>
    BY <1>4 DEF JoinFails
  <2>2. row \in MediaSocket /\ row.pc = "new" /\ row.open = signal[s].open /\ row.active = signal[s].active
    BY <1>k DEF MediaSocket
  <2> HIDE DEF row
  <2>3. /\ signal' \in [MediaSockets -> MediaSocket] /\ signal'[s] = row
        /\ \A t \in MediaSockets : t # s => signal'[t] = signal[t]
    BY <1>t, <2>1, <2>2, OneSignalMoves
  <2>4. MediaTypes'
    BY <1>t, <2>1, <2>3 DEF MediaTypes
  <2>5. PlaceIsTaken'
    <3>1. \A p \in Participants : place[p] # NoSocket => place[p] # s
      BY <1>t, <2>1 DEF PlaceIsTaken
    <3> QED BY <1>t, <2>1, <2>3, <3>1 DEF PlaceIsTaken
  <2>6. WaitingIsOpenOrLate'
    BY <1>t, <2>1, <2>2, <2>3 DEF WaitingIsOpenOrLate
  <2>7. ConnectedHasPlace'
    BY <1>t, <2>1, <2>2, <2>3 DEF ConnectedHasPlace
  <2>8. EmptySessionIsClosed'
    BY <1>t, <2>1, <2>3 DEF EmptySessionIsClosed, Present
  <2> QED BY <2>4, <2>5, <2>6, <2>7, <2>8 DEF MediaInv
<1>5. ASSUME NEW s \in MediaSockets, Leave(s) PROVE MediaInv'
  <2> DEFINE row == [signal[s] EXCEPT !.active = FALSE, !.pc = "new"]
  <2>0. PICK p \in Participants : p = ParticipantOf[s]
    BY SocketHasParticipant
  <2>1. /\ signal' = [signal EXCEPT ![s] = row] /\ signal[s].pc = "idle" /\ RemoveParticipant(p)
        /\ excused' = excused \cup Displaced(p, s) /\ UNCHANGED <<recordingActive, orphaned>>
    BY <1>5, <2>0 DEF Leave
  <2>2. row \in MediaSocket /\ row.pc = "new" /\ row.active = FALSE
    BY <1>k DEF MediaSocket
  <2> HIDE DEF row
  <2>3. \A t \in MediaSockets : place[p] = t => t \in excused' \/ t = s
    BY <2>1, MediaSessionsAssumption DEF Displaced
  <2> QED BY <2>0, <2>1, <2>2, <2>3, PlaceTaken
<1>6. ASSUME NEW s \in MediaSockets, CloseSocket(s) PROVE MediaInv'
  <2>0. PICK p \in Participants : p = ParticipantOf[s]
    BY SocketHasParticipant
  <2> DEFINE late == signal[s].pc \in {"router", "redis"}
  <2>b. late \in BOOLEAN /\ (late <=> signal[s].pc \in {"router", "redis"})
    OBVIOUS
  <2> DEFINE row == [signal[s] EXCEPT !.open = FALSE, !.late = late]
  <2>1. /\ signal' = [signal EXCEPT ![s] = row] /\ UNCHANGED <<recordingActive, orphaned>>
        /\ IF signal[s].active THEN RemoveParticipant(p) ELSE UNCHANGED <<sessionOpen, place>>
        /\ excused' = IF signal[s].active THEN excused \cup Displaced(p, s) ELSE excused
    BY <1>6, <2>0, <2>b DEF CloseSocket
  <2>2. row \in MediaSocket /\ row.pc = signal[s].pc /\ row.active = signal[s].active /\ row.open = FALSE /\ row.late = late
    BY <1>k, <2>b DEF MediaSocket
  <2> HIDE DEF row, late
  <2>3. CASE signal[s].active /\ signal[s].pc \notin {"router", "redis"}
    <3>1. \A t \in MediaSockets : place[p] = t => t \in excused' \/ t = s
      BY <2>1, <2>3, MediaSessionsAssumption DEF Displaced
    <3>2. row.active => row.pc = "idle"
      BY <1>t, <2>2 DEF WaitingIsOpenOrLate
    <3> QED BY <2>0, <2>1, <2>2, <2>3, <3>1, <3>2, PlaceTaken
  <2>4. CASE ~signal[s].active
    <3>3. /\ signal' \in [MediaSockets -> MediaSocket] /\ signal'[s] = row
          /\ \A t \in MediaSockets : t # s => signal'[t] = signal[t]
      BY <1>t, <2>1, <2>2, OneSignalMoves
    <3>4. MediaTypes'
      BY <1>t, <2>1, <2>4, <3>3 DEF MediaTypes
    <3>5. PlaceIsTaken'
      <4>1. \A q \in Participants : place[q] # NoSocket => place[q] # s
        BY <1>t, <2>4 DEF PlaceIsTaken
      <4> QED BY <1>t, <2>1, <2>4, <3>3, <4>1 DEF PlaceIsTaken
    <3>6. WaitingIsOpenOrLate'
      BY <1>t, <2>b, <2>2, <3>3 DEF WaitingIsOpenOrLate
    <3>7. ConnectedHasPlace'
      BY <1>t, <2>1, <2>2, <2>4, <3>3 DEF ConnectedHasPlace
    <3>8. EmptySessionIsClosed'
      BY <1>t, <2>1, <2>2, <2>4, <3>3 DEF EmptySessionIsClosed, Present
    <3> QED BY <3>4, <3>5, <3>6, <3>7, <3>8 DEF MediaInv
  <2> QED BY <1>t, <2>3, <2>4 DEF WaitingIsOpenOrLate
<1>7. ASSUME NEW p \in Participants, KickParticipant(p) PROVE MediaInv'
  <2>1. PICK s \in MediaSockets : s = place[p] /\ ParticipantOf[s] = p /\ signal[s].pc = "idle"
    BY <1>t, <1>7 DEF KickParticipant, PlaceIsTaken
  <2> DEFINE row == [signal[s] EXCEPT !.open = FALSE]
  <2>2. /\ signal' = [signal EXCEPT ![s] = row] /\ RemoveParticipant(p) /\ excused' = excused \cup {s}
        /\ UNCHANGED <<recordingActive, orphaned>>
    BY <1>7, <2>1 DEF KickParticipant
  <2>3. row \in MediaSocket /\ row.pc = "idle" /\ row.open = FALSE
    BY <1>k, <2>1 DEF MediaSocket
  <2> HIDE DEF row
  <2>4. \A t \in MediaSockets : place[p] = t => t \in excused' \/ t = s
    BY <2>1
  <2> QED BY <2>1, <2>2, <2>3, <2>4, PlaceTaken
<1>8. CASE EndSession
  <2>1. /\ sessionOpen' = FALSE /\ place' = Nobody /\ recordingActive' = FALSE /\ orphaned' = orphaned /\ signal' = signal
        /\ excused' = excused \cup {place[p] : p \in Present}
    BY <1>8 DEF EndSession
  <2>2. signal' \in [MediaSockets -> MediaSocket] /\ sessionOpen' \in BOOLEAN
    BY <1>t, <2>1 DEF MediaTypes
  <2> QED BY <2>1, <2>2, PlacesCleared
<1>9. ASSUME NEW on \in BOOLEAN, SetRecording(on) PROVE MediaInv'
  <2>1. /\ UNCHANGED <<sessionOpen, place, signal, excused>> /\ recordingActive' = on
        /\ orphaned' = (orphaned \/ (recordingActive /\ ~on /\ Present = {}))
    BY <1>9 DEF SetRecording
  <2>2. MediaTypes' /\ PlaceIsTaken' /\ WaitingIsOpenOrLate' /\ ConnectedHasPlace'
    BY <1>t, <2>1 DEF MediaTypes, PlaceIsTaken, WaitingIsOpenOrLate, ConnectedHasPlace
  <2>3. EmptySessionIsClosed'
    BY <1>t, <2>1 DEF EmptySessionIsClosed, Present
  <2> QED BY <2>2, <2>3 DEF MediaInv
<1>10. CASE UNCHANGED mediaVars
  BY <1>t, <1>10 DEF MediaInv, MediaTypes, PlaceIsTaken, WaitingIsOpenOrLate, ConnectedHasPlace, EmptySessionIsClosed, Present, mediaVars
<1> QED BY <1>1, <1>2, <1>3, <1>4, <1>5, <1>6, <1>7, <1>8, <1>9, <1>10 DEF MediaSessionsNext

-----------------------------------------------------------------------------
\* Recordings.
\* A report that a recording is ready follows its upload, and is under way or handled
\* as long as the archive is kept.
RecordingInv ==
  /\ recording = [n \in Recordings |-> recording[n]]
  /\ \A e \in recordingEvent : e = <<e[1], e[2]>>
  /\ \A n \in Recordings : <<"ready", n>> \in recordingEvent => n \in artifact
  /\ ReadyHasArtifact

\* It holds at the start.
LEMMA RecordingInitInv == CallRecordingsInit => RecordingInv
BY DEF CallRecordingsInit, RecordingInv, ReadyHasArtifact

\* The row of one recording changes.
LEMMA OneRecordingChanges ==
  ASSUME RecordingInv, NEW n, NEW status, recording' = [recording EXCEPT ![n] = status]
  PROVE  /\ recording' = [m \in Recordings |-> recording'[m]]
         /\ \A m \in Recordings : recording'[m] = IF m = n THEN status ELSE recording[m]
BY DEF RecordingInv

\* Nothing but the handling of its event makes a recording ready, and nothing but the
\* purge takes an archive away.
LEMMA RecordingsStayRight ==
  ASSUME RecordingInv, recording' = [n \in Recordings |-> recording'[n]],
         \A n \in Recordings : recording'[n] = "ready" => recording[n] = "ready",
         \A e \in recordingEvent' : e \in recordingEvent \/ (e = <<e[1], e[2]>> /\ (e[1] = "ready" => e[2] \in artifact')),
         artifact \subseteq artifact'
  PROVE  RecordingInv'
BY DEF RecordingInv, ReadyHasArtifact

\* Every step of the specification keeps the inductive invariant.
LEMMA RecordingNextInv == RecordingInv /\ [CallRecordingsNext]_recordingVars => RecordingInv'
<1> SUFFICES ASSUME RecordingInv, [CallRecordingsNext]_recordingVars PROVE RecordingInv'
  OBVIOUS
<1>0. recording = [n \in Recordings |-> recording[n]]
  BY DEF RecordingInv
<1>1. CASE SaveRecording
  <2> DEFINE n == CHOOSE n \in Unused : \A m \in Unused : n <= m
  <2>1. recording' = [recording EXCEPT ![n] = "recording"] /\ UNCHANGED <<artifact, recordingEvent>>
    BY <1>1 DEF SaveRecording
  <2> HIDE DEF n
  <2>2. /\ recording' = [m \in Recordings |-> recording'[m]]
        /\ \A m \in Recordings : recording'[m] = IF m = n THEN "recording" ELSE recording[m]
    BY <2>1, OneRecordingChanges
  <2>3. \A m \in Recordings : recording'[m] = "ready" => recording[m] = "ready"
    BY <2>2
  <2> QED BY <2>1, <2>2, <2>3, RecordingsStayRight
<1>2. ASSUME NEW n \in Recordings, SaveStopped(n) PROVE RecordingInv'
  <2>1. recording' = [recording EXCEPT ![n] = "processing"] /\ UNCHANGED <<artifact, recordingEvent>>
    BY <1>2 DEF SaveStopped
  <2>2. /\ recording' = [m \in Recordings |-> recording'[m]]
        /\ \A m \in Recordings : recording'[m] = IF m = n THEN "processing" ELSE recording[m]
    BY <2>1, OneRecordingChanges
  <2>3. \A m \in Recordings : recording'[m] = "ready" => recording[m] = "ready"
    BY <2>2
  <2> QED BY <2>1, <2>2, <2>3, RecordingsStayRight
<1>3. CASE EndRecordedCall
  <2>1. /\ recording' = [n \in Recordings |-> IF recording[n] = "recording" THEN "processing" ELSE recording[n]]
        /\ UNCHANGED <<artifact, recordingEvent>>
    BY <1>3 DEF EndRecordedCall
  <2>2. recording' = [n \in Recordings |-> recording'[n]]
    BY <2>1
  <2>3. \A n \in Recordings : recording'[n] = "ready" => recording[n] = "ready"
    BY <2>1
  <2> QED BY <2>1, <2>2, <2>3, RecordingsStayRight
<1>4. ASSUME NEW e \in recordingEvent, HandleRecordingEvent(e) PROVE RecordingInv'
  <2> DEFINE status == IF e[1] = "started" THEN "recording" ELSE e[1]
  <2>1. /\ recording' = [recording EXCEPT ![e[2]] = status]
        /\ recordingEvent' = recordingEvent \ {e} /\ UNCHANGED artifact
    BY <1>4 DEF HandleRecordingEvent
  <2>2. status = "ready" => e[1] = "ready"
    OBVIOUS
  <2> HIDE DEF status
  <2>3. /\ recording' = [m \in Recordings |-> recording'[m]]
        /\ \A m \in Recordings : recording'[m] = IF m = e[2] THEN status ELSE recording[m]
    BY <2>1, OneRecordingChanges
  <2>4. ASSUME NEW n \in Recordings, recording'[n] = "ready" PROVE n \in artifact'
    <3>1. CASE n = e[2]
      <4>1. status = "ready" /\ e = <<"ready", n>>
        BY <2>2, <2>3, <2>4, <3>1 DEF RecordingInv
      <4> QED BY <2>1, <4>1 DEF RecordingInv
    <3>2. CASE n # e[2]
      BY <2>1, <2>3, <2>4, <3>2 DEF RecordingInv, ReadyHasArtifact
    <3> QED BY <3>1, <3>2
  <2> QED BY <2>1, <2>3, <2>4 DEF RecordingInv, ReadyHasArtifact
<1>5. ASSUME NEW n \in Recordings, PurgeExpiredRecording(n) PROVE RecordingInv'
  <2>1. /\ recording' = [recording EXCEPT ![n] = "deleted"] /\ UNCHANGED recordingEvent
        /\ artifact' \in {artifact, artifact \ {n}}
        /\ \A e \in recordingEvent : e[2] # n
    BY <1>5 DEF PurgeExpiredRecording
  <2>2. /\ recording' = [m \in Recordings |-> recording'[m]]
        /\ \A m \in Recordings : recording'[m] = IF m = n THEN "deleted" ELSE recording[m]
    BY <2>1, OneRecordingChanges
  <2>3. <<"ready", n>> \notin recordingEvent
    BY <2>1
  <2> QED BY <2>1, <2>2, <2>3 DEF RecordingInv, ReadyHasArtifact
<1>6. CASE HandleBackendCommand
  <2>1. UNCHANGED <<recording, artifact>>
    BY <1>6 DEF HandleBackendCommand, backendRecordingVars
  <2>2. recordingEvent' = recordingEvent \/ recordingEvent' = recordingEvent \cup {<<"failed", Head(command)[2]>>}
    BY <1>6 DEF HandleBackendCommand, HandleStart, HandleStop, HandleEnd, PublishRecordingEvent
  <2>3. \A e \in recordingEvent' : e \in recordingEvent \/ (e = <<e[1], e[2]>> /\ (e[1] = "ready" => e[2] \in artifact'))
    BY <2>2
  <2> QED BY <1>0, <2>1, <2>3, RecordingsStayRight
<1>7. ASSUME NEW n \in Recordings, PipelineStep(n) PROVE RecordingInv'
  <2>1. /\ UNCHANGED recording /\ artifact \subseteq artifact'
        /\ \/ recordingEvent' = recordingEvent
           \/ recordingEvent' = recordingEvent \cup {<<"ready", n>>} /\ n \in artifact'
           \/ \E type \in {"started", "failed"} : recordingEvent' = recordingEvent \cup {<<type, n>>}
    BY <1>7 DEF PipelineStep, RegisterRecording, TracksStarted, FinishRecording, FailRecording, PublishRecordingEvent, backendRecordingVars
  <2>3. \A e \in recordingEvent' : e \in recordingEvent \/ (e = <<e[1], e[2]>> /\ (e[1] = "ready" => e[2] \in artifact'))
    BY <2>1
  <2> QED BY <1>0, <2>1, <2>3, RecordingsStayRight
<1>8. CASE \/ StartRecording \/ \E n \in Recordings : StopRecording(n)
           \/ \E e \in recordingEvent : LoseEvent(e)
           \/ MediaCrash \/ LoseCommand \/ UNCHANGED recordingVars
  <2>1. UNCHANGED <<recording, artifact>> /\ recordingEvent' \subseteq recordingEvent
    BY <1>8 DEF StartRecording, StopRecording, LoseEvent, MediaCrash, LoseCommand, recordingVars, backendRecordingVars
  <2> QED BY <1>0, <2>1, RecordingsStayRight
<1> QED BY <1>1, <1>2, <1>3, <1>4, <1>5, <1>6, <1>7, <1>8 DEF CallRecordingsNext, RecordingStep

-----------------------------------------------------------------------------
\* Folders.
\* Files without the bound of the model.
PlacedStates == [id: Nat, folder: FolderIds \cup {NoFolder}, cls: Classes, deleted: BOOLEAN]

\* The types the proof needs.
FolderTypes ==
  /\ folderRows \subseteq FolderRow /\ IsFiniteSet(folderRows)
  /\ closure \subseteq FolderIds \X FolderIds \X (0..MAX_FOLDER_DEPTH)
  /\ placed \subseteq PlacedStates /\ IsFiniteSet(placed)
  /\ folderCall \in [FolderCalls -> FolderCall]
  /\ overtaken \in BOOLEAN

\* There is a row.
FolderExists(id) == \E f \in folderRows : f.id = id

\* Folders are numbered in the order of their creation, after the one above them.
RowsAreNumbered ==
  \A f \in folderRows :
    /\ f.id <= Cardinality(folderRows)
    /\ \A g \in folderRows : g.id = f.id => g = f
    /\ f.parent = NoFolder \/ (f.parent < f.id /\ FolderExists(f.parent))

ClosureIsOfRows == \A r \in closure : FolderExists(r[1]) /\ FolderExists(r[2])

\* A folder is classified no lower than those above it.
FoldersDescend ==
  \A f, g \in folderRows, n \in 0..MAX_FOLDER_DEPTH : <<g.id, f.id, n>> \in closure => f.cls >= g.cls

\* The folder of a new row, as it was checked, may hold that row.
MayLieIn(id, cls) == id = NoFolder \/ \E f \in folderRows : f.id = id /\ cls >= f.cls

\* So is a file.
FilesDescend == \A r \in placed : MayLieIn(r.folder, r.cls)

\* What a call has checked is still so.
FolderCallIsRight(c) ==
  LET call == folderCall[c]
  IN  /\ call.op \in {"create", "upload"} => MayLieIn(call.folder, call.cls)
      /\ call.op = "create" => \A r \in closure : r[2] = call.folder => r[3] < MAX_FOLDER_DEPTH
      /\ call.op = "drop" => FolderExists(call.folder) /\ (overtaken \/ ~Holds(call.folder))

\* The inductive invariant.
FoldersInv ==
  /\ FolderTypes /\ RowsAreNumbered /\ ClosureIsOfRows /\ FoldersDescend /\ FilesDescend
  /\ \A c \in FolderCalls : FolderCallIsRight(c)
  /\ ClosureIsAncestry /\ FileIsReachable

\* A folder is found by its id.
LEMMA FolderIsFound ==
  ASSUME RowsAreNumbered, NEW f \in folderRows
  PROVE  FolderOf(f.id) = f
BY DEF RowsAreNumbered, FolderOf

\* It implies the properties.
LEMMA FoldersInvIsEnough == FoldersInv => ClosureIsAncestry /\ ClassificationDescends /\ FileIsReachable
<1> SUFFICES ASSUME FoldersInv PROVE ClassificationDescends
  BY DEF FoldersInv
<1>0. FolderTypes /\ RowsAreNumbered /\ ClosureIsOfRows /\ FoldersDescend /\ FilesDescend
  BY DEF FoldersInv
<1>1. ASSUME NEW r \in closure
      PROVE  \E f, g \in folderRows : f.id = r[2] /\ g.id = r[1] /\ FolderOf(r[2]) = f /\ FolderOf(r[1]) = g
                                      /\ f.cls >= g.cls /\ f.cls \in Nat /\ g.cls \in Nat
  <2>1. r = <<r[1], r[2], r[3]>> /\ r[3] \in 0..MAX_FOLDER_DEPTH
    BY <1>0 DEF FolderTypes
  <2>2. PICK f, g \in folderRows : f.id = r[2] /\ g.id = r[1]
    BY <1>0 DEF ClosureIsOfRows, FolderExists
  <2>3. FolderOf(r[2]) = f /\ FolderOf(r[1]) = g
    BY <1>0, <2>2, FolderIsFound
  <2>4. f.cls >= g.cls
    BY <1>0, <2>1, <2>2 DEF FoldersDescend
  <2>5. f.cls \in Nat /\ g.cls \in Nat
    BY <1>0 DEF FolderTypes, FolderRow, Classes
  <2> QED BY <2>2, <2>3, <2>4, <2>5
<1>2. \A r \in closure : FolderOf(r[2]).cls >= FolderOf(r[1]).cls
  BY <1>1
<1>3. ASSUME NEW r \in placed, NEW q \in closure, r.folder = q[2] PROVE r.cls >= FolderOf(q[1]).cls
  <2>1. PICK f, g \in folderRows : f.id = q[2] /\ FolderOf(q[1]) = g /\ f.cls >= g.cls /\ f.cls \in Nat /\ g.cls \in Nat
    BY <1>1
  <2>2. r.folder # NoFolder
    BY <1>0, <1>3 DEF FolderTypes, FolderIds, NoFolder
  <2>3. r.cls >= f.cls
    BY <1>0, <1>3, <2>1, <2>2 DEF FilesDescend, MayLieIn, RowsAreNumbered
  <2>4. r.cls \in Nat
    BY <1>0 DEF FolderTypes, PlacedStates, Classes
  <2> QED BY <2>1, <2>3, <2>4
<1> QED BY <1>2, <1>3 DEF ClassificationDescends

\* It holds at the start.
LEMMA FoldersInitInv == FileFoldersInit => FoldersInv
<1> SUFFICES ASSUME FileFoldersInit PROVE FoldersInv
  OBVIOUS
<1>1. folderRows = {} /\ closure = {} /\ placed = {} /\ overtaken = FALSE
  BY DEF FileFoldersInit
<1>2. folderCall \in [FolderCalls -> FolderCall] /\ \A c \in FolderCalls : folderCall[c].op = "idle"
  BY FileFoldersAssumption DEF FileFoldersInit, IdleFolderCall, FolderCall, Classes
<1>3. FolderTypes
  BY <1>1, <1>2, FS_EmptySet DEF FolderTypes
<1>4. ClosureIsAncestry
  <2> SUFFICES ASSUME NEW n \in 0..MAX_FOLDER_DEPTH, NEW line, NEW id, NEW above, Lineage(line, id, n, above)
               PROVE  FALSE
    BY <1>1 DEF ClosureIsAncestry
  <2>1. n \in 0..n
    BY FileFoldersAssumption
  <2> QED BY <1>1, <2>1 DEF Lineage
<1> QED BY <1>1, <1>2, <1>3, <1>4 DEF FoldersInv, RowsAreNumbered, ClosureIsOfRows, FoldersDescend, FilesDescend,
             FolderCallIsRight, FileIsReachable

\* The ancestry is that of the rows' ids and parents alone.
LEMMA AncestryStands ==
  ASSUME ClosureIsAncestry, UNCHANGED <<folderRows, closure>>
  PROVE  ClosureIsAncestry'
<1>1. ASSUME NEW line, NEW id, NEW n, NEW above
      PROVE  Lineage(line, id, n, above)' <=> Lineage(line, id, n, above)
  BY DEF Lineage
<1>2. ASSUME NEW id \in FolderIds, NEW above \in FolderIds, NEW n \in 0..MAX_FOLDER_DEPTH
      PROVE  (<<above, id, n>> \in closure <=> \E line \in [0..n -> FolderIds] : Lineage(line, id, n, above))'
  <2>1. <<above, id, n>> \in closure <=> \E line \in [0..n -> FolderIds] : Lineage(line, id, n, above)
    BY DEF ClosureIsAncestry
  <2>2. (\E line \in [0..n -> FolderIds] : Lineage(line, id, n, above)') <=> \E line \in [0..n -> FolderIds] : Lineage(line, id, n, above)
    BY <1>1
  <2> QED BY <2>1, <2>2
<1> QED BY <1>2 DEF ClosureIsAncestry

\* One call goes on.
LEMMA OneFolderCallMoves ==
  ASSUME FolderTypes, NEW c \in FolderCalls, NEW call \in FolderCall, folderCall' = [folderCall EXCEPT ![c] = call]
  PROVE  /\ folderCall' \in [FolderCalls -> FolderCall] /\ folderCall'[c] = call
         /\ \A d \in FolderCalls : d # c => folderCall'[d] = folderCall[d]
BY DEF FolderTypes

\* The depth that is measured is that of every row of the folder.
LEMMA DepthIsMeasured ==
  ASSUME FoldersInv, NEW id, FolderExists(id), DepthLeft(id)
  PROVE  \A r \in closure : r[2] = id => r[3] < MAX_FOLDER_DEPTH
<1>0. FolderTypes
  BY DEF FoldersInv
<1> DEFINE depths == {r[3] : r \in {q \in closure : q[2] = id}}
<1>1. depths \in SUBSET (0..MAX_FOLDER_DEPTH) /\ \A r \in closure : r[2] = id => r[3] \in depths
  BY <1>0 DEF FolderTypes
<1> HIDE DEF depths
<1>2. ASSUME NEW r \in closure, r[2] = id PROVE r[3] < MAX_FOLDER_DEPTH
  <2>1. PICK n \in depths : \A m \in depths : m <= n
    BY <1>1, <1>2, GreatestOf, FileFoldersAssumption
  <2>2. n \in {q[3] : q \in closure} /\ \E q \in closure : q[2] = id /\ q[3] = n
    BY <2>1 DEF depths
  <2>3. \A q \in closure : q[2] = id => q[3] <= n
    BY <1>1, <2>1
  <2>4. \E m \in {q[3] : q \in closure} : (\E q \in closure : q[2] = id /\ q[3] = m) /\ (\A q \in closure : q[2] = id => q[3] <= m)
    BY <2>2, <2>3
  <2>5. r[3] <= FolderDepth(id) /\ FolderDepth(id) \in {q[3] : q \in closure}
    BY <1>2, <2>4 DEF FolderDepth
  <2>6. FolderDepth(id) \in Nat /\ r[3] \in Nat
    BY <1>0, <2>5 DEF FolderTypes
  <2>7. FolderDepth(id) < MAX_FOLDER_DEPTH
    BY DEF DepthLeft
  <2> QED BY <2>5, <2>6, <2>7, FileFoldersAssumption
<1> QED BY <1>2

\* A call has checked.
LEMMA FolderCallBegins ==
  ASSUME FoldersInv, NEW c \in FolderCalls, NEW call \in FolderCall, folderCall' = [folderCall EXCEPT ![c] = call],
         UNCHANGED <<folderRows, closure, placed, overtaken>>, call.op \in {"create", "upload", "drop"},
         call.op \in {"create", "upload"} => MayLieIn(call.folder, call.cls),
         call.op = "create" => \A r \in closure : r[2] = call.folder => r[3] < MAX_FOLDER_DEPTH,
         call.op = "drop" => FolderExists(call.folder) /\ (overtaken \/ ~Holds(call.folder))
  PROVE  FoldersInv'
<1>0. FolderTypes /\ \A d \in FolderCalls : FolderCallIsRight(d)
  BY DEF FoldersInv
<1>1. /\ folderCall' \in [FolderCalls -> FolderCall] /\ folderCall'[c] = call
      /\ \A d \in FolderCalls : d # c => folderCall'[d] = folderCall[d]
  BY <1>0, OneFolderCallMoves
<1>2. FolderTypes'
  BY <1>0, <1>1 DEF FolderTypes
<1>3. ASSUME NEW d \in FolderCalls PROVE FolderCallIsRight(d)'
  <2>1. CASE d = c
    BY <1>1, <2>1 DEF FolderCallIsRight, MayLieIn, FolderExists, Holds
  <2>2. CASE d # c
    BY <1>0, <1>1, <2>2 DEF FolderCallIsRight, MayLieIn, FolderExists, Holds
  <2> QED BY <2>1, <2>2
<1>4. RowsAreNumbered' /\ ClosureIsOfRows' /\ FoldersDescend' /\ FilesDescend' /\ FileIsReachable'
  BY DEF FoldersInv, RowsAreNumbered, ClosureIsOfRows, FoldersDescend, FilesDescend, FileIsReachable, MayLieIn, FolderExists, LiveFolder
<1>5. ClosureIsAncestry'
  BY AncestryStands DEF FoldersInv
<1> QED BY <1>2, <1>3, <1>4, <1>5 DEF FoldersInv

\* The line of a new folder starts at it and goes on at its parent; every other
\* folder keeps its lines, for nothing lies below the new one.
LEMMA AncestryGrows ==
  ASSUME FoldersInv, NEW id \in FolderIds, NEW parent, NEW row,
         id = Cardinality(folderRows) + 1, row.id = id, row.parent = parent,
         parent = NoFolder \/ FolderExists(parent),
         folderRows' = folderRows \cup {row}, closure' = closure \cup ClosureRows(id, parent)
  PROVE  ClosureIsAncestry'
<1>0. FolderTypes /\ RowsAreNumbered /\ ClosureIsOfRows /\ ClosureIsAncestry
  BY DEF FoldersInv
<1>1. Cardinality(folderRows) \in Nat /\ id \in Nat
  BY <1>0, FS_CardinalityType DEF FolderTypes
<1>2. \A f \in folderRows : f.id \in FolderIds /\ f.id < id /\ f.parent \in FolderIds \cup {NoFolder} /\ f.parent < id
  <2> SUFFICES ASSUME NEW f \in folderRows
               PROVE  f.id \in FolderIds /\ f.id < id /\ f.parent \in FolderIds \cup {NoFolder} /\ f.parent < id
    OBVIOUS
  <2>1. f.id \in FolderIds /\ f.parent \in FolderIds \cup {NoFolder}
    BY <1>0 DEF FolderTypes, FolderRow
  <2>2. f.id <= Cardinality(folderRows) /\ (f.parent = NoFolder \/ f.parent < f.id)
    BY <1>0 DEF RowsAreNumbered
  <2> QED BY <1>1, <2>1, <2>2 DEF FolderIds, NoFolder
<1>3. parent # id /\ (parent \in FolderIds \/ parent = NoFolder)
  <2>1. CASE parent = NoFolder
    BY <1>1, <2>1 DEF NoFolder
  <2>2. CASE FolderExists(parent)
    <3>1. PICK f \in folderRows : f.id = parent
      BY <2>2 DEF FolderExists
    <3>2. parent \in FolderIds /\ parent < id
      BY <1>2, <3>1
    <3> QED BY <1>1, <3>2 DEF FolderIds
  <2> QED BY <2>1, <2>2
<1>4. \A f \in folderRows' : f.parent # id /\ (f.id = id => f = row)
  <2> SUFFICES ASSUME NEW f \in folderRows' PROVE f.parent # id /\ (f.id = id => f = row)
    OBVIOUS
  <2>1. CASE f = row
    BY <1>3, <2>1
  <2>2. CASE f \in folderRows
    <3>1. f.id < id /\ f.parent < id /\ f.id \in Nat /\ f.parent \in Nat
      BY <1>2, <2>2 DEF FolderIds, NoFolder
    <3> QED BY <1>1, <3>1
  <2> QED BY <2>1, <2>2
<1>5. \A r \in closure : r[2] # id /\ r \in FolderIds \X FolderIds \X (0..MAX_FOLDER_DEPTH)
  <2> SUFFICES ASSUME NEW r \in closure PROVE r[2] # id
    BY <1>0 DEF FolderTypes
  <2>1. PICK f \in folderRows : f.id = r[2]
    BY <1>0 DEF ClosureIsOfRows, FolderExists
  <2>2. f.id < id /\ f.id \in Nat
    BY <1>2 DEF FolderIds
  <2> QED BY <1>1, <2>1, <2>2
<1>6. ASSUME NEW other \in FolderIds, NEW above \in FolderIds, NEW n \in 0..MAX_FOLDER_DEPTH, other # id
      PROVE  (<<above, other, n>> \in closure <=> \E line \in [0..n -> FolderIds] : Lineage(line, other, n, above))'
  <2>1. <<above, other, n>> \in closure' <=> <<above, other, n>> \in closure
    BY <1>6 DEF ClosureRows
  <2>2. ASSUME NEW line \in [0..n -> FolderIds]
        PROVE  Lineage(line, other, n, above)' <=> Lineage(line, other, n, above)
    <3>1. Lineage(line, other, n, above) => Lineage(line, other, n, above)'
      BY DEF Lineage
    <3>2. ASSUME Lineage(line, other, n, above)' PROVE Lineage(line, other, n, above)
      <4>1. /\ line[0] = other /\ line[n] = above
            /\ \A i \in 0..n : \E f \in folderRows' : f.id = line[i] /\ (i < n => f.parent = line[i + 1])
        BY <3>2 DEF Lineage
      <4>2. ASSUME NEW i \in 0..n PROVE line[i] # id
        <5>1. CASE i = 0
          BY <1>6, <4>1, <5>1
        <5>2. CASE i # 0
          <6>1. i - 1 \in 0..n /\ i - 1 < n /\ (i - 1) + 1 = i
            BY <5>2
          <6>2. PICK f \in folderRows' : f.parent = line[i]
            BY <4>1, <6>1
          <6> QED BY <1>4, <6>2
        <5> QED BY <5>1, <5>2
      <4>3. ASSUME NEW i \in 0..n PROVE \E f \in folderRows : f.id = line[i] /\ (i < n => f.parent = line[i + 1])
        <5>1. PICK f \in folderRows' : f.id = line[i] /\ (i < n => f.parent = line[i + 1])
          BY <4>1
        <5>2. f # row
          BY <4>2, <5>1
        <5> QED BY <5>1, <5>2
      <4> QED BY <4>1, <4>3 DEF Lineage
    <3> QED BY <3>1, <3>2
  <2>3. <<above, other, n>> \in closure <=> \E line \in [0..n -> FolderIds] : Lineage(line, other, n, above)
    BY <1>0 DEF ClosureIsAncestry
  <2>4. (\E line \in [0..n -> FolderIds] : Lineage(line, other, n, above)') <=> \E line \in [0..n -> FolderIds] : Lineage(line, other, n, above)
    BY <2>2
  <2> QED BY <2>1, <2>3, <2>4
<1>7. ASSUME NEW above \in FolderIds
      PROVE  (<<above, id, 0>> \in closure <=> \E line \in [0..0 -> FolderIds] : Lineage(line, id, 0, above))'
  <2>1. <<above, id, 0>> \in closure' <=> above = id
    <3>1. \A r \in closure : <<above, id, 0>> # <<r[1], id, r[3] + 1>> /\ <<above, id, 0>> # r
      <4> SUFFICES ASSUME NEW r \in closure PROVE <<above, id, 0>> # <<r[1], id, r[3] + 1>> /\ <<above, id, 0>> # r
        OBVIOUS
      <4>1. r[2] # id /\ r[3] \in Nat
        BY <1>5
      <4>2. r[3] + 1 # 0
        BY <4>1
      <4> QED BY <4>1, <4>2
    <3> QED BY <3>1 DEF ClosureRows
  <2>2. ASSUME above = id PROVE \E line \in [0..0 -> FolderIds] : Lineage(line, id, 0, above)'
    <3> DEFINE line == [i \in 0..0 |-> id]
    <3>1. line \in [0..0 -> FolderIds] /\ line[0] = id
      OBVIOUS
    <3>2. \A i \in 0..0 : \E f \in folderRows' : f.id = line[i] /\ (i < 0 => f.parent = line[i + 1])
      OBVIOUS
    <3> HIDE DEF line
    <3>3. Lineage(line, id, 0, above)'
      BY <2>2, <3>1, <3>2 DEF Lineage
    <3> QED BY <3>1, <3>3
  <2>3. ASSUME NEW line \in [0..0 -> FolderIds], Lineage(line, id, 0, above)' PROVE above = id
    BY <2>3 DEF Lineage
  <2> QED BY <2>1, <2>2, <2>3
<1>8. ASSUME NEW above \in FolderIds, NEW n \in 0..MAX_FOLDER_DEPTH, n # 0
      PROVE  (<<above, id, n>> \in closure <=> \E line \in [0..n -> FolderIds] : Lineage(line, id, n, above))'
  <2>0. n - 1 \in 0..MAX_FOLDER_DEPTH /\ (n - 1) + 1 = n /\ n \in Nat /\ n - 1 \in Nat /\ 0 < n
    BY <1>8, FileFoldersAssumption
  <2>1. <<above, id, n>> \in closure' <=> parent \in FolderIds /\ <<above, parent, n - 1>> \in closure
    <3>1. ASSUME <<above, id, n>> \in closure' PROVE parent \in FolderIds /\ <<above, parent, n - 1>> \in closure
      <4>1. <<above, id, n>> \notin closure
        BY <1>5
      <4>2. PICK r \in closure : r[2] = parent /\ <<above, id, n>> = <<r[1], id, r[3] + 1>>
        BY <1>8, <3>1, <4>1 DEF ClosureRows
      <4>3. r = <<r[1], r[2], r[3]>> /\ r[3] \in Nat /\ r[2] \in FolderIds
        BY <1>5
      <4>4. r[1] = above /\ r[3] = n - 1
        BY <2>0, <4>2, <4>3
      <4> QED BY <4>2, <4>3, <4>4
    <3>2. ASSUME <<above, parent, n - 1>> \in closure PROVE <<above, id, n>> \in closure'
      <4> DEFINE r == <<above, parent, n - 1>>
      <4>1. r \in closure /\ r[2] = parent /\ <<r[1], id, r[3] + 1>> = <<above, id, n>>
        BY <2>0, <3>2
      <4> HIDE DEF r
      <4>2. <<r[1], id, r[3] + 1>> \in ClosureRows(id, parent)
        BY <4>1 DEF ClosureRows
      <4> QED BY <4>1, <4>2
    <3> QED BY <3>1, <3>2
  <2>2. ASSUME parent \in FolderIds, NEW line \in [0..(n - 1) -> FolderIds], Lineage(line, parent, n - 1, above)
        PROVE  \E longer \in [0..n -> FolderIds] : Lineage(longer, id, n, above)'
    <3> DEFINE longer == [i \in 0..n |-> IF i = 0 THEN id ELSE line[i - 1]]
    <3>1. /\ line[0] = parent /\ line[n - 1] = above
          /\ \A i \in 0..(n - 1) : \E f \in folderRows : f.id = line[i] /\ (i < n - 1 => f.parent = line[i + 1])
      BY <2>2 DEF Lineage
    <3>2. \A i \in 0..n : i # 0 => i - 1 \in 0..(n - 1)
      BY <2>0
    <3>3. longer \in [0..n -> FolderIds]
      BY <3>2
    <3>4. longer[0] = id /\ \A i \in 0..n : i # 0 => longer[i] = line[i - 1]
      BY <2>0
    <3> HIDE DEF longer
    <3>5. longer[n] = above /\ longer[1] = parent
      <4>1. 1 \in 0..n /\ n \in 0..n /\ 1 - 1 = 0
        BY <2>0
      <4> QED BY <1>8, <3>1, <3>4, <4>1
    <3>6. ASSUME NEW i \in 0..n PROVE \E f \in folderRows' : f.id = longer[i] /\ (i < n => f.parent = longer[i + 1])
      <4>1. CASE i = 0
        BY <3>4, <3>5, <4>1
      <4>2. CASE i # 0
        <5>1. i - 1 \in 0..(n - 1) /\ (i < n => i - 1 < n - 1 /\ i + 1 \in 0..n /\ (i + 1) - 1 = (i - 1) + 1 /\ i + 1 # 0)
          BY <2>0, <4>2
        <5>2. PICK f \in folderRows : f.id = line[i - 1] /\ (i - 1 < n - 1 => f.parent = line[(i - 1) + 1])
          BY <3>1, <5>1
        <5>3. longer[i] = line[i - 1] /\ (i < n => longer[i + 1] = line[(i - 1) + 1])
          BY <3>4, <4>2, <5>1
        <5> QED BY <5>1, <5>2, <5>3
      <4> QED BY <4>1, <4>2
    <3>7. Lineage(longer, id, n, above)'
      BY <3>4, <3>5, <3>6 DEF Lineage
    <3> QED BY <3>3, <3>7
  <2>3. ASSUME NEW longer \in [0..n -> FolderIds], Lineage(longer, id, n, above)'
        PROVE  parent \in FolderIds /\ \E line \in [0..(n - 1) -> FolderIds] : Lineage(line, parent, n - 1, above)
    <3> DEFINE line == [i \in 0..(n - 1) |-> longer[i + 1]]
    <3>1. /\ longer[0] = id /\ longer[n] = above
          /\ \A i \in 0..n : \E f \in folderRows' : f.id = longer[i] /\ (i < n => f.parent = longer[i + 1])
      BY <2>3 DEF Lineage
    <3>2. longer[1] = parent /\ 1 \in 0..n
      <4>1. 0 \in 0..n /\ 0 < n /\ 0 + 1 = 1 /\ 1 \in 0..n
        BY <2>0
      <4>2. PICK f \in folderRows' : f.id = id /\ f.parent = longer[1]
        BY <3>1, <4>1
      <4> QED BY <1>4, <4>1, <4>2
    <3>3. line \in [0..(n - 1) -> FolderIds]
      <4>1. \A i \in 0..(n - 1) : i + 1 \in 0..n
        BY <2>0
      <4> QED BY <4>1
    <3>4. \A i \in 0..(n - 1) : line[i] = longer[i + 1]
      OBVIOUS
    <3> HIDE DEF line
    <3>5. line[0] = parent /\ line[n - 1] = above
      <4>1. 0 \in 0..(n - 1) /\ n - 1 \in 0..(n - 1) /\ 0 + 1 = 1
        BY <2>0
      <4> QED BY <2>0, <3>1, <3>2, <3>4, <4>1
    <3>6. ASSUME NEW i \in 0..n, i # 0 PROVE longer[i] # id
      <4>1. i - 1 \in 0..n /\ i - 1 < n /\ (i - 1) + 1 = i
        BY <3>6
      <4>2. PICK f \in folderRows' : f.parent = longer[i]
        BY <3>1, <4>1
      <4> QED BY <1>4, <4>2
    <3>7. ASSUME NEW i \in 0..(n - 1) PROVE \E f \in folderRows : f.id = line[i] /\ (i < n - 1 => f.parent = line[i + 1])
      <4>1. i + 1 \in 0..n /\ i + 1 # 0 /\ (i < n - 1 => i + 1 < n /\ i + 1 \in 0..(n - 1))
        BY <2>0
      <4>2. PICK f \in folderRows' : f.id = longer[i + 1] /\ (i + 1 < n => f.parent = longer[(i + 1) + 1])
        BY <3>1, <4>1
      <4>3. f # row
        BY <3>6, <4>1, <4>2
      <4>4. line[i] = longer[i + 1] /\ (i < n - 1 => line[i + 1] = longer[(i + 1) + 1])
        BY <3>4, <4>1
      <4> QED BY <4>1, <4>2, <4>3, <4>4
    <3>8. Lineage(line, parent, n - 1, above)
      BY <3>5, <3>7 DEF Lineage
    <3> QED BY <3>2, <3>3, <3>8
  <2>4. parent \in FolderIds =>
          (<<above, parent, n - 1>> \in closure <=> \E line \in [0..(n - 1) -> FolderIds] : Lineage(line, parent, n - 1, above))
    BY <1>0, <2>0 DEF ClosureIsAncestry
  <2>5. (\E line \in [0..n -> FolderIds] : Lineage(line, id, n, above)') <=> parent \in FolderIds /\ <<above, parent, n - 1>> \in closure
    BY <2>2, <2>3, <2>4
  <2> QED BY <2>1, <2>5
<1>9. ASSUME NEW other \in FolderIds, NEW above \in FolderIds, NEW n \in 0..MAX_FOLDER_DEPTH
      PROVE  (<<above, other, n>> \in closure <=> \E line \in [0..n -> FolderIds] : Lineage(line, other, n, above))'
  <2>1. CASE other # id
    BY <1>6, <2>1
  <2>2. CASE other = id /\ n = 0
    BY <1>7, <2>2
  <2>3. CASE other = id /\ n # 0
    BY <1>8, <2>3
  <2> QED BY <2>1, <2>2, <2>3
<1> QED BY <1>9 DEF ClosureIsAncestry

\* What a check allows may be done.
LEMMA AllowedMayLieIn ==
  ASSUME RowsAreNumbered, NEW id, NEW cls, Allows(id, cls)
  PROVE  MayLieIn(id, cls) /\ (id = NoFolder \/ FolderExists(id))
<1>1. CASE id = NoFolder
  BY <1>1 DEF MayLieIn
<1>2. CASE id # NoFolder
  <2>1. PICK f \in folderRows : f.id = id
    BY <1>2 DEF Allows, LiveFolder
  <2>2. FolderOf(id) = f
    BY <2>1, FolderIsFound
  <2> QED BY <1>2, <2>1, <2>2 DEF Allows, MayLieIn, FolderExists
<1> QED BY <1>1, <1>2

\* Nothing lies below NoFolder.
LEMMA NothingIsBelowNoFolder ==
  ASSUME FolderTypes, NEW r \in closure
  PROVE  r[2] # NoFolder
BY DEF FolderTypes, FolderIds, NoFolder

\* A folder or a file is checked.
LEMMA FolderChecks ==
  ASSUME FoldersInv, NEW c \in FolderCalls, NEW id \in FolderIds \cup {NoFolder}, NEW cls \in Classes,
         CreateFolderCheck(c, id, cls) \/ UploadInto(c, id, cls)
  PROVE  FoldersInv'
<1>0. FolderTypes /\ RowsAreNumbered
  BY DEF FoldersInv
<1>1. CASE CreateFolderCheck(c, id, cls)
  <2> DEFINE call == [op |-> "create", folder |-> id, cls |-> cls]
  <2>1. /\ Allows(id, cls) /\ (id # NoFolder => DepthLeft(id))
        /\ folderCall' = [folderCall EXCEPT ![c] = call] /\ UNCHANGED <<folderRows, closure, placed, overtaken>>
    BY <1>1 DEF CreateFolderCheck
  <2>2. call \in FolderCall /\ call.op = "create" /\ call.folder = id /\ call.cls = cls
    BY DEF FolderCall
  <2> HIDE DEF call
  <2>3. MayLieIn(id, cls) /\ (id = NoFolder \/ FolderExists(id))
    BY <1>0, <2>1, AllowedMayLieIn
  <2>4. \A r \in closure : r[2] = id => r[3] < MAX_FOLDER_DEPTH
    <3>1. CASE id = NoFolder
      BY <1>0, <3>1, NothingIsBelowNoFolder
    <3>2. CASE id # NoFolder
      BY <2>1, <2>3, <3>2, DepthIsMeasured
    <3> QED BY <3>1, <3>2
  <2> QED BY <2>1, <2>2, <2>3, <2>4, FolderCallBegins
<1>2. CASE UploadInto(c, id, cls)
  <2> DEFINE call == [op |-> "upload", folder |-> id, cls |-> cls]
  <2>1. /\ Allows(id, cls)
        /\ folderCall' = [folderCall EXCEPT ![c] = call] /\ UNCHANGED <<folderRows, closure, placed, overtaken>>
    BY <1>2 DEF UploadInto
  <2>2. call \in FolderCall /\ call.op = "upload" /\ call.folder = id /\ call.cls = cls
    BY DEF FolderCall
  <2> HIDE DEF call
  <2>3. MayLieIn(id, cls)
    BY <1>0, <2>1, AllowedMayLieIn
  <2> QED BY <2>1, <2>2, <2>3, FolderCallBegins
<1> QED BY <1>1, <1>2

\* A deletion is checked.
LEMMA DeletionChecks ==
  ASSUME FoldersInv, NEW c \in FolderCalls, NEW id \in FolderIds, DeleteFolder(c, id)
  PROVE  FoldersInv'
<1> DEFINE call == [op |-> "drop", folder |-> id, cls |-> 0]
<1>1. /\ id # NoFolder /\ LiveFolder(id) /\ ~Holds(id)
      /\ folderCall' = [folderCall EXCEPT ![c] = call] /\ UNCHANGED <<folderRows, closure, placed, overtaken>>
  BY DEF DeleteFolder
<1>2. call \in FolderCall /\ call.op = "drop" /\ call.folder = id
  BY FileFoldersAssumption DEF FolderCall, Classes
<1> HIDE DEF call
<1>3. FolderExists(id)
  BY <1>1 DEF LiveFolder, FolderExists
<1> QED BY <1>1, <1>2, <1>3, FolderCallBegins

\* A folder is inserted.
LEMMA FolderIsCreated ==
  ASSUME FoldersInv, NEW c \in FolderCalls, CreateFolder(c)
  PROVE  FoldersInv'
<1> DEFINE id == Cardinality(folderRows) + 1
           call == folderCall[c]
           row == [id |-> id, parent |-> call.folder, cls |-> call.cls, deleted |-> FALSE]
<1>0. /\ FolderTypes /\ RowsAreNumbered /\ ClosureIsOfRows /\ FoldersDescend /\ FilesDescend
      /\ \A d \in FolderCalls : FolderCallIsRight(d)
  BY DEF FoldersInv
<1>1. /\ call.op = "create" /\ id \in FolderIds
      /\ folderRows' = folderRows \cup {row} /\ closure' = closure \cup ClosureRows(id, call.folder)
      /\ folderCall' = [folderCall EXCEPT ![c] = IdleFolderCall] /\ UNCHANGED <<placed, overtaken>>
  BY DEF CreateFolder
<1>2. /\ MayLieIn(call.folder, call.cls) /\ \A r \in closure : r[2] = call.folder => r[3] < MAX_FOLDER_DEPTH
  BY <1>0, <1>1 DEF FolderCallIsRight
<1>3. call.folder = NoFolder \/ FolderExists(call.folder)
  BY <1>2 DEF MayLieIn, FolderExists
<1>4. call \in FolderCall
  BY <1>0 DEF FolderTypes
<1>5. row \in FolderRow /\ row.id = id /\ row.parent = call.folder /\ row.cls = call.cls /\ ~row.deleted
  BY <1>1, <1>4 DEF FolderRow, FolderCall
<1>6. Cardinality(folderRows) \in Nat /\ id = Cardinality(folderRows) + 1
  BY <1>0, FS_CardinalityType DEF FolderTypes
<1> HIDE DEF id, row, call
<1>7. ClosureIsAncestry'
  BY <1>1, <1>3, <1>5, <1>6, AncestryGrows
<1>8. /\ folderCall' \in [FolderCalls -> FolderCall] /\ folderCall'[c] = IdleFolderCall
      /\ \A d \in FolderCalls : d # c => folderCall'[d] = folderCall[d]
  <2>1. IdleFolderCall \in FolderCall
    BY FileFoldersAssumption DEF IdleFolderCall, FolderCall, Classes
  <2> QED BY <1>0, <1>1, <2>1, OneFolderCallMoves
<1>9. \A f \in folderRows : f.id \in FolderIds /\ f.id < id /\ f.parent \in FolderIds \cup {NoFolder} /\ f.cls \in Nat
  <2> SUFFICES ASSUME NEW f \in folderRows
               PROVE  f.id \in FolderIds /\ f.id < id /\ f.parent \in FolderIds \cup {NoFolder} /\ f.cls \in Nat
    OBVIOUS
  <2>1. f.id \in FolderIds /\ f.parent \in FolderIds \cup {NoFolder} /\ f.cls \in Nat
    BY <1>0 DEF FolderTypes, FolderRow, Classes
  <2>2. f.id <= Cardinality(folderRows)
    BY <1>0 DEF RowsAreNumbered
  <2> QED BY <1>6, <2>1, <2>2 DEF FolderIds
<1>10. row \notin folderRows /\ Cardinality(folderRows') = id
  <2>1. row \notin folderRows
    <3>1. ~(id < id)
      BY <1>6
    <3> QED BY <1>5, <1>9, <3>1
  <2>2. Cardinality(folderRows \cup {row}) = Cardinality(folderRows) + 1
    BY <1>0, <2>1, FS_AddElement DEF FolderTypes
  <2> QED BY <1>1, <1>6, <2>1, <2>2
<1>11. \A r \in closure' : r \notin closure =>
         \/ r = <<id, id, 0>>
         \/ \E q \in closure : q[2] = call.folder /\ r = <<q[1], id, q[3] + 1>> /\ q[3] < MAX_FOLDER_DEPTH
  BY <1>1, <1>2 DEF ClosureRows
<1>12. \A q \in closure : q = <<q[1], q[2], q[3]>> /\ q[1] \in FolderIds /\ q[2] \in FolderIds /\ q[3] \in 0..MAX_FOLDER_DEPTH
                          /\ q[2] # id
  <2> SUFFICES ASSUME NEW q \in closure PROVE q[2] # id
    BY <1>0 DEF FolderTypes
  <2>1. PICK f \in folderRows : f.id = q[2]
    BY <1>0 DEF ClosureIsOfRows, FolderExists
  <2>2. f.id < id /\ f.id \in Nat
    BY <1>9 DEF FolderIds
  <2> QED BY <1>6, <2>1, <2>2
<1>13. FolderTypes'
  <2>1. folderRows' \subseteq FolderRow /\ IsFiniteSet(folderRows')
    <3>1. IsFiniteSet(folderRows \cup {row})
      BY <1>0, FS_AddElement DEF FolderTypes
    <3> QED BY <1>0, <1>1, <1>5, <3>1 DEF FolderTypes
  <2>2. ASSUME NEW r \in closure' PROVE r \in FolderIds \X FolderIds \X (0..MAX_FOLDER_DEPTH)
    <3>1. CASE r \in closure
      BY <1>0, <3>1 DEF FolderTypes
    <3>2. CASE r = <<id, id, 0>>
      <4>1. 0 \in 0..MAX_FOLDER_DEPTH
        BY FileFoldersAssumption
      <4> QED BY <1>1, <3>2, <4>1
    <3>3. ASSUME NEW q \in closure, r = <<q[1], id, q[3] + 1>>, q[3] < MAX_FOLDER_DEPTH
          PROVE  r \in FolderIds \X FolderIds \X (0..MAX_FOLDER_DEPTH)
      <4>1. q[1] \in FolderIds /\ q[3] \in 0..MAX_FOLDER_DEPTH
        BY <1>12
      <4>2. q[3] + 1 \in 0..MAX_FOLDER_DEPTH
        BY <3>3, <4>1, FileFoldersAssumption
      <4> QED BY <1>1, <3>3, <4>1, <4>2
    <3> QED BY <1>11, <3>1, <3>2, <3>3
  <2> QED BY <1>0, <1>1, <1>8, <2>1, <2>2 DEF FolderTypes
<1>14. RowsAreNumbered'
  <2>1. ASSUME NEW f \in folderRows'
        PROVE  /\ f.id <= Cardinality(folderRows')
               /\ \A g \in folderRows' : g.id = f.id => g = f
               /\ f.parent = NoFolder \/ (f.parent < f.id /\ \E g \in folderRows' : g.id = f.parent)
    <3>1. CASE f = row
      <4>1. f.id = id /\ id <= Cardinality(folderRows')
        BY <1>5, <1>6, <1>10, <3>1
      <4>2. ASSUME NEW g \in folderRows', g.id = f.id PROVE g = f
        <5>1. g \notin folderRows
          <6>1. ~(id < id)
            BY <1>6
          <6> QED BY <1>9, <4>1, <4>2, <6>1
        <5> QED BY <1>1, <3>1, <5>1
      <4>3. f.parent = NoFolder \/ (f.parent < f.id /\ \E g \in folderRows' : g.id = f.parent)
        <5>1. CASE call.folder = NoFolder
          BY <1>5, <3>1, <5>1
        <5>2. CASE FolderExists(call.folder)
          <6>1. PICK g \in folderRows : g.id = call.folder
            BY <5>2 DEF FolderExists
          <6>2. g.id < id /\ g \in folderRows'
            BY <1>1, <1>9
          <6> QED BY <1>5, <3>1, <4>1, <6>1, <6>2
        <5> QED BY <1>3, <5>1, <5>2
      <4> QED BY <4>1, <4>2, <4>3
    <3>2. CASE f \in folderRows
      <4>1. /\ f.id <= Cardinality(folderRows)
            /\ \A g \in folderRows : g.id = f.id => g = f
            /\ f.parent = NoFolder \/ (f.parent < f.id /\ FolderExists(f.parent))
        BY <1>0, <3>2 DEF RowsAreNumbered
      <4>2. f.id \in Nat /\ f.id < id
        BY <1>9, <3>2 DEF FolderIds
      <4>3. f.id <= Cardinality(folderRows')
        BY <1>6, <1>10, <4>2
      <4>4. \A g \in folderRows' : g.id = f.id => g = f
        BY <1>1, <1>5, <1>6, <4>1, <4>2
      <4> QED BY <1>1, <4>1, <4>3, <4>4 DEF FolderExists
    <3> QED BY <1>1, <3>1, <3>2
  <2> QED BY <2>1 DEF RowsAreNumbered, FolderExists
<1>15. ClosureIsOfRows'
  <2>1. ASSUME NEW r \in closure'
        PROVE  (\E f \in folderRows' : f.id = r[1]) /\ \E f \in folderRows' : f.id = r[2]
    <3>1. CASE r \in closure
      BY <1>0, <1>1, <3>1 DEF ClosureIsOfRows, FolderExists
    <3>2. CASE r = <<id, id, 0>>
      BY <1>1, <1>5, <3>2
    <3>3. ASSUME NEW q \in closure, r = <<q[1], id, q[3] + 1>>
          PROVE  (\E f \in folderRows' : f.id = r[1]) /\ \E f \in folderRows' : f.id = r[2]
      <4>1. r[1] = q[1] /\ r[2] = id
        BY <3>3
      <4>2. \E f \in folderRows : f.id = q[1]
        BY <1>0 DEF ClosureIsOfRows, FolderExists
      <4> QED BY <1>1, <1>5, <4>1, <4>2
    <3> QED BY <1>11, <3>1, <3>2, <3>3
  <2> QED BY <2>1 DEF ClosureIsOfRows, FolderExists
<1>16. FoldersDescend'
  <2> SUFFICES ASSUME NEW f \in folderRows', NEW g \in folderRows', NEW n \in 0..MAX_FOLDER_DEPTH,
                      <<g.id, f.id, n>> \in closure'
               PROVE  f.cls >= g.cls
    BY DEF FoldersDescend
  <2>0. \A h \in folderRows' : h.id = id => h = row
    <3>1. ~(id < id)
      BY <1>6
    <3> QED BY <1>1, <1>9, <3>1
  <2>1. CASE <<g.id, f.id, n>> \in closure
    <3>1. f.id # id
      BY <1>12, <2>1
    <3>2. f \in folderRows
      BY <1>1, <1>5, <3>1
    <3>3. PICK h \in folderRows : h.id = g.id
      BY <1>0, <2>1 DEF ClosureIsOfRows, FolderExists
    <3>4. g \in folderRows
      <4>1. h.id < id /\ id \in Nat /\ h.id \in Nat
        BY <1>6, <1>9 DEF FolderIds
      <4>2. g.id # id
        BY <3>3, <4>1
      <4> QED BY <1>1, <1>5, <4>2
    <3> QED BY <1>0, <2>1, <3>2, <3>4 DEF FoldersDescend
  <2>2. CASE <<g.id, f.id, n>> = <<id, id, 0>>
    <3>1. f = row /\ g = row
      BY <2>0, <2>2
    <3>2. row.cls \in Nat
      BY <1>5 DEF FolderRow, Classes
    <3> QED BY <3>1, <3>2
  <2>3. ASSUME NEW q \in closure, q[2] = call.folder, <<g.id, f.id, n>> = <<q[1], id, q[3] + 1>>
        PROVE  f.cls >= g.cls
    <3>1. f = row /\ g.id = q[1]
      BY <2>0, <2>3
    <3>2. q = <<q[1], q[2], q[3]>> /\ q[3] \in 0..MAX_FOLDER_DEPTH
      BY <1>12
    <3>3. PICK h \in folderRows : h.id = q[1]
      BY <1>0 DEF ClosureIsOfRows, FolderExists
    <3>4. g = h
      <4>1. h.id < id /\ id \in Nat /\ h.id \in Nat
        BY <1>6, <1>9 DEF FolderIds
      <4>2. g \in folderRows
        BY <1>1, <1>5, <3>1, <3>3, <4>1
      <4> QED BY <1>0, <3>1, <3>3, <4>2 DEF RowsAreNumbered
    <3>5. PICK p \in folderRows : p.id = q[2] /\ call.cls >= p.cls
      BY <1>0, <1>2, <2>3, NothingIsBelowNoFolder DEF MayLieIn
    <3>6. p.cls >= h.cls
      BY <1>0, <3>2, <3>3, <3>5 DEF FoldersDescend
    <3>7. p.cls \in Nat /\ h.cls \in Nat /\ call.cls \in Nat
      BY <1>4, <1>9 DEF FolderCall, Classes
    <3> QED BY <1>5, <3>1, <3>4, <3>5, <3>6, <3>7
  <2> QED BY <1>11, <2>1, <2>2, <2>3
<1>17. ASSUME NEW f, NEW cls, MayLieIn(f, cls) PROVE MayLieIn(f, cls)'
  BY <1>1, <1>17 DEF MayLieIn
<1>18. FilesDescend'
  <2>1. \A r \in placed : MayLieIn(r.folder, r.cls)'
    BY <1>0, <1>17 DEF FilesDescend
  <2>2. ASSUME NEW r \in placed' PROVE MayLieIn(r.folder, r.cls)'
    BY <1>1, <2>1, <2>2
  <2> QED BY <2>2 DEF FilesDescend
<1>19. ASSUME NEW d \in FolderCalls PROVE FolderCallIsRight(d)'
  <2>1. CASE d = c
    BY <1>8, <2>1 DEF FolderCallIsRight, IdleFolderCall
  <2>2. CASE d # c
    <3>0. PICK other \in FolderCall : other = folderCall[d]
      BY <1>0 DEF FolderTypes
    <3>1. folderCall'[d] = other
      BY <1>8, <2>2, <3>0
    <3>2. /\ other.op \in {"create", "upload"} => MayLieIn(other.folder, other.cls)
          /\ other.op = "create" => \A r \in closure : r[2] = other.folder => r[3] < MAX_FOLDER_DEPTH
          /\ other.op = "drop" => FolderExists(other.folder) /\ (overtaken \/ ~Holds(other.folder))
      BY <1>0, <3>0 DEF FolderCallIsRight
    <3>3. other.op \in {"create", "upload"} => MayLieIn(other.folder, other.cls)'
      BY <1>17, <3>2
    <3>4. ASSUME other.op = "create" PROVE other.folder # id
      <4>1. CASE other.folder = NoFolder
        BY <1>6, <4>1 DEF NoFolder
      <4>2. ASSUME NEW f \in folderRows, f.id = other.folder PROVE other.folder # id
        <5>1. f.id < id /\ f.id \in Nat
          BY <1>9 DEF FolderIds
        <5> QED BY <1>6, <4>2, <5>1
      <4> QED BY <3>2, <3>4, <4>1, <4>2 DEF MayLieIn
    <3>5. other.op = "create" => \A r \in closure' : r[2] = other.folder => r[3] < MAX_FOLDER_DEPTH
      <4>1. \A r \in closure' : r \notin closure => r[2] = id
        BY <1>11
      <4> QED BY <3>2, <3>4, <4>1
    <3>6. other.op = "drop" => (\E f \in folderRows' : f.id = other.folder) /\ (overtaken' \/ ~(\E r \in placed' : r.folder = other.folder /\ ~r.deleted))
      BY <1>1, <3>2 DEF FolderExists, Holds
    <3> QED BY <3>1, <3>3, <3>5, <3>6 DEF FolderCallIsRight, FolderExists, Holds
  <2> QED BY <2>1, <2>2
<1>20. FileIsReachable'
  <2>1. \A r \in placed : ~r.deleted /\ ~overtaken => (r.folder = NoFolder \/ \E f \in folderRows : f.id = r.folder /\ ~f.deleted)
    BY DEF FoldersInv, FileIsReachable, LiveFolder
  <2> QED BY <1>1, <2>1 DEF FileIsReachable, LiveFolder
<1> QED BY <1>7, <1>13, <1>14, <1>15, <1>16, <1>18, <1>19, <1>20 DEF FoldersInv

\* Only files change.
LEMMA FilesChange ==
  ASSUME FoldersInv, UNCHANGED <<folderRows, closure>>, placed' \subseteq PlacedStates, IsFiniteSet(placed'),
         \A r \in placed' : MayLieIn(r.folder, r.cls),
         folderCall' \in [FolderCalls -> FolderCall], overtaken' \in BOOLEAN,
         \A d \in FolderCalls : folderCall'[d] = IdleFolderCall \/ folderCall'[d] = folderCall[d],
         \A d \in FolderCalls : folderCall'[d] = folderCall[d] /\ folderCall[d].op = "drop" =>
           overtaken' \/ ~(\E r \in placed' : r.folder = folderCall[d].folder /\ ~r.deleted),
         \A r \in placed' : ~r.deleted /\ ~overtaken' => LiveFolder(r.folder)
  PROVE  FoldersInv'
<1>0. FolderTypes /\ \A d \in FolderCalls : FolderCallIsRight(d)
  BY DEF FoldersInv
<1>1. ClosureIsAncestry'
  BY AncestryStands DEF FoldersInv
<1>2. RowsAreNumbered' /\ ClosureIsOfRows' /\ FoldersDescend'
  BY DEF FoldersInv, RowsAreNumbered, ClosureIsOfRows, FoldersDescend, FolderExists
<1>3. FolderTypes' /\ FilesDescend' /\ FileIsReachable'
  BY <1>0 DEF FolderTypes, FilesDescend, MayLieIn, FileIsReachable, LiveFolder
<1>4. ASSUME NEW d \in FolderCalls PROVE FolderCallIsRight(d)'
  <2>1. CASE folderCall'[d] = IdleFolderCall
    BY <2>1 DEF FolderCallIsRight, IdleFolderCall
  <2>2. CASE folderCall'[d] = folderCall[d]
    BY <1>0, <2>2 DEF FolderCallIsRight, MayLieIn, FolderExists, Holds
  <2> QED BY <2>1, <2>2
<1> QED BY <1>1, <1>2, <1>3, <1>4 DEF FoldersInv

\* A file is inserted,
LEMMA FileIsPlaced ==
  ASSUME FoldersInv, NEW c \in FolderCalls, PlaceFile(c)
  PROVE  FoldersInv'
<1> DEFINE call == folderCall[c]
           file == [id |-> Cardinality(placed) + 1, folder |-> call.folder, cls |-> call.cls, deleted |-> FALSE]
<1>0. FolderTypes /\ FilesDescend /\ \A d \in FolderCalls : FolderCallIsRight(d)
  BY DEF FoldersInv
<1>1. /\ call.op = "upload" /\ placed' = placed \cup {file}
      /\ folderCall' = [folderCall EXCEPT ![c] = IdleFolderCall]
      /\ overtaken' = (overtaken \/ ~LiveFolder(call.folder) \/ BeingDropped(call.folder))
      /\ UNCHANGED <<folderRows, closure>>
  BY DEF PlaceFile
<1>2. call \in FolderCall /\ MayLieIn(call.folder, call.cls)
  BY <1>0, <1>1 DEF FolderTypes, FolderCallIsRight
<1>3. file \in PlacedStates /\ file.folder = call.folder /\ file.cls = call.cls /\ ~file.deleted
  <2>1. Cardinality(placed) + 1 \in Nat
    BY <1>0, FS_CardinalityType DEF FolderTypes
  <2> QED BY <1>2, <2>1 DEF PlacedStates, FolderCall
<1> HIDE DEF call, file
<1>4. placed' \subseteq PlacedStates /\ IsFiniteSet(placed')
  <2>1. IsFiniteSet(placed \cup {file})
    BY <1>0, FS_AddElement DEF FolderTypes
  <2> QED BY <1>0, <1>1, <1>3, <2>1 DEF FolderTypes
<1>5. \A r \in placed' : MayLieIn(r.folder, r.cls)
  BY <1>0, <1>1, <1>2, <1>3 DEF FilesDescend
<1>6. /\ folderCall' \in [FolderCalls -> FolderCall] /\ folderCall'[c] = IdleFolderCall
      /\ \A d \in FolderCalls : d # c => folderCall'[d] = folderCall[d]
  <2>1. IdleFolderCall \in FolderCall
    BY FileFoldersAssumption DEF IdleFolderCall, FolderCall, Classes
  <2> QED BY <1>0, <1>1, <2>1, OneFolderCallMoves
<1>7. \A d \in FolderCalls : folderCall'[d] = IdleFolderCall \/ folderCall'[d] = folderCall[d]
  BY <1>6
<1>8. overtaken' \in BOOLEAN
  BY <1>1, Zenon
<1>9. ASSUME NEW d \in FolderCalls, folderCall[d].op = "drop"
      PROVE  overtaken' \/ ~(\E r \in placed' : r.folder = folderCall[d].folder /\ ~r.deleted)
  <2>1. CASE folderCall[d].folder = call.folder
    BY <1>1, <1>9, <2>1, Zenon DEF BeingDropped
  <2>2. CASE folderCall[d].folder # call.folder
    <3>1. overtaken \/ ~Holds(folderCall[d].folder)
      BY <1>0, <1>9 DEF FolderCallIsRight
    <3>2. CASE overtaken
      BY <1>1, <3>2, Zenon
    <3>3. CASE ~Holds(folderCall[d].folder)
      BY <1>1, <1>3, <2>2, <3>3, Zenon DEF Holds
    <3> QED BY <3>1, <3>2, <3>3
  <2> QED BY <2>1, <2>2
<1>10. ASSUME NEW r \in placed', ~r.deleted, ~overtaken' PROVE LiveFolder(r.folder)
  <2>1. ~overtaken /\ LiveFolder(call.folder)
    BY <1>1, <1>10, Zenon
  <2>2. CASE r = file
    BY <1>3, <2>1, <2>2
  <2>3. CASE r \in placed
    BY <1>10, <2>1, <2>3 DEF FoldersInv, FileIsReachable
  <2> QED BY <1>1, <2>2, <2>3
<1> QED BY <1>1, <1>4, <1>5, <1>6, <1>7, <1>8, <1>9, <1>10, FilesChange

\* or deleted.
LEMMA FileIsDropped ==
  ASSUME FoldersInv, NEW r \in placed, DropFile(r)
  PROVE  FoldersInv'
<1> DEFINE gone == [r EXCEPT !.deleted = TRUE]
<1>0. FolderTypes /\ FilesDescend /\ \A d \in FolderCalls : FolderCallIsRight(d)
  BY DEF FoldersInv
<1>1. placed' = (placed \ {r}) \cup {gone} /\ UNCHANGED <<folderRows, closure, folderCall, overtaken>>
  BY DEF DropFile
<1>2. gone \in PlacedStates /\ gone.folder = r.folder /\ gone.cls = r.cls /\ gone.deleted
  BY <1>0 DEF FolderTypes, PlacedStates
<1> HIDE DEF gone
<1>3. placed' \subseteq PlacedStates /\ IsFiniteSet(placed')
  <2>1. IsFiniteSet((placed \ {r}) \cup {gone})
    BY <1>0, FS_AddElement, FS_RemoveElement DEF FolderTypes
  <2> QED BY <1>0, <1>1, <1>2, <2>1 DEF FolderTypes
<1>4. \A s \in placed' : MayLieIn(s.folder, s.cls)
  BY <1>0, <1>1, <1>2 DEF FilesDescend
<1>5. folderCall' \in [FolderCalls -> FolderCall] /\ overtaken' \in BOOLEAN
  BY <1>0, <1>1 DEF FolderTypes
<1>6. ASSUME NEW d \in FolderCalls, folderCall[d].op = "drop"
      PROVE  overtaken' \/ ~(\E s \in placed' : s.folder = folderCall[d].folder /\ ~s.deleted)
  BY <1>0, <1>1, <1>2, <1>6 DEF FolderCallIsRight, Holds
<1>7. \A s \in placed' : ~s.deleted /\ ~overtaken' => LiveFolder(s.folder)
  BY <1>1, <1>2 DEF FoldersInv, FileIsReachable
<1> QED BY <1>1, <1>3, <1>4, <1>5, <1>6, <1>7, FilesChange

\* A folder is flagged as deleted; its id, its parent and its classification stay.
LEMMA FolderIsDeleted ==
  ASSUME FoldersInv, NEW c \in FolderCalls, DeleteFolderSave(c)
  PROVE  FoldersInv'
<1>0. /\ FolderTypes /\ RowsAreNumbered /\ ClosureIsOfRows /\ FoldersDescend /\ FilesDescend
      /\ \A d \in FolderCalls : FolderCallIsRight(d)
  BY DEF FoldersInv
<1>1. folderCall[c].op = "drop" /\ UNCHANGED <<closure, placed, overtaken>>
      /\ folderCall' = [folderCall EXCEPT ![c] = IdleFolderCall]
      /\ folderRows' = (folderRows \ {FolderOf(folderCall[c].folder)})
                         \cup {[FolderOf(folderCall[c].folder) EXCEPT !.deleted = TRUE]}
  BY DEF DeleteFolderSave
<1>2. FolderExists(folderCall[c].folder) /\ (overtaken \/ ~Holds(folderCall[c].folder))
  BY <1>0, <1>1 DEF FolderCallIsRight
<1>3. PICK f \in folderRows : f.id = folderCall[c].folder /\ FolderOf(folderCall[c].folder) = f
  BY <1>0, <1>2, FolderIsFound DEF FolderExists
<1>4. PICK flagged \in FolderRow : flagged = [f EXCEPT !.deleted = TRUE] /\ flagged.id = f.id /\ flagged.parent = f.parent
                                   /\ flagged.cls = f.cls /\ flagged.deleted
  <2> DEFINE next == [f EXCEPT !.deleted = TRUE]
  <2>1. f \in FolderRow
    BY <1>0 DEF FolderTypes
  <2>2. next \in FolderRow /\ next.id = f.id /\ next.parent = f.parent /\ next.cls = f.cls /\ next.deleted
    BY <2>1 DEF FolderRow
  <2> HIDE DEF next
  <2>3. \E flagged \in FolderRow : flagged = next /\ flagged.id = f.id /\ flagged.parent = f.parent
                                   /\ flagged.cls = f.cls /\ flagged.deleted
    BY <2>2
  <2> QED BY <2>3 DEF next
<1>5. folderRows' = (folderRows \ {f}) \cup {flagged}
  BY <1>1, <1>3, <1>4
<1>6. \A g \in folderRows : \E h \in folderRows' : h.id = g.id /\ h.parent = g.parent /\ h.cls = g.cls
  BY <1>4, <1>5
<1>7. \A h \in folderRows' : \E g \in folderRows : h.id = g.id /\ h.parent = g.parent /\ h.cls = g.cls
  BY <1>4, <1>5
<1>8. IsFiniteSet(folderRows') /\ Cardinality(folderRows') = Cardinality(folderRows)
  <2>1. flagged \notin folderRows \ {f}
    BY <1>0, <1>3, <1>4 DEF RowsAreNumbered
  <2>2. IsFiniteSet(folderRows \ {f}) /\ Cardinality(folderRows \ {f}) = Cardinality(folderRows) - 1
    BY <1>0, FS_RemoveElement DEF FolderTypes
  <2>3. /\ IsFiniteSet((folderRows \ {f}) \cup {flagged})
        /\ Cardinality((folderRows \ {f}) \cup {flagged}) = Cardinality(folderRows \ {f}) + 1
    BY <2>1, <2>2, FS_AddElement
  <2>4. Cardinality(folderRows) \in Nat
    BY <1>0, FS_CardinalityType DEF FolderTypes
  <2> QED BY <1>5, <2>2, <2>3, <2>4
<1>9. /\ folderCall' \in [FolderCalls -> FolderCall] /\ folderCall'[c] = IdleFolderCall
      /\ \A d \in FolderCalls : d # c => folderCall'[d] = folderCall[d]
  <2>1. IdleFolderCall \in FolderCall
    BY FileFoldersAssumption DEF IdleFolderCall, FolderCall, Classes
  <2> QED BY <1>0, <1>1, <2>1, OneFolderCallMoves
<1>10. FolderTypes'
  BY <1>0, <1>1, <1>5, <1>8, <1>9 DEF FolderTypes
<1>11. RowsAreNumbered'
  <2>1. ASSUME NEW h \in folderRows'
        PROVE  /\ h.id <= Cardinality(folderRows')
               /\ \A k \in folderRows' : k.id = h.id => k = h
               /\ h.parent = NoFolder \/ (h.parent < h.id /\ \E k \in folderRows' : k.id = h.parent)
    <3>1. PICK g \in folderRows : h.id = g.id /\ h.parent = g.parent
      BY <1>7
    <3>2. /\ g.id <= Cardinality(folderRows)
          /\ g.parent = NoFolder \/ (g.parent < g.id /\ \E k \in folderRows : k.id = g.parent)
      BY <1>0 DEF RowsAreNumbered, FolderExists
    <3>3. \A k \in folderRows' : k.id = h.id => k = h
      BY <1>0, <1>4, <1>5 DEF RowsAreNumbered
    <3> QED BY <1>6, <1>8, <3>1, <3>2, <3>3
  <2> QED BY <2>1 DEF RowsAreNumbered, FolderExists
<1>12. \A id : FolderExists(id) => \E h \in folderRows' : h.id = id
  BY <1>6 DEF FolderExists
<1>13. ClosureIsOfRows'
  BY <1>0, <1>1, <1>12 DEF ClosureIsOfRows, FolderExists
<1>14. FoldersDescend'
  <2> SUFFICES ASSUME NEW h \in folderRows', NEW k \in folderRows', NEW n \in 0..MAX_FOLDER_DEPTH,
                      <<k.id, h.id, n>> \in closure
               PROVE  h.cls >= k.cls
    BY <1>1 DEF FoldersDescend
  <2>1. PICK g \in folderRows : h.id = g.id /\ h.cls = g.cls
    BY <1>7
  <2>2. PICK j \in folderRows : k.id = j.id /\ k.cls = j.cls
    BY <1>7
  <2> QED BY <1>0, <2>1, <2>2 DEF FoldersDescend
<1>15. \A id, cls : MayLieIn(id, cls) => (id = NoFolder \/ \E h \in folderRows' : h.id = id /\ cls >= h.cls)
  BY <1>6 DEF MayLieIn
<1>16. FilesDescend'
  BY <1>0, <1>1, <1>15 DEF FilesDescend, MayLieIn
<1>17. ASSUME NEW d \in FolderCalls PROVE FolderCallIsRight(d)'
  <2>1. CASE d = c
    BY <1>9, <2>1 DEF FolderCallIsRight, IdleFolderCall
  <2>2. CASE d # c
    <3>1. PICK call \in FolderCall : call = folderCall[d] /\ folderCall'[d] = call
      BY <1>0, <1>9, <2>2 DEF FolderTypes
    <3>2. /\ call.op \in {"create", "upload"} => MayLieIn(call.folder, call.cls)
          /\ call.op = "create" => \A r \in closure : r[2] = call.folder => r[3] < MAX_FOLDER_DEPTH
          /\ call.op = "drop" => FolderExists(call.folder) /\ (overtaken \/ ~Holds(call.folder))
      BY <1>0, <3>1 DEF FolderCallIsRight
    <3>3. call.op \in {"create", "upload"} => MayLieIn(call.folder, call.cls)'
      BY <1>15, <3>2 DEF MayLieIn
    <3>4. call.op = "drop" => FolderExists(call.folder)' /\ (overtaken' \/ ~Holds(call.folder)')
      BY <1>1, <1>12, <3>2 DEF FolderExists, Holds
    <3>5. call.op = "create" => \A r \in closure' : r[2] = call.folder => r[3] < MAX_FOLDER_DEPTH
      BY <1>1, <3>2
    <3> QED BY <3>1, <3>3, <3>4, <3>5 DEF FolderCallIsRight
  <2> QED BY <2>1, <2>2
<1>18. FileIsReachable'
  <2> SUFFICES ASSUME NEW r \in placed, ~r.deleted, ~overtaken
               PROVE  r.folder = NoFolder \/ \E h \in folderRows' : h.id = r.folder /\ ~h.deleted
    BY <1>1 DEF FileIsReachable, LiveFolder
  <2>1. r.folder = NoFolder \/ \E g \in folderRows : g.id = r.folder /\ ~g.deleted
    BY DEF FoldersInv, FileIsReachable, LiveFolder
  <2>2. r.folder # f.id
    BY <1>2, <1>3 DEF Holds
  <2> QED BY <1>5, <2>1, <2>2
<1>19. ASSUME NEW line, NEW id, NEW n, NEW above
       PROVE  Lineage(line, id, n, above)' <=> Lineage(line, id, n, above)
  <2>1. ASSUME Lineage(line, id, n, above) PROVE Lineage(line, id, n, above)'
    <3>1. /\ line[0] = id /\ line[n] = above
          /\ \A i \in 0..n : \E g \in folderRows : g.id = line[i] /\ (i < n => g.parent = line[i + 1])
      BY <2>1 DEF Lineage
    <3>2. \A i \in 0..n : \E g \in folderRows' : g.id = line[i] /\ (i < n => g.parent = line[i + 1])
      BY <1>6, <3>1
    <3> QED BY <3>1, <3>2 DEF Lineage
  <2>2. ASSUME Lineage(line, id, n, above)' PROVE Lineage(line, id, n, above)
    <3>1. /\ line[0] = id /\ line[n] = above
          /\ \A i \in 0..n : \E g \in folderRows' : g.id = line[i] /\ (i < n => g.parent = line[i + 1])
      BY <2>2 DEF Lineage
    <3>2. \A i \in 0..n : \E g \in folderRows : g.id = line[i] /\ (i < n => g.parent = line[i + 1])
      BY <1>7, <3>1
    <3> QED BY <3>1, <3>2 DEF Lineage
  <2> QED BY <2>1, <2>2
<1>20. ClosureIsAncestry'
  <2>1. ASSUME NEW id \in FolderIds, NEW above \in FolderIds, NEW n \in 0..MAX_FOLDER_DEPTH
        PROVE  (<<above, id, n>> \in closure <=> \E line \in [0..n -> FolderIds] : Lineage(line, id, n, above))'
    <3>1. <<above, id, n>> \in closure <=> \E line \in [0..n -> FolderIds] : Lineage(line, id, n, above)
      BY DEF FoldersInv, ClosureIsAncestry
    <3>2. (\E line \in [0..n -> FolderIds] : Lineage(line, id, n, above)') <=> \E line \in [0..n -> FolderIds] : Lineage(line, id, n, above)
      BY <1>19
    <3> QED BY <1>1, <3>1, <3>2
  <2> QED BY <2>1 DEF ClosureIsAncestry
<1> QED BY <1>10, <1>11, <1>13, <1>14, <1>16, <1>17, <1>18, <1>20 DEF FoldersInv

\* Every step of the specification keeps the inductive invariant.
LEMMA FoldersNextInv == FoldersInv /\ [FileFoldersNext]_folderVars => FoldersInv'
<1> SUFFICES ASSUME FoldersInv, [FileFoldersNext]_folderVars PROVE FoldersInv'
  OBVIOUS
<1>1. ASSUME NEW c \in FolderCalls, NEW f \in FolderIds \cup {NoFolder}, NEW cls \in Classes,
             CreateFolderCheck(c, f, cls) \/ UploadInto(c, f, cls)
      PROVE  FoldersInv'
  BY <1>1, FolderChecks
<1>2. ASSUME NEW c \in FolderCalls, CreateFolder(c) PROVE FoldersInv'
  BY <1>2, FolderIsCreated
<1>3. ASSUME NEW c \in FolderCalls, PlaceFile(c) PROVE FoldersInv'
  BY <1>3, FileIsPlaced
<1>4. ASSUME NEW c \in FolderCalls, NEW f \in FolderIds, DeleteFolder(c, f) PROVE FoldersInv'
  BY <1>4, DeletionChecks
<1>5. ASSUME NEW c \in FolderCalls, DeleteFolderSave(c) PROVE FoldersInv'
  BY <1>5, FolderIsDeleted
<1>6. ASSUME NEW r \in placed, DropFile(r) PROVE FoldersInv'
  BY <1>6, FileIsDropped
<1>7. CASE UNCHANGED folderVars
  <2>1. UNCHANGED <<folderRows, closure, placed, folderCall, overtaken>>
    BY <1>7 DEF folderVars
  <2>2. /\ placed' \subseteq PlacedStates /\ IsFiniteSet(placed') /\ folderCall' \in [FolderCalls -> FolderCall]
        /\ overtaken' \in BOOLEAN /\ \A r \in placed' : MayLieIn(r.folder, r.cls)
    BY <2>1 DEF FoldersInv, FolderTypes, FilesDescend
  <2>3. \A d \in FolderCalls : folderCall[d].op = "drop" =>
          overtaken' \/ ~(\E r \in placed' : r.folder = folderCall[d].folder /\ ~r.deleted)
    BY <2>1 DEF FoldersInv, FolderCallIsRight, Holds
  <2>4. \A r \in placed' : ~r.deleted /\ ~overtaken' => LiveFolder(r.folder)
    BY <2>1 DEF FoldersInv, FileIsReachable
  <2> QED BY <2>1, <2>2, <2>3, <2>4, FilesChange
<1> QED BY <1>1, <1>2, <1>3, <1>4, <1>5, <1>6, <1>7 DEF FileFoldersNext

-----------------------------------------------------------------------------
\* Permissions.
\* What a call may hold.
AccessStates == AccessCallStates \cup {IdleAccessCall}

\* What a call will save is in force after a grant, and not after a revocation.
SavesItsDecision ==
  \A c \in AccessCalls :
    /\ accessCall[c].op = "grant" => accessCall[c].saved.effect \in Effects /\ ~accessCall[c].saved.revoked
    /\ accessCall[c].op = "revoke" => accessCall[c].saved.revoked

\* The row of a permission that is not blurred is in force as it was decided.
RowIsAsDecided ==
  \A p \in Permissions \ blurred : \A e \in Effects : decided[p] = e <=> Active(p, e)

\* The inductive invariant.
AccessInv ==
  /\ permissionRow \in [Permissions -> PermissionRows]
  /\ accessCall \in [AccessCalls -> AccessStates]
  /\ decided \in [Permissions -> Effects \cup {"none"}]
  /\ SavesItsDecision /\ RowIsAsDecided

\* It implies the properties.
LEMMA AccessInvIsEnough == AccessInv => LastDecisionCounts
<1> SUFFICES ASSUME AccessInv, NEW g \in Grantees, NEW a \in PermissionActions,
                    blurred \cap {<<g, a>>, <<g, "write">>} = {}
             PROVE  /\ decided[<<g, a>>] = "deny" => ~CanAccess(g, a)
                    /\ decided[<<g, a>>] = "allow" /\ g \in Cleared => CanAccess(g, a)
                    /\ CanAccess(g, a) => g \in Cleared /\ \E b \in {a, "write"} : decided[<<g, b>>] = "allow"
  BY DEF LastDecisionCounts
<1>1. <<g, a>> \in Permissions \ blurred /\ <<g, "write">> \in Permissions \ blurred
  BY DEF Permissions, PermissionActions
<1>2. \A p \in {<<g, a>>, <<g, "write">>} : (decided[p] = "deny" <=> Active(p, "deny")) /\ (decided[p] = "allow" <=> Active(p, "allow"))
  BY <1>1 DEF AccessInv, RowIsAsDecided, Effects
<1> QED BY <1>2 DEF CanAccess

\* It holds at the start.
LEMMA AccessInitInv == FileAccessInit => AccessInv
<1> SUFFICES ASSUME FileAccessInit PROVE AccessInv
  OBVIOUS
<1>1. NoPermission \in PermissionRows /\ NoPermission.effect = "none" /\ IdleAccessCall.op = "idle"
  BY DEF NoPermission, PermissionRows, IdleAccessCall
<1>2. permissionRow \in [Permissions -> PermissionRows] /\ \A p \in Permissions : permissionRow[p].effect = "none" /\ decided[p] = "none"
  BY <1>1 DEF FileAccessInit
<1>3. accessCall \in [AccessCalls -> AccessStates] /\ \A c \in AccessCalls : accessCall[c].op = "idle"
  BY <1>1 DEF FileAccessInit, AccessStates
<1>4. decided \in [Permissions -> Effects \cup {"none"}]
  BY DEF FileAccessInit
<1> QED BY <1>2, <1>3, <1>4 DEF AccessInv, SavesItsDecision, RowIsAsDecided, Active, Effects

\* Every step of the specification keeps the inductive invariant.
LEMMA AccessNextInv == AccessInv /\ [FileAccessNext]_accessVars => AccessInv'
<1> SUFFICES ASSUME AccessInv, [FileAccessNext]_accessVars PROVE AccessInv'
  OBVIOUS
<1>t. /\ permissionRow \in [Permissions -> PermissionRows] /\ accessCall \in [AccessCalls -> AccessStates]
      /\ decided \in [Permissions -> Effects \cup {"none"}] /\ SavesItsDecision /\ RowIsAsDecided
  BY DEF AccessInv
<1>i. IdleAccessCall \in AccessStates /\ IdleAccessCall.op = "idle"
  BY DEF AccessStates, IdleAccessCall
<1>1. ASSUME NEW c \in AccessCalls, NEW call \in AccessStates, accessCall' = [accessCall EXCEPT ![c] = call],
             UNCHANGED <<permissionRow, decided, blurred>>,
             call.op = "grant" => call.saved.effect \in Effects /\ ~call.saved.revoked,
             call.op = "revoke" => call.saved.revoked
      PROVE  AccessInv'
  <2>1. /\ accessCall' \in [AccessCalls -> AccessStates] /\ accessCall'[c] = call
        /\ \A d \in AccessCalls : d # c => accessCall'[d] = accessCall[d]
    BY <1>t, <1>1
  <2> QED BY <1>t, <1>1, <2>1 DEF AccessInv, SavesItsDecision, RowIsAsDecided, Active
<1>2. ASSUME NEW c \in AccessCalls, NEW p \in Permissions, NEW e \in Effects, BeginGrant(c, p, e) PROVE AccessInv'
  <2> DEFINE saved == Granted(permissionRow[p], e)
             call == [op |-> "grant", on |-> p, copy |-> permissionRow[p], saved |-> saved, stale |-> FALSE]
  <2>1. saved \in PermissionRows /\ saved.effect = e /\ saved.revoked = FALSE
    BY <1>t DEF Granted, PermissionRows
  <2>2. accessCall' = [accessCall EXCEPT ![c] = call] /\ UNCHANGED <<permissionRow, decided, blurred>>
    BY <1>2 DEF BeginGrant
  <2> HIDE DEF saved
  <2>3. call \in AccessStates /\ call.op = "grant" /\ call.saved = saved
    BY <1>t, <2>1 DEF AccessStates, AccessCallStates, AccessOps
  <2> HIDE DEF call
  <2> QED BY <1>1, <2>1, <2>2, <2>3
<1>3. ASSUME NEW c \in AccessCalls, NEW p \in Permissions, BeginRevoke(c, p) PROVE AccessInv'
  <2> DEFINE saved == [permissionRow[p] EXCEPT !.revoked = TRUE]
             call == [op |-> "revoke", on |-> p, copy |-> permissionRow[p], saved |-> saved, stale |-> FALSE]
  <2>1. saved \in PermissionRows /\ saved.revoked = TRUE
    BY <1>t DEF PermissionRows
  <2>2. accessCall' = [accessCall EXCEPT ![c] = call] /\ UNCHANGED <<permissionRow, decided, blurred>>
    BY <1>3 DEF BeginRevoke
  <2> HIDE DEF saved
  <2>3. call \in AccessStates /\ call.op = "revoke" /\ call.saved = saved
    BY <1>t, <2>1 DEF AccessStates, AccessCallStates, AccessOps
  <2> HIDE DEF call
  <2> QED BY <1>1, <2>1, <2>2, <2>3
<1>4. ASSUME NEW c \in AccessCalls, AccessCallFails(c) PROVE AccessInv'
  <2>1. accessCall' = [accessCall EXCEPT ![c] = IdleAccessCall] /\ UNCHANGED <<permissionRow, decided, blurred>>
    BY <1>4 DEF AccessCallFails
  <2> QED BY <1>1, <1>i, <2>1
<1>5. ASSUME NEW c \in AccessCalls, SavePermission(c) PROVE AccessInv'
  <2> DEFINE call == accessCall[c]
  <2>0. call \in AccessCallStates
    <3>1. call.op # "idle"
      BY <1>5 DEF SavePermission
    <3> QED BY <1>t, <1>i, <3>1 DEF AccessStates
  <2>1. PICK p \in Permissions : p = call.on
    BY <2>0 DEF AccessCallStates
  <2>2. call.saved \in PermissionRows /\ call.op \in {"grant", "revoke"}
    BY <1>5, <2>0 DEF AccessCallStates, AccessOps, SavePermission
  <2>3. /\ permissionRow' = [permissionRow EXCEPT ![p] = call.saved]
        /\ IF Overtaken(c)
             THEN decided' = decided /\ blurred' = blurred \cup {p}
             ELSE decided' = [decided EXCEPT ![p] = Decision(c)] /\ blurred' = blurred \ {p}
        /\ accessCall' = [d \in AccessCalls |->
             CASE d = c -> IdleAccessCall
               [] d # c /\ accessCall[d].on = p -> [accessCall[d] EXCEPT !.stale = TRUE]
               [] OTHER -> accessCall[d]]
    BY <1>5, <2>1 DEF SavePermission
  <2>4. /\ permissionRow' \in [Permissions -> PermissionRows] /\ permissionRow'[p] = call.saved
        /\ \A q \in Permissions : q # p => permissionRow'[q] = permissionRow[q]
    BY <1>t, <2>2, <2>3
  <2>5. ASSUME NEW d \in AccessCalls
        PROVE  /\ accessCall'[d] \in AccessStates
               /\ accessCall'[d].op # "idle" => accessCall'[d].op = accessCall[d].op /\ accessCall'[d].saved = accessCall[d].saved
    <3>1. CASE d = c
      BY <1>i, <2>3, <3>1
    <3>2. CASE d # c /\ accessCall[d].on = p
      <4>1. accessCall'[d] = [accessCall[d] EXCEPT !.stale = TRUE]
        BY <2>3, <3>2
      <4>2. CASE accessCall[d] \in AccessCallStates
        BY <4>1, <4>2 DEF AccessStates, AccessCallStates
      <4>3. CASE accessCall[d] = IdleAccessCall
        <5>1. IdleAccessCall.copy \in PermissionRows /\ IdleAccessCall.saved \in PermissionRows /\ IdleAccessCall.op \in AccessOps
          BY DEF IdleAccessCall, NoPermission, PermissionRows, AccessOps
        <5>2. IdleAccessCall \in AccessCallStates
          BY <3>2, <4>3, <5>1 DEF IdleAccessCall, AccessCallStates
        <5> QED BY <4>1, <4>3, <5>2 DEF AccessStates, AccessCallStates
      <4> QED BY <1>t, <4>2, <4>3 DEF AccessStates
    <3>3. CASE d # c /\ accessCall[d].on # p
      BY <1>t, <2>3, <3>3
    <3> QED BY <3>1, <3>2, <3>3
  <2>6. accessCall' \in [AccessCalls -> AccessStates]
    <3>1. DOMAIN accessCall' = AccessCalls /\ accessCall' = [d \in AccessCalls |-> accessCall'[d]]
      BY <2>3
    <3> QED BY <2>5, <3>1
  <2>7. SavesItsDecision'
    <3> SUFFICES ASSUME NEW d \in AccessCalls
                 PROVE  /\ accessCall'[d].op = "grant" => accessCall'[d].saved.effect \in Effects /\ ~accessCall'[d].saved.revoked
                        /\ accessCall'[d].op = "revoke" => accessCall'[d].saved.revoked
      BY DEF SavesItsDecision
    <3> QED BY <1>t, <2>5 DEF SavesItsDecision
  <2>8. Decision(c) \in Effects \cup {"none"}
    BY <1>t, <2>2 DEF Decision, SavesItsDecision
  <2>9. decided' \in [Permissions -> Effects \cup {"none"}]
    BY <1>t, <2>3, <2>8
  <2>10. RowIsAsDecided'
    <3> SUFFICES ASSUME NEW q \in Permissions, q \notin blurred', NEW e \in Effects
                 PROVE  decided'[q] = e <=> permissionRow'[q].effect = e /\ ~permissionRow'[q].revoked
      BY DEF RowIsAsDecided, Active
    <3>1. CASE q = p
      <4>1. ~Overtaken(c) /\ decided'[p] = Decision(c)
        BY <1>t, <2>3, <3>1
      <4>2. CASE call.op = "grant"
        <5>1. call.saved.effect \in Effects /\ ~call.saved.revoked /\ Decision(c) = call.saved.effect
          BY <1>t, <4>2 DEF SavesItsDecision, Decision
        <5> QED BY <2>4, <3>1, <4>1, <5>1
      <4>3. CASE call.op = "revoke"
        <5>1. call.saved.revoked /\ Decision(c) = "none"
          BY <1>t, <4>3 DEF SavesItsDecision, Decision
        <5> QED BY <2>4, <3>1, <4>1, <5>1 DEF Effects
      <4> QED BY <2>2, <4>2, <4>3
    <3>2. CASE q # p
      <4>1. q \notin blurred /\ decided'[q] = decided[q]
        BY <1>t, <2>3, <3>2
      <4> QED BY <1>t, <2>4, <3>2, <4>1 DEF RowIsAsDecided, Active
    <3> QED BY <3>1, <3>2
  <2> QED BY <2>4, <2>6, <2>7, <2>9, <2>10 DEF AccessInv
<1>6. CASE UNCHANGED accessVars
  BY <1>t, <1>6 DEF AccessInv, SavesItsDecision, RowIsAsDecided, Active, accessVars
<1> QED BY <1>2, <1>3, <1>4, <1>5, <1>6 DEF FileAccessNext

-----------------------------------------------------------------------------
\* The search index.
\* A handler holds what the record and the message have been; a page of a reindex that
\* nothing has outdated holds what they are.
HandlerIsSound(h) ==
  /\ handler[h].copy <= recordVersion /\ handler[h].body <= chatMessage.version
  /\ handler[h].op = "reindexWrite" /\ ~handler[h].stale =>
       handler[h].copy = recordVersion /\ handler[h].body = ReindexedMessages
  /\ handler[h].op = "create" /\ ~handler[h].stale =>
       handler[h].body = chatMessage.version /\ ~chatMessage.deleted

\* A handler will write the newest version of the record, or is about to load it.
WillBeFound(h) ==
  \/ handler[h].op = "refresh"
  \/ handler[h].op = "write" /\ handler[h].copy = recordVersion

Withdraws(h) == handler[h].op \in {"edit", "delete"}
TextIsCurrent == (chatMessage.deleted => entry.message = 0) /\ entry.message \in {0, chatMessage.version}

\* Unless there is a reason to be behind, an entry is right or a handler is on its way
\* that will make it right.
RecordFollows == behind = {} => entry.record = recordVersion \/ \E h \in SearchHandlers : WillBeFound(h)
TextFollows == messageBehind = {} => TextIsCurrent \/ \E h \in SearchHandlers : Withdraws(h)

SearchInv == SearchIndexTypeOK /\ (\A h \in SearchHandlers : HandlerIsSound(h)) /\ RecordFollows /\ TextFollows

LEMMA IdleHolds ==
  IdleHandler \in HandlerStates /\ IdleHandler.op = "idle" /\ IdleHandler.copy = 0 /\ IdleHandler.body = 0 /\ ~IdleHandler.stale
BY SearchIndexAssumption DEF IdleHandler, HandlerStates, HandlerOps

\* It holds before anything is indexed.
LEMMA SearchInitInv == SearchIndexInit => SearchInv
<1> SUFFICES ASSUME SearchIndexInit PROVE SearchInv
  OBVIOUS
<1>1. SearchIndexTypeOK
  BY IdleHolds, SearchIndexAssumption DEF SearchIndexInit, SearchIndexTypeOK, Reasons
<1> QED BY <1>1, IdleHolds DEF SearchIndexInit, SearchInv, HandlerIsSound, RecordFollows, TextFollows, TextIsCurrent

\* What there is: numbers, and handlers that hold versions that exist.
LEMMA VersionsExist ==
  ASSUME SearchInv
  PROVE  /\ SearchIndexTypeOK /\ recordVersion \in 0..MaxChanges /\ chatMessage.version \in 0..MaxChanges /\ MaxChanges \in Nat \ {0}
         /\ chatMessage \in [version: 0..MaxChanges, deleted: BOOLEAN] /\ entry \in [record: 0..MaxChanges, message: 0..MaxChanges]
         /\ entry.record \in Nat /\ entry.message \in Nat
         /\ entry.record <= recordVersion /\ entry.message <= chatMessage.version
         /\ \A h \in SearchHandlers :
              /\ handler[h] \in HandlerStates /\ HandlerIsSound(h)
              /\ handler[h].copy \in 0..MaxChanges /\ handler[h].body \in 0..MaxChanges
              /\ handler[h].copy <= recordVersion /\ handler[h].body <= chatMessage.version
BY SearchIndexAssumption DEF SearchInv, SearchIndexTypeOK, HandlerStates, HandlerIsSound

\* Handlers are marked as outdated, one of them takes up something else.
Marked(h, ops, next) ==
  /\ handler' \in [SearchHandlers -> HandlerStates] /\ handler'[h] = next
  /\ \A g \in SearchHandlers \ {h} :
       /\ handler'[g].op = handler[g].op /\ handler'[g].copy = handler[g].copy /\ handler'[g].body = handler[g].body
       /\ handler[g].stale \/ handler[g].op \in ops => handler'[g].stale

LEMMA HandlersMarked ==
  ASSUME SearchInv, NEW h \in SearchHandlers, NEW ops, NEW next \in HandlerStates, handler' = [Outdated(ops) EXCEPT ![h] = next]
  PROVE  Marked(h, ops, next)
<1>1. ASSUME NEW g \in SearchHandlers
      PROVE  LET now == [handler[g] EXCEPT !.stale = @ \/ handler[g].op \in ops]
             IN  /\ now \in HandlerStates /\ now.op = handler[g].op /\ now.copy = handler[g].copy
                 /\ now.body = handler[g].body /\ (handler[g].stale \/ handler[g].op \in ops => now.stale)
  BY VersionsExist DEF HandlerStates
<1> QED BY <1>1 DEF Outdated, Marked

\* One handler moves on: what the others hold is as sound as before.
LEMMA OneHandlerMoves ==
  ASSUME SearchInv, NEW h \in SearchHandlers, NEW next \in HandlerStates,
         handler' = [handler EXCEPT ![h] = next], UNCHANGED <<recordVersion, chatMessage>>,
         next.copy <= recordVersion, next.body <= chatMessage.version,
         next.op # "create", next.op = "reindexWrite" => next.copy = recordVersion /\ next.body = ReindexedMessages
  PROVE  /\ handler' \in [SearchHandlers -> HandlerStates] /\ \A g \in SearchHandlers : HandlerIsSound(g)'
         /\ handler'[h] = next /\ \A g \in SearchHandlers \ {h} : handler'[g] = handler[g]
<1>1. handler' \in [SearchHandlers -> HandlerStates] /\ handler'[h] = next /\ \A g \in SearchHandlers \ {h} : handler'[g] = handler[g]
  BY DEF SearchInv, SearchIndexTypeOK
<1> QED BY <1>1 DEF SearchInv, HandlerIsSound, ReindexedMessages

\* A change of the record outdates the pages of reindexes; a new payload brings a handler
\* that will load the record.
LEMMA ChangeKeepsSearchInv ==
  ASSUME SearchInv, NEW h \in SearchHandlers, NEW p \in ChangePayloads, Change(h, p)
  PROVE  SearchInv'
<1> DEFINE next == IF ChangeIsNew(p) THEN [IdleHandler EXCEPT !.op = "refresh"] ELSE Outdated({"reindexWrite"})[h]
<1>1. /\ handler[h].op = "idle" /\ recordVersion < MaxChanges /\ recordVersion' = recordVersion + 1
      /\ UNCHANGED <<chatMessage, entry, reindexes, messageBehind>> /\ handled' \subseteq ChangePayloads /\ behind' \subseteq Reasons
  BY VersionsExist DEF Change, SearchIndexTypeOK, Reasons
<1>2. next \in HandlerStates /\ next.op \in {"idle", "refresh"} /\ next.copy \in Nat /\ next.copy <= recordVersion /\ next.body <= chatMessage.version
  BY <1>1, VersionsExist, IdleHolds DEF HandlerStates, HandlerOps, Outdated
<1>3. handler' = [Outdated({"reindexWrite"}) EXCEPT ![h] = next]
  BY DEF Change, Outdated
<1>4. ChangeIsNew(p) => next.op = "refresh"
  BY IdleHolds DEF HandlerStates
<1> HIDE DEF next
<1>5. Marked(h, {"reindexWrite"}, next)
  BY <1>2, <1>3, HandlersMarked
<1>6. SearchIndexTypeOK' /\ \A g \in SearchHandlers : HandlerIsSound(g)'
  <2>1. SearchIndexTypeOK'
    BY <1>1, <1>5, VersionsExist DEF SearchIndexTypeOK, Marked
  <2>2. ASSUME NEW g \in SearchHandlers PROVE HandlerIsSound(g)'
    <3>1. handler[g].copy \in Nat /\ handler[g].copy <= recordVersion /\ recordVersion \in Nat /\ HandlerIsSound(g)
      BY VersionsExist
    <3> QED BY <1>1, <1>2, <1>5, <3>1 DEF HandlerIsSound, Marked
  <2> QED BY <2>1, <2>2
<1>7. RecordFollows' /\ TextFollows'
  BY <1>1, <1>4, <1>5 DEF Change, SearchInv, RecordFollows, WillBeFound, TextFollows, TextIsCurrent, Withdraws, Marked
<1> QED BY <1>6, <1>7 DEF SearchInv

\* A handler loads the record, or a page of a reindex.
LEMMA LoadKeepsSearchInv ==
  ASSUME SearchInv, NEW h \in SearchHandlers, Refresh(h) \/ Reindex(h)
  PROVE  SearchInv'
<1> DEFINE next == IF handler[h].op = "refresh" THEN [handler[h] EXCEPT !.op = "write", !.copy = recordVersion]
                   ELSE [op |-> "reindexWrite", copy |-> recordVersion, body |-> ReindexedMessages, stale |-> FALSE]
<1>1. /\ next \in HandlerStates /\ next.copy = recordVersion /\ next.body <= chatMessage.version
      /\ (handler[h].op = "refresh" /\ next.op = "write") \/ (handler[h].op # "refresh" /\ next.op = "reindexWrite")
      /\ next.op = "reindexWrite" => next.body = ReindexedMessages
  <2>1. CASE handler[h].op = "refresh"
    <3>1. handler[h] \in HandlerStates /\ handler[h].body <= chatMessage.version /\ recordVersion \in 0..MaxChanges /\ recordVersion \in Nat
      BY VersionsExist
    <3> QED BY <2>1, <3>1 DEF HandlerStates, HandlerOps
  <2>2. CASE handler[h].op # "refresh"
    BY <2>2, VersionsExist DEF HandlerStates, HandlerOps, ReindexedMessages
  <2> QED BY <2>1, <2>2
<1>2. /\ handler' = [handler EXCEPT ![h] = next] /\ UNCHANGED <<recordVersion, chatMessage, entry, handled, behind, messageBehind>>
      /\ handler[h].op \in {"idle", "refresh"} /\ reindexes' \in 0..MaxReindexes
  <2>1. CASE Refresh(h)
    BY <2>1, VersionsExist DEF Refresh, SearchIndexTypeOK
  <2>2. CASE Reindex(h)
    BY <2>2, VersionsExist, SearchIndexAssumption DEF Reindex, SearchIndexTypeOK
  <2> QED BY <2>1, <2>2
<1> HIDE DEF next
<1>3. /\ handler' \in [SearchHandlers -> HandlerStates] /\ \A g \in SearchHandlers : HandlerIsSound(g)'
      /\ handler'[h] = next /\ \A g \in SearchHandlers \ {h} : handler'[g] = handler[g]
  <2>1. recordVersion <= recordVersion
    BY VersionsExist
  <2> QED BY <1>1, <1>2, <2>1, OneHandlerMoves
<1> QED BY <1>1, <1>2, <1>3 DEF SearchInv, SearchIndexTypeOK, RecordFollows, WillBeFound, TextFollows, TextIsCurrent, Withdraws

\* A message is written, edited or deleted: what is still to be indexed of it is outdated.
LEMMA MessageKeepsSearchInv ==
  ASSUME SearchInv, NEW h \in SearchHandlers, NEW op \in {"create", "edit", "delete"}, MessageEvent(h, op)
  PROVE  SearchInv'
<1> DEFINE next == [IdleHandler EXCEPT !.op = op, !.body = chatMessage'.version]
<1>1. /\ handler[h].op = "idle" /\ UNCHANGED <<recordVersion, entry, handled, reindexes, behind, messageBehind>>
      /\ ~chatMessage.deleted /\ handler' = [Outdated({"create", "reindexWrite"}) EXCEPT ![h] = next]
  BY DEF MessageEvent
<1>2. /\ chatMessage'.version \in 0..MaxChanges /\ chatMessage.version <= chatMessage'.version
      /\ chatMessage' \in [version: 0..MaxChanges, deleted: BOOLEAN]
      /\ op = "create" => chatMessage.version = 0 /\ ~chatMessage'.deleted
  <2>1. op = "create" => chatMessage.version = 0 /\ chatMessage' = [chatMessage EXCEPT !.version = 1]
    BY DEF MessageEvent
  <2>2. op = "edit" => chatMessage.version \in 1..(MaxChanges - 1) /\ chatMessage' = [chatMessage EXCEPT !.version = @ + 1]
    BY DEF MessageEvent
  <2>3. op = "delete" => chatMessage' = [chatMessage EXCEPT !.deleted = TRUE]
    BY DEF MessageEvent
  <2>4. CASE op = "delete"
    <3>1. chatMessage'.version = chatMessage.version /\ chatMessage' \in [version: 0..MaxChanges, deleted: BOOLEAN]
      BY <2>3, <2>4, VersionsExist
    <3> QED BY <2>4, <3>1, VersionsExist
  <2> QED BY <1>1, <2>1, <2>2, <2>4, VersionsExist
<1>3. next \in HandlerStates /\ next.op = op /\ next.copy = 0 /\ next.body = chatMessage'.version
  BY <1>2, IdleHolds DEF HandlerStates, HandlerOps
<1> HIDE DEF next
<1>4. Marked(h, {"create", "reindexWrite"}, next)
  BY <1>1, <1>3, HandlersMarked
<1>5. SearchIndexTypeOK' /\ \A g \in SearchHandlers : HandlerIsSound(g)'
  BY <1>1, <1>2, <1>3, <1>4, VersionsExist DEF SearchIndexTypeOK, HandlerIsSound, Marked
<1>6. TextIsCurrent' \/ Withdraws(h)'
  BY <1>1, <1>2, <1>3, <1>4, VersionsExist DEF TextIsCurrent, Withdraws, Marked
<1> QED BY <1>1, <1>4, <1>5, <1>6 DEF SearchInv, RecordFollows, WillBeFound, TextFollows, Marked

\* A handler ends with a write: of the record with a copy that was its newest version or is
\* noticed to be older, of the message with text that is current, or is noticed not to be.
LEMMA WritesKeepSearchInv ==
  ASSUME SearchInv, NEW h \in SearchHandlers, WriteRecord(h) \/ HandleMessage(h) \/ ReindexWrite(h)
  PROVE  SearchInv'
<1> DEFINE repaired(ok) == ok /\ ~handler[h].stale /\ Alone(h)
           record == handler[h].op \in {"write", "reindexWrite"}
           text == handler[h].op \in {"create", "edit", "delete", "reindexWrite"}
           newText == IF handler[h].op = "reindexWrite" /\ handler[h].body = 0 THEN entry.message
                      ELSE IF handler[h].op \in {"create", "reindexWrite"} THEN handler[h].body ELSE 0
           clean(ok) == handler[h].op = "reindexWrite" /\ repaired(ok)
<1>1. PICK ok \in BOOLEAN :
        /\ entry' = IF ok THEN [record |-> IF record THEN handler[h].copy ELSE entry.record,
                                message |-> IF text THEN newText ELSE entry.message] ELSE entry
        /\ behind' = IF clean(ok) THEN {} ELSE IF record THEN behind \cup RecordReasons(h, ok) ELSE behind
        /\ messageBehind' = IF clean(ok) /\ ~chatMessage.deleted THEN {}
                            ELSE IF text THEN messageBehind \cup MessageReasons(h, ok) ELSE messageBehind
  <2>0. entry = [record |-> entry.record, message |-> entry.message]
    BY VersionsExist
  <2>1. CASE WriteRecord(h)
    BY <2>0, <2>1 DEF WriteRecord
  <2>2. CASE HandleMessage(h)
    BY <2>0, <2>2 DEF HandleMessage, MessageEntry
  <2>3. CASE ReindexWrite(h)
    BY <2>0, <2>3 DEF ReindexWrite
  <2> QED BY <2>1, <2>2, <2>3
<1>2. /\ handler' = [handler EXCEPT ![h] = IdleHandler] /\ UNCHANGED <<recordVersion, chatMessage, handled, reindexes>>
      /\ record \/ text
  BY DEF WriteRecord, HandleMessage, ReindexWrite
<1>3. /\ handler' \in [SearchHandlers -> HandlerStates] /\ \A g \in SearchHandlers : HandlerIsSound(g)'
      /\ handler'[h].op = "idle" /\ \A g \in SearchHandlers \ {h} : handler'[g] = handler[g]
  <2>1. IdleHandler.copy <= recordVersion /\ IdleHandler.body <= chatMessage.version
    BY IdleHolds, VersionsExist
  <2> QED BY <1>2, <2>1, IdleHolds, OneHandlerMoves
<1>4. /\ handler[h].copy \in 0..MaxChanges /\ handler[h].copy <= recordVersion /\ HandlerIsSound(h)
      /\ newText \in 0..MaxChanges /\ newText <= chatMessage.version
  BY VersionsExist
<1>5. SearchIndexTypeOK'
  <2>1. entry' \in [record: 0..MaxChanges, message: 0..MaxChanges] /\ entry'.record <= recordVersion /\ entry'.message <= chatMessage.version
    BY <1>1, <1>4, VersionsExist
  <2>2. behind' \subseteq Reasons /\ messageBehind' \subseteq Reasons
    BY <1>1, VersionsExist DEF SearchIndexTypeOK, RecordReasons, MessageReasons
  <2> QED BY <1>2, <1>3, <2>1, <2>2, VersionsExist DEF SearchIndexTypeOK
<1>6. RecordFollows'
  <2>1. CASE clean(ok)
    BY <1>1, <1>2, <1>4, <2>1 DEF HandlerIsSound, RecordFollows
  <2>2. CASE ~record
    BY <1>1, <1>2, <1>3, <2>2 DEF SearchInv, RecordFollows, WillBeFound
  <2>3. CASE record /\ ~clean(ok)
    <3> SUFFICES ASSUME behind' = {}, \A g \in SearchHandlers : ~WillBeFound(g)' PROVE entry'.record = recordVersion'
      BY DEF RecordFollows
    <3>1. behind = {} /\ ok /\ ~(handler[h].copy < entry.record)
      BY <1>1, <2>3 DEF RecordReasons, Reasons
    <3>2. entry.record = recordVersion \/ WillBeFound(h)
      BY <1>2, <1>3, <3>1 DEF SearchInv, RecordFollows, WillBeFound
    <3> QED BY <1>1, <1>2, <1>4, <2>3, <3>1, <3>2, VersionsExist DEF WillBeFound
  <2> QED BY <2>1, <2>2, <2>3
<1>7. TextFollows'
  <2>1. CASE clean(ok) /\ ~chatMessage.deleted
    BY <1>1, <1>2, <1>4, <2>1, VersionsExist DEF HandlerIsSound, TextFollows, TextIsCurrent, ReindexedMessages
  <2>2. CASE ~text
    BY <1>1, <1>2, <1>3, <2>2 DEF SearchInv, TextFollows, TextIsCurrent, Withdraws
  <2>3. CASE text /\ ~(clean(ok) /\ ~chatMessage.deleted)
    <3> SUFFICES ASSUME messageBehind' = {}, \A g \in SearchHandlers : ~Withdraws(g)' PROVE TextIsCurrent'
      BY DEF TextFollows
    <3>1. messageBehind = {} /\ ok /\ ~handler[h].stale
      BY <1>1, <1>3, <2>3 DEF MessageReasons, Reasons, Withdraws
    <3>2. handler[h].op = "reindexWrite" => TextIsCurrent
      BY <1>3, <3>1 DEF SearchInv, TextFollows, Withdraws
    <3> QED BY <1>1, <1>2, <1>4, <2>3, <3>1, <3>2, VersionsExist DEF HandlerIsSound, TextIsCurrent, ReindexedMessages
  <2> QED BY <2>1, <2>2, <2>3
<1> QED BY <1>3, <1>5, <1>6, <1>7 DEF SearchInv

\* Every step of the index keeps the invariant.
LEMMA SearchNextInv == SearchInv /\ [SearchIndexNext]_searchVars => SearchInv'
<1>1. SearchInv /\ SearchIndexNext => SearchInv'
  BY ChangeKeepsSearchInv, LoadKeepsSearchInv, MessageKeepsSearchInv, WritesKeepSearchInv DEF SearchIndexNext
<1>2. SearchInv /\ UNCHANGED searchVars => SearchInv'
  BY DEF searchVars, SearchInv, SearchIndexTypeOK, HandlerIsSound, RecordFollows, WillBeFound, TextFollows, TextIsCurrent,
         Withdraws, ReindexedMessages
<1> QED BY <1>1, <1>2

\* What the index shows of a record and of a message follows the database, for any number
\* of handlers and reindexes at once: once they are done a record is found in its newest
\* version, and withdrawn text is not found, unless a change was taken for a duplicate, a
\* write failed or a handler was overtaken since the last clean reindex
\* (search-indexing.listener.ts, search-maintenance.service.ts).
THEOREM IndexFollowsTheRecords == SearchIndexSpec => [](SearchIndexTypeOK /\ RecordIsFound /\ WithdrawnTextIsNotFound)
<1>1. SearchInv => SearchIndexTypeOK /\ RecordIsFound /\ WithdrawnTextIsNotFound
  BY DEF SearchInv, RecordFollows, TextFollows, RecordIsFound, WithdrawnTextIsNotFound, WillBeFound, TextIsCurrent, Withdraws
<1> QED BY <1>1, SearchInitInv, SearchNextInv, PTL DEF SearchIndexSpec

-----------------------------------------------------------------------------
\* Map layers.
\* What a call under way holds: an operation on a layer keeps to its guard, the feature
\* of an operation on features exists.
LayerCallIsSound(c) ==
  layerCall[c].pc = "loaded" => layerCall[c].op \in LayerOps \ {"add", "remove"} /\ Admits(layerCall[c].op, layerCall[c].copy)

\* Calls that wrote their feature and have yet to count it.
Pending(op) == {c \in LayerCalls : layerCall[c].pc = "written" /\ layerCall[c].op = op}

\* A call will still take the extent of every feature.
WillMeasure(c) ==
  \/ layerCall[c].pc \in {"written", "counted"}
  \/ layerCall[c].pc = "measured" /\ layerCall[c].extent = created

\* What a call holds of the features exists, and only operations on features write one.
HoldsFeatures(c) ==
  /\ layerCall[c].pc = "written" => layerCall[c].op \in {"add", "remove"}
  /\ layerCall[c].pc = "loaded" => layerCall[c].copy.extent \subseteq created
  /\ layerCall[c].pc = "measured" => layerCall[c].extent \subseteq created

\* Under the exceptions the code has, the count is off by the calls that have yet to
\* count, and a stale extent has a call that will measure it again.
CountFollows ==
  ~crossedLayer /\ ~cutLayer /\ ~endedAgain =>
    layer.count + Cardinality(Pending("add")) = Cardinality(created \ ended) + Cardinality(Pending("remove"))
ExtentFollows == ~crossedLayer /\ ~cutLayer => layer.extent = created \/ \E c \in LayerCalls : WillMeasure(c)

FeaturesInv ==
  /\ created = 1..Cardinality(created) /\ IsFiniteSet(created) /\ ended \subseteq created
  /\ layer.extent \subseteq created /\ {cutLayer, endedAgain} \subseteq BOOLEAN
  /\ \A c \in LayerCalls : HoldsFeatures(c)
  /\ CountFollows /\ ExtentFollows

\* The inductive invariant: a layer that has been reviewed is no draft, and what is kept
\* of the features follows them.
LayersInv ==
  /\ layer \in LayerRows /\ created \subseteq Features
  /\ layerCall \in [LayerCalls -> LayerCallStates]
  /\ crossedLayer \in BOOLEAN /\ publishedDirectly \in BOOLEAN
  /\ \A c \in LayerCalls : LayerCallIsSound(c)
  /\ ShownWasApproved
  /\ layer.review # "none" => layer.status # "draft" \/ crossedLayer
  /\ FeaturesInv

\* It holds at the start.
LEMMA LayersInitInv == SpatialLayersInit => LayersInv
<1> SUFFICES ASSUME SpatialLayersInit PROVE LayersInv
  OBVIOUS
<1>1. NoLayer \in LayerRows /\ ~NoLayer.ai /\ NoLayer.review = "none"
  BY DEF NoLayer, LayerRows, LayerStatuses, Reviews
<1>2. FreeLayerCall \in LayerCallStates /\ FreeLayerCall.pc = "idle"
  BY <1>1 DEF FreeLayerCall, LayerCallStates, LayerPcs, LayerOps
<1>3. layerCall \in [LayerCalls -> LayerCallStates] /\ \A c \in LayerCalls : LayerCallIsSound(c)
  BY <1>2 DEF SpatialLayersInit, LayerCallIsSound
<1>4. FeaturesInv
  <2>1. Pending("add") = {} /\ Pending("remove") = {} /\ \A c \in LayerCalls : layerCall[c].pc = "idle"
    BY <1>2 DEF SpatialLayersInit, Pending
  <2>2. Cardinality({}) = 0 /\ {} = 1..0 /\ IsFiniteSet({}) /\ {} \ {} = {} /\ layer.extent = {} /\ layer.count = 0
    BY FS_EmptySet DEF SpatialLayersInit, NoLayer
  <2> QED BY <2>1, <2>2 DEF SpatialLayersInit, FeaturesInv, HoldsFeatures, CountFollows, ExtentFollows
<1> QED BY <1>1, <1>3, <1>4 DEF SpatialLayersInit, LayersInv, ShownWasApproved

\* What an operation writes on a row.
LEMMA ChangedRow ==
  ASSUME NEW row \in LayerRows, NEW op \in LayerOps, Admits(op, row)
  PROVE  /\ Changed(op, row) \in LayerRows
         /\ Changed(op, row).ai = row.ai
         /\ op = "publish" => Changed(op, row).status = "active" /\ Changed(op, row).review = row.review
         /\ op = "deprecate" => Changed(op, row).status = "deprecated" /\ Changed(op, row).review = row.review
         /\ op = "approve" => Changed(op, row).status = "active" /\ Changed(op, row).review = "approved" /\ row.status = "draft"
         /\ op = "reject" => Changed(op, row).status = "deprecated" /\ Changed(op, row).review = "rejected" /\ row.status = "draft"
         /\ op \notin {"publish", "deprecate", "approve", "reject"} => Changed(op, row) = row
<1>1. \A status \in LayerStatuses, review \in Reviews :
        [row EXCEPT !.status = status, !.review = review] \in LayerRows
  BY DEF LayerRows
<1>2. \A status \in LayerStatuses : [row EXCEPT !.status = status] \in LayerRows
  BY DEF LayerRows
<1>3. "active" \in LayerStatuses /\ "deprecated" \in LayerStatuses /\ "approved" \in Reviews /\ "rejected" \in Reviews
  BY DEF LayerStatuses, Reviews
<1> QED BY <1>1, <1>2, <1>3 DEF Changed, Admits, LayerRows

\* One call goes on; the others hold what they held.
LEMMA OneLayerCallMoves ==
  ASSUME LayersInv, NEW c \in LayerCalls, NEW next \in LayerCallStates, SetLayerCall(c, next),
         next.pc = "loaded" => next.op \in LayerOps \ {"add", "remove"} /\ Admits(next.op, next.copy)
  PROVE  layerCall' \in [LayerCalls -> LayerCallStates] /\ \A d \in LayerCalls : LayerCallIsSound(d)'
<1>1. layerCall' = [layerCall EXCEPT ![c] = next]
  BY DEF SetLayerCall
<1>2. layerCall' \in [LayerCalls -> LayerCallStates]
  BY <1>1 DEF LayersInv
<1>3. ASSUME NEW d \in LayerCalls PROVE LayerCallIsSound(d)'
  <2>1. layerCall'[d] = next \/ layerCall'[d] = layerCall[d]
    BY <1>1 DEF LayersInv
  <2> QED BY <2>1 DEF LayersInv, LayerCallIsSound
<1> QED BY <1>2, <1>3

\* How one call moves the number of those that have yet to count.
LEMMA PendingMoves ==
  ASSUME layerCall \in [LayerCalls -> LayerCallStates], NEW c \in LayerCalls, NEW next, SetLayerCall(c, next), NEW op
  PROVE  /\ Cardinality(Pending(op)) \in Nat
         /\ Cardinality(Pending(op)') = Cardinality(Pending(op)) + (IF next.pc = "written" /\ next.op = op THEN 1 ELSE 0)
                                        - (IF layerCall[c].pc = "written" /\ layerCall[c].op = op THEN 1 ELSE 0)
         /\ layerCall'[c] = next /\ \A d \in LayerCalls : d # c => layerCall'[d] = layerCall[d]
<1>1. layerCall'[c] = next /\ \A d \in LayerCalls : d # c => layerCall'[d] = layerCall[d]
  BY DEF SetLayerCall
<1>2. Pending(op)' = IF next.pc = "written" /\ next.op = op THEN Pending(op) \cup {c} ELSE Pending(op) \ {c}
  BY <1>1 DEF Pending
<1>3. IsFiniteSet(Pending(op))
  BY FS_Subset, SpatialLayersAssumption DEF Pending
<1>4. c \in Pending(op) <=> layerCall[c].pc = "written" /\ layerCall[c].op = op
  BY DEF Pending
<1> HIDE DEF Pending
<1>5. Cardinality(Pending(op)) \in Nat
  BY <1>3, FS_CardinalityType
<1>6. Cardinality(Pending(op) \cup {c}) = IF c \in Pending(op) THEN Cardinality(Pending(op)) ELSE Cardinality(Pending(op)) + 1
  BY <1>3, FS_AddElement
<1>7. Cardinality(Pending(op) \ {c}) = IF c \in Pending(op) THEN Cardinality(Pending(op)) - 1 ELSE Cardinality(Pending(op))
  BY <1>3, FS_RemoveElement
<1> QED BY <1>1, <1>2, <1>4, <1>5, <1>6, <1>7

\* A step of one call that leaves the features and the count alone.
LEMMA FeaturesKept ==
  ASSUME LayersInv, NEW c \in LayerCalls, NEW next, SetLayerCall(c, next), UNCHANGED <<created, ended, endedAgain, cutLayer>>,
         layerCall[c].pc # "written", next.pc # "written", ~crossedLayer' => ~crossedLayer /\ layer'.count = layer.count,
         next.pc = "loaded" => next.copy.extent \subseteq created, next.pc = "measured" => next.extent \subseteq created,
         layer'.extent \subseteq created, ExtentFollows'
  PROVE  FeaturesInv'
<1>1. layerCall \in [LayerCalls -> LayerCallStates] /\ FeaturesInv
  BY DEF LayersInv
<1>2. (\A op : Cardinality(Pending(op)') = Cardinality(Pending(op)))
      /\ layerCall'[c] = next /\ \A d \in LayerCalls : d # c => layerCall'[d] = layerCall[d]
  BY <1>1, PendingMoves
<1>3. (\A d \in LayerCalls : HoldsFeatures(d)') /\ CountFollows'
  BY <1>1, <1>2 DEF FeaturesInv, HoldsFeatures, CountFollows
<1> QED BY <1>1, <1>3 DEF FeaturesInv

\* Nothing that tells a review or a status apart changes.
LEMMA LayerKeeps ==
  ASSUME LayersInv, layer' \in LayerRows, layer'.ai = layer.ai, layer'.status = layer.status, layer'.review = layer.review,
         crossedLayer' \in BOOLEAN, crossedLayer => crossedLayer', UNCHANGED publishedDirectly, created' \subseteq Features,
         layerCall' \in [LayerCalls -> LayerCallStates], \A d \in LayerCalls : LayerCallIsSound(d)', FeaturesInv'
  PROVE  LayersInv'
BY DEF LayersInv, ShownWasApproved

\* Every step of the specification keeps the inductive invariant.
LEMMA LayersNextInv == LayersInv /\ [SpatialLayersNext]_layerVars => LayersInv'
<1> SUFFICES ASSUME LayersInv, [SpatialLayersNext]_layerVars PROVE LayersInv'
  OBVIOUS
<1>0. layer \in LayerRows /\ layerCall \in [LayerCalls -> LayerCallStates] /\ crossedLayer \in BOOLEAN /\ publishedDirectly \in BOOLEAN
      /\ FeaturesInv /\ layer.count \in Int
  BY DEF LayersInv, LayerRows
<1>n. Cardinality(created) \in Nat /\ IsFiniteSet(created \ ended) /\ Cardinality(created \ ended) \in Nat
  BY <1>0, FS_Subset, FS_CardinalityType DEF FeaturesInv
<1>f. FreeLayerCall \in LayerCallStates /\ FreeLayerCall.pc = "idle"
  BY DEF FreeLayerCall, LayerCallStates, LayerPcs, LayerOps, NoLayer, LayerRows, LayerStatuses, Reviews
<1>c. created \subseteq Features
  BY DEF LayersInv
<1>1. CASE CreateLayer \/ CreateDraftRiskLayer
  <2>1. NoLayer \in LayerRows /\ NoLayer.review = "none" /\ "draft" \in LayerStatuses
    BY DEF NoLayer, LayerRows, LayerStatuses, Reviews
  <2>2. layer' \in LayerRows /\ layer'.status = "draft" /\ layer'.review = "none"
    <3>1. \E ai \in BOOLEAN : layer' = [status |-> "draft", ai |-> ai, review |-> "none", count |-> 0, extent |-> {}]
      BY <1>1 DEF CreateLayer, CreateDraftRiskLayer, GeneratedStatus, NoLayer
    <3> QED BY <2>1, <3>1 DEF LayerRows, NoLayer
  <2>3. UNCHANGED <<created, layerCall, crossedLayer, publishedDirectly>>
    BY <1>1 DEF CreateLayer, CreateDraftRiskLayer
  <2>4. layer'.count = layer.count /\ layer'.extent = layer.extent /\ UNCHANGED <<ended, endedAgain, cutLayer>>
    BY <1>1 DEF CreateLayer, CreateDraftRiskLayer, NoLayer
  <2>5. FeaturesInv'
    BY <1>0, <2>3, <2>4 DEF FeaturesInv, HoldsFeatures, CountFollows, ExtentFollows, WillMeasure, Pending
  <2> QED BY <2>2, <2>3, <2>5 DEF LayersInv, LayerCallIsSound, ShownWasApproved
<1>2. ASSUME NEW c \in LayerCalls, NEW op \in {"update", "publish", "deprecate", "approve", "reject"}, LoadLayer(c, op) PROVE LayersInv'
  <2> DEFINE next == [FreeLayerCall EXCEPT !.pc = "loaded", !.op = op, !.copy = layer]
  <2>1. next \in LayerCallStates /\ next.op = op /\ next.copy = layer /\ next.pc = "loaded"
    BY <1>0, <1>f DEF LayerCallStates, LayerPcs, LayerOps
  <2>2. SetLayerCall(c, next) /\ UNCHANGED <<layer, created, crossedLayer, publishedDirectly>> /\ Admits(op, layer)
        /\ layerCall[c].pc = "idle" /\ UNCHANGED <<ended, endedAgain, cutLayer>>
    BY <1>2 DEF LoadLayer, MayCallLayer
  <2> HIDE DEF next
  <2>3. ExtentFollows'
    BY <1>0, <2>2, PendingMoves DEF FeaturesInv, ExtentFollows, WillMeasure
  <2>4. FeaturesInv'
    BY <1>0, <2>1, <2>2, <2>3, FeaturesKept DEF FeaturesInv
  <2> QED BY <1>0, <1>c, <2>1, <2>2, <2>4, OneLayerCallMoves, LayerKeeps DEF LayerOps
<1>3. ASSUME NEW c \in LayerCalls, SaveLayer(c) PROVE LayersInv'
  <2> DEFINE call == layerCall[c]
  <2>1. call \in LayerCallStates /\ call.copy \in LayerRows /\ call.op \in LayerOps
    BY <1>0 DEF LayerCallStates
  <2>2. call.pc = "loaded" /\ layer' = Changed(call.op, call.copy) /\ crossedLayer' = (crossedLayer \/ layer # call.copy)
        /\ publishedDirectly' = (publishedDirectly \/ (call.op = "publish" /\ call.copy.ai)) /\ SetLayerCall(c, FreeLayerCall) /\ UNCHANGED <<created, ended, endedAgain, cutLayer>>
    BY <1>3 DEF SaveLayer
  <2>3. Admits(call.op, call.copy) /\ call.op \in LayerOps \ {"add", "remove"}
    BY <2>2 DEF LayersInv, LayerCallIsSound
  <2>4. layerCall' \in [LayerCalls -> LayerCallStates] /\ \A d \in LayerCalls : LayerCallIsSound(d)'
    BY <1>f, <2>2, OneLayerCallMoves
  <2>5. layer' \in LayerRows
    BY <2>1, <2>2, <2>3, ChangedRow
  <2>6. ShownWasApproved' /\ (layer'.review # "none" => layer'.status # "draft" \/ crossedLayer')
    <3>1. CASE crossedLayer'
      BY <3>1 DEF ShownWasApproved
    <3>2. CASE ~crossedLayer'
      <4>1. call.copy = layer /\ ~crossedLayer
        BY <2>2, <3>2
      <4>2. call.op \in {"update", "publish", "deprecate", "approve", "reject"}
        BY <2>3 DEF LayerOps
      <4>3. /\ layer'.ai = layer.ai
            /\ call.op = "publish" => layer'.status = "active"
            /\ call.op = "deprecate" => layer'.status = "deprecated"
            /\ call.op = "approve" => layer'.status = "active" /\ layer'.review = "approved"
            /\ call.op = "reject" => layer'.status = "deprecated"
            /\ call.op = "update" => layer' = layer
        BY <2>1, <2>2, <2>3, <4>1, ChangedRow
      <4> QED BY <2>2, <4>1, <4>2, <4>3 DEF ShownWasApproved, LayersInv
    <3> QED BY <3>1, <3>2
  <2>7. layer'.count = call.copy.count /\ layer'.extent = call.copy.extent /\ call.copy.extent \subseteq created
    BY <1>0, <2>1, <2>2 DEF Changed, LayerRows, FeaturesInv, HoldsFeatures
  <2>8. ExtentFollows'
    BY <1>0, <2>2, <2>7, PendingMoves DEF FeaturesInv, ExtentFollows, WillMeasure
  <2>9. FeaturesInv'
    BY <1>f, <2>2, <2>7, <2>8, FeaturesKept
  <2> QED BY <1>0, <2>2, <2>4, <2>5, <2>6, <2>9 DEF LayersInv
<1>4. ASSUME NEW c \in LayerCalls, CreateFeature(c) \/ \E f \in Features : DeleteFeature(c, f) PROVE LayersInv'
  <2>1. PICK op \in {"add", "remove"}, f \in Features :
          /\ SetLayerCall(c, [FreeLayerCall EXCEPT !.pc = "written", !.op = op, !.feature = f])
          /\ op = "add" => f = Cardinality(created) + 1 /\ created' = created \cup {f} /\ UNCHANGED <<ended, endedAgain>>
          /\ op = "remove" => f \in created /\ ended' = ended \cup {f} /\ endedAgain' = (endedAgain \/ f \in ended) /\ UNCHANGED created
    BY <1>4 DEF CreateFeature, DeleteFeature
  <2> DEFINE next == [FreeLayerCall EXCEPT !.pc = "written", !.op = op, !.feature = f]
  <2>2. next \in LayerCallStates /\ next.pc = "written" /\ next.op = op
    BY <1>f DEF LayerCallStates, LayerPcs, LayerOps
  <2>3. UNCHANGED <<layer, crossedLayer, publishedDirectly, cutLayer>> /\ created' \subseteq Features /\ layerCall[c].pc = "idle"
    BY <1>4, <1>c DEF CreateFeature, DeleteFeature, MayCallLayer
  <2>4. SetLayerCall(c, next)
    BY <2>1
  <2> HIDE DEF next
  <2>5. layerCall'[c] = next /\ (\A d \in LayerCalls : d # c => layerCall'[d] = layerCall[d])
        /\ \A o \in {"add", "remove"} :
             Cardinality(Pending(o)') = Cardinality(Pending(o)) + (IF o = op THEN 1 ELSE 0) /\ Cardinality(Pending(o)) \in Nat
    BY <1>0, <2>2, <2>3, <2>4, PendingMoves
  <2>6. /\ created' = 1..Cardinality(created') /\ IsFiniteSet(created') /\ ended' \subseteq created' /\ created \subseteq created'
        /\ endedAgain' \in BOOLEAN
        /\ ~endedAgain' => ~endedAgain /\ Cardinality(created' \ ended') = Cardinality(created \ ended) + Delta(op)
    <3>1. CASE op = "add"
      <4>1. f \notin created /\ f \notin ended /\ created' \ ended' = (created \ ended) \cup {f}
        BY <1>0, <1>n, <2>1, <3>1 DEF FeaturesInv
      <4>2. Cardinality(created') = f /\ IsFiniteSet(created')
        BY <1>0, <2>1, <3>1, <4>1, FS_AddElement DEF FeaturesInv
      <4>3. Cardinality(created' \ ended') = Cardinality(created \ ended) + 1
        BY <1>n, <4>1, FS_AddElement
      <4>4. created' = 1..Cardinality(created')
        <5>1. 1..f = (1..Cardinality(created)) \cup {f}
          BY <1>n, <2>1, <3>1
        <5> QED BY <1>0, <2>1, <3>1, <4>2, <5>1 DEF FeaturesInv
      <4>5. ended \subseteq created /\ endedAgain \in BOOLEAN
        BY <1>0 DEF FeaturesInv
      <4> QED BY <2>1, <3>1, <4>2, <4>3, <4>4, <4>5 DEF Delta
    <3>2. CASE op = "remove"
      <4>1. f \notin ended => created' \ ended' = (created \ ended) \ {f} /\ f \in created \ ended
        BY <2>1, <3>2
      <4>2. f \notin ended => Cardinality(created' \ ended') = Cardinality(created \ ended) - 1
        BY <1>n, <4>1, FS_RemoveElement
      <4> QED BY <1>0, <1>n, <2>1, <3>2, <4>2 DEF FeaturesInv, Delta
    <3> QED BY <3>1, <3>2
  <2>7. CountFollows' /\ ExtentFollows'
    <3>1. CountFollows /\ ("add" = op \/ "remove" = op)
      BY <1>0 DEF FeaturesInv
    <3>2. CountFollows'
      BY <1>0, <1>n, <2>3, <2>5, <2>6, <3>1 DEF CountFollows, Delta
    <3> QED BY <2>2, <2>5, <3>2 DEF ExtentFollows, WillMeasure
  <2>8. \A d \in LayerCalls : HoldsFeatures(d)'
    BY <1>0, <2>2, <2>5, <2>6 DEF FeaturesInv, HoldsFeatures
  <2>9. FeaturesInv'
    BY <1>0, <2>3, <2>6, <2>7, <2>8 DEF FeaturesInv
  <2> QED BY <1>0, <2>2, <2>3, <2>4, <2>9, OneLayerCallMoves, LayerKeeps
<1>5. ASSUME NEW c \in LayerCalls, CountFeature(c) PROVE LayersInv'
  <2> DEFINE next == [layerCall[c] EXCEPT !.pc = "counted"]
  <2>1. next \in LayerCallStates /\ next.pc = "counted" /\ layerCall[c].pc = "written" /\ layerCall[c].op \in {"add", "remove"}
    BY <1>0, <1>5 DEF CountFeature, LayerCallStates, LayerPcs, FeaturesInv, HoldsFeatures
  <2>2. layer' = [layer EXCEPT !.count = layer.count + Delta(layerCall[c].op)] /\ SetLayerCall(c, next)
        /\ UNCHANGED <<created, ended, crossedLayer, publishedDirectly, endedAgain, cutLayer>>
    BY <1>5 DEF CountFeature
  <2>3. layer.count + Delta(layerCall[c].op) \in Int
    BY <1>0 DEF LayerRows, Delta
  <2>4. layer' \in LayerRows /\ layer'.ai = layer.ai /\ layer'.status = layer.status /\ layer'.review = layer.review
    BY <1>0, <2>2, <2>3 DEF LayerRows
  <2>5. layer'.count = layer.count + Delta(layerCall[c].op) /\ layer'.extent = layer.extent
    BY <1>0, <2>2 DEF LayerRows
  <2> HIDE DEF next
  <2>6. layerCall'[c] = next /\ (\A d \in LayerCalls : d # c => layerCall'[d] = layerCall[d])
        /\ \A op \in {"add", "remove"} : /\ Cardinality(Pending(op)) \in Nat
             /\ Cardinality(Pending(op)') = Cardinality(Pending(op)) - (IF layerCall[c].op = op THEN 1 ELSE 0)
    BY <1>0, <2>1, <2>2, PendingMoves
  <2>7. CountFollows' /\ ExtentFollows'
    <3>1. CountFollows'
      BY <1>0, <1>n, <2>1, <2>2, <2>5, <2>6 DEF FeaturesInv, CountFollows, Delta
    <3> QED BY <2>1, <2>6, <3>1 DEF ExtentFollows, WillMeasure
  <2>8. FeaturesInv'
    BY <1>0, <2>1, <2>2, <2>5, <2>6, <2>7 DEF FeaturesInv, HoldsFeatures
  <2> QED BY <1>0, <1>c, <2>1, <2>2, <2>4, <2>8, OneLayerCallMoves, LayerKeeps
<1>6. ASSUME NEW c \in LayerCalls, MeasureExtent(c) PROVE LayersInv'
  <2> DEFINE next == [layerCall[c] EXCEPT !.pc = "measured", !.extent = Measured(c)]
  <2>1. next \in LayerCallStates /\ next.pc = "measured" /\ next.extent = created
    BY <1>0, <1>c DEF LayerCallStates, LayerPcs, Measured
  <2>2. SetLayerCall(c, next) /\ layerCall[c].pc = "counted"
        /\ UNCHANGED <<layer, created, ended, crossedLayer, publishedDirectly, endedAgain, cutLayer>>
    BY <1>6 DEF MeasureExtent
  <2> HIDE DEF next
  <2>3. ExtentFollows'
    BY <1>0, <2>1, <2>2, PendingMoves DEF ExtentFollows, WillMeasure
  <2>4. FeaturesInv'
    BY <1>0, <2>1, <2>2, <2>3, FeaturesKept DEF FeaturesInv
  <2> QED BY <1>0, <1>c, <2>1, <2>2, <2>4, OneLayerCallMoves, LayerKeeps
<1>7. ASSUME NEW c \in LayerCalls, StoreExtent(c) PROVE LayersInv'
  <2>1. layerCall[c].extent \in SUBSET Features /\ layerCall[c].pc = "measured" /\ layerCall[c].extent \subseteq created
    BY <1>0, <1>7 DEF LayerCallStates, StoreExtent, FeaturesInv, HoldsFeatures
  <2>2. layer' = [layer EXCEPT !.extent = layerCall[c].extent] /\ SetLayerCall(c, FreeLayerCall)
        /\ UNCHANGED <<created, ended, publishedDirectly, endedAgain, cutLayer>>
        /\ crossedLayer' = (crossedLayer \/ ~(layer.extent \subseteq layerCall[c].extent))
    BY <1>7 DEF StoreExtent
  <2>3. layer' \in LayerRows /\ layer'.ai = layer.ai /\ layer'.status = layer.status /\ layer'.review = layer.review
    BY <1>0, <2>1, <2>2 DEF LayerRows
  <2>4. crossedLayer' \in BOOLEAN /\ (crossedLayer => crossedLayer')
        /\ layer'.count = layer.count /\ layer'.extent = layerCall[c].extent
    BY <1>0, <2>2 DEF LayerRows
  <2>5. ExtentFollows'
    BY <1>0, <2>1, <2>2, <2>4, PendingMoves DEF FeaturesInv, ExtentFollows, WillMeasure
  <2>6. FeaturesInv'
    BY <1>f, <2>1, <2>2, <2>4, <2>5, FeaturesKept
  <2> QED BY <1>0, <1>c, <1>f, <2>2, <2>3, <2>4, <2>6, OneLayerCallMoves, LayerKeeps
<1>8. CASE CrashOfLayers
  <2>1. layerCall' = [c \in LayerCalls |-> FreeLayerCall] /\ UNCHANGED <<layer, created, ended, crossedLayer, publishedDirectly, endedAgain>>
        /\ cutLayer' = (cutLayer \/ \E c \in LayerCalls : layerCall[c].pc \in {"written", "counted", "measured"})
    BY <1>8 DEF CrashOfLayers
  <2>2. layerCall' \in [LayerCalls -> LayerCallStates] /\ \A c \in LayerCalls : LayerCallIsSound(c)'
    BY <1>f, <2>1 DEF LayerCallIsSound
  <2>3. \A op : Pending(op)' = {} /\ (~cutLayer' => Pending(op) = {})
    BY <1>f, <2>1 DEF Pending
  <2>4. FeaturesInv'
    <3>1. CountFollows' /\ ExtentFollows' /\ cutLayer' \in BOOLEAN
      BY <1>0, <2>1, <2>3 DEF FeaturesInv, CountFollows, ExtentFollows, WillMeasure
    <3> QED BY <1>0, <1>f, <2>1, <3>1 DEF FeaturesInv, HoldsFeatures
  <2> QED BY <1>0, <1>c, <2>1, <2>2, <2>4, LayerKeeps
<1>9. CASE UNCHANGED layerVars
  BY <1>9 DEF layerVars, LayersInv, LayerCallIsSound, ShownWasApproved, FeaturesInv, HoldsFeatures, CountFollows, ExtentFollows,
              WillMeasure, Pending
<1> QED BY <1>1, <1>2, <1>3, <1>4, <1>5, <1>6, <1>7, <1>8, <1>9 DEF SpatialLayersNext

\* Whatever calls run at the same time, between them the cached count is the number of
\* features in force and the cached extent covers every feature, under the exceptions
\* the properties name (gis.service.ts:235-239, 282-286, 1026-1042).
THEOREM LayersFollowTheirFeatures == SpatialLayersSpec => [](CountIsRight /\ ExtentCovers)
<1>1. LayersInv => CountIsRight /\ ExtentCovers
  <2> SUFFICES ASSUME LayersInv, LayersAtRest PROVE CountIsRight /\ ExtentCovers
    BY DEF CountIsRight, ExtentCovers
  <2>1. Pending("add") = {} /\ Pending("remove") = {} /\ \A c \in LayerCalls : ~WillMeasure(c)
    BY DEF LayersAtRest, Pending, WillMeasure
  <2>2. FeaturesInv /\ layer.count \in Int
    BY DEF LayersInv, LayerRows
  <2>3. Cardinality(created \ ended) \in Nat /\ Cardinality({}) = 0
    BY <2>2, FS_Subset, FS_CardinalityType, FS_EmptySet DEF FeaturesInv
  <2>4. CountFollows /\ ExtentFollows
    BY <2>2 DEF FeaturesInv
  <2> QED BY <2>1, <2>2, <2>3, <2>4 DEF CountFollows, ExtentFollows, CountIsRight, ExtentCovers
<1> QED BY <1>1, LayersInitInv, LayersNextInv, PTL DEF SpatialLayersSpec

\* What is reviewed stays so, step by step.
ReviewStays == layer.review = "none" \/ layer'.review = layer.review \/ crossedLayer' \/ publishedDirectly'

\* It says so of every step the specification allows.
LEMMA LayerStepsKeepReviews == LayersInv /\ [SpatialLayersNext]_layerVars => ReviewStays
<1> SUFFICES ASSUME LayersInv, [SpatialLayersNext]_layerVars PROVE ReviewStays
  OBVIOUS
<1>0. layer \in LayerRows /\ layerCall \in [LayerCalls -> LayerCallStates]
  BY DEF LayersInv
<1>1. ASSUME NEW c \in LayerCalls, SaveLayer(c) PROVE ReviewStays
  <2> DEFINE call == layerCall[c]
  <2>1. call \in LayerCallStates /\ call.copy \in LayerRows /\ call.op \in LayerOps
    BY <1>0 DEF LayerCallStates
  <2>2. call.pc = "loaded" /\ layer' = Changed(call.op, call.copy) /\ crossedLayer' = (crossedLayer \/ layer # call.copy)
    BY <1>1 DEF SaveLayer
  <2>3. Admits(call.op, call.copy)
    BY <2>2 DEF LayersInv, LayerCallIsSound
  <2> SUFFICES ASSUME ~crossedLayer', layer.review # "none" PROVE layer'.review = layer.review
    BY DEF ReviewStays
  <2>4. call.copy = layer /\ layer.status # "draft"
    BY <2>2 DEF LayersInv
  <2> QED BY <2>1, <2>2, <2>3, <2>4, ChangedRow
<1>2. CASE CreateLayer \/ CreateDraftRiskLayer
  <2>1. layer.review = "none"
    BY <1>2 DEF CreateLayer, CreateDraftRiskLayer, NoLayer
  <2> QED BY <2>1 DEF ReviewStays
<1>3. ASSUME NEW c \in LayerCalls, CountFeature(c) \/ StoreExtent(c) PROVE ReviewStays
  BY <1>0, <1>3 DEF CountFeature, StoreExtent, ReviewStays, LayerRows
<1>4. CASE UNCHANGED layer
  BY <1>4 DEF ReviewStays
<1> QED BY <1>1, <1>2, <1>3, <1>4 DEF SpatialLayersNext, LoadLayer, CreateFeature, DeleteFeature, MeasureExtent, CrashOfLayers, layerVars

-----------------------------------------------------------------------------
\* Models and predictions.
-----------------------------------------------------------------------------
\* A model has one version in production at most.
AloneIn(table) == \A v, w \in ModelVersions : table[v] = "production" /\ table[w] = "production" => v = w
\* None.
NoneIn(table) == \A v \in ModelVersions : table[v] # "production"

\* What a call has seen and not written back yet.
SeenIsRight(c) ==
  LET call == registryCall[c]
  IN  /\ call.pc = "promoting" /\ call.to = "production" => NoneIn(call.seen)
      /\ call.pc = "rolling" => call.seen[call.v] = "production" /\ AloneIn(call.seen)
      /\ call.pc \in {"rolled", "restoring"} => NoneIn(call.seen)
      /\ call.pc = "restoring" => call.seen[call.v] = "staging" /\ call.to = "production"
      /\ call.pc = "demoting" => call.to = "production"

\* The call is about to bring a version into production, or to look for one.
WillRestore(c) ==
  \/ registryCall[c].pc \in {"promoting", "restoring"} /\ registryCall[c].to = "production"
  \/ registryCall[c].pc = "rolled"

\* The types the proof needs.
RegistryTypes ==
  /\ versions \in VersionTables
  /\ registryCall \in [RegistryCalls -> RegistryCallStates]
  /\ overlapped \in BOOLEAN /\ hadProduction \in BOOLEAN

\* The inductive invariant.
RegistryInv ==
  /\ RegistryTypes /\ registryCrashes \in Nat
  /\ overlapped \/ (AloneIn(versions) /\ \A c \in RegistryCalls : SeenIsRight(c))
  /\ \/ ~hadProduction \/ overlapped \/ lost # {}
     \/ ~NoneIn(versions) \/ \E c \in RegistryCalls : WillRestore(c)

\* It implies the properties.
LEMMA RegistryInvIsEnough == RegistryInv => OneProduction /\ ProductionIsKept
<1> SUFFICES ASSUME RegistryInv PROVE OneProduction /\ ProductionIsKept
  OBVIOUS
<1>1. ASSUME AloneIn(versions) PROVE Cardinality(VersionsIn(versions, "production")) <= 1
  <2>1. CASE VersionsIn(versions, "production") = {}
    BY <2>1, FS_EmptySet
  <2>2. ASSUME NEW v \in VersionsIn(versions, "production") PROVE Cardinality(VersionsIn(versions, "production")) <= 1
    <3>1. VersionsIn(versions, "production") = {v}
      BY <1>1, <2>2 DEF AloneIn, VersionsIn
    <3> QED BY <3>1, FS_Singleton
  <2> QED BY <2>1, <2>2
<1>2. OneProduction
  BY <1>1 DEF RegistryInv, OneProduction
<1>3. ProductionIsKept
  <2> SUFFICES ASSUME hadProduction, \A c \in RegistryCalls : registryCall[c].pc = "idle", ~overlapped, lost = {}
               PROVE  VersionsIn(versions, "production") # {}
    BY DEF ProductionIsKept
  <2>1. ~NoneIn(versions)
    BY DEF RegistryInv, WillRestore
  <2> QED BY <2>1 DEF NoneIn, VersionsIn
<1> QED BY <1>2, <1>3

\* It holds at the start.
LEMMA RegistryInitInv == ModelRegistryInit => RegistryInv
<1> SUFFICES ASSUME ModelRegistryInit PROVE RegistryInv
  OBVIOUS
<1>1. FreeRegistryCall \in RegistryCallStates /\ FreeRegistryCall.pc = "idle"
  BY ModelRegistryAssumption DEF FreeRegistryCall, RegistryCallStates, RegistryPcs, VersionStatuses, VersionTables, ModelVersions
<1>2. RegistryTypes
  BY <1>1 DEF ModelRegistryInit, RegistryTypes, VersionTables
<1>3. AloneIn(versions) /\ \A c \in RegistryCalls : SeenIsRight(c)
  BY <1>1 DEF ModelRegistryInit, AloneIn, SeenIsRight
<1> QED BY <1>2, <1>3 DEF RegistryInv, ModelRegistryInit

\* One call goes on; the others hold what they held.
LEMMA OneRegistryCallMoves ==
  ASSUME RegistryTypes, NEW c \in RegistryCalls, NEW next \in RegistryCallStates, SetRegistryCall(c, next)
  PROVE  /\ registryCall' \in [RegistryCalls -> RegistryCallStates] /\ registryCall'[c] = next
         /\ \A d \in RegistryCalls : d # c => registryCall'[d] = registryCall[d]
BY DEF RegistryTypes, SetRegistryCall

\* Writing what the other calls' facts do not speak of keeps them.
LEMMA SeenStays ==
  ASSUME NEW c \in RegistryCalls, \A d \in RegistryCalls : d # c => registryCall'[d] = registryCall[d],
         \A d \in RegistryCalls : SeenIsRight(d), SeenIsRight(c)'
  PROVE  \A d \in RegistryCalls : SeenIsRight(d)'
BY DEF SeenIsRight

\* Every step of the specification keeps the inductive invariant.
LEMMA RegistryNextInv == RegistryInv /\ [ModelRegistryNext]_registryVars => RegistryInv'
<1> SUFFICES ASSUME RegistryInv, [ModelRegistryNext]_registryVars PROVE RegistryInv'
  OBVIOUS
<1>0. RegistryTypes /\ versions \in VersionTables /\ overlapped \in BOOLEAN /\ hadProduction \in BOOLEAN
  BY DEF RegistryInv, RegistryTypes
<1>c. \A c \in RegistryCalls : /\ registryCall[c] \in RegistryCallStates /\ registryCall[c].pc \in RegistryPcs /\ registryCall[c].v \in ModelVersions
                               /\ registryCall[c].to \in VersionStatuses /\ registryCall[c].seen \in VersionTables
  BY <1>0 DEF RegistryTypes, RegistryCallStates
<1>f. FreeRegistryCall \in RegistryCallStates /\ FreeRegistryCall.pc = "idle"
  BY ModelRegistryAssumption DEF FreeRegistryCall, RegistryCallStates, RegistryPcs, VersionStatuses, VersionTables, ModelVersions
<1>p. {"demoting", "promoting", "rolling", "rolled", "restoring"} \subseteq RegistryPcs /\ {"staging", "production", "archived", "training"} \subseteq VersionStatuses
  BY DEF RegistryPcs, VersionStatuses
<1>n. registryCrashes' \in Nat
  <2>1. registryCrashes \in Nat
    BY DEF RegistryInv
  <2>2. registryCrashes' = registryCrashes \/ registryCrashes' = registryCrashes + 1
    BY DEF ModelRegistryNext, registryVars, RegisterVersion, PromoteVersion, RollbackVersion, DemoteProduction, SavePromotion, SaveRollback,
         FindPreviousStaging, RestorePrevious, CrashOfRegistry
  <2> QED BY <2>1, <2>2
<1>1. CASE RegisterVersion
  <2>1. PICK v \in ModelVersions : versions[v] = "none" /\ versions' = [versions EXCEPT ![v] = "training"]
    BY <1>1 DEF RegisterVersion
  <2>2. UNCHANGED <<registryCall, overlapped, lost, hadProduction>>
    BY <1>1 DEF RegisterVersion
  <2>3. versions' \in VersionTables /\ \A w \in ModelVersions : versions'[w] = "production" <=> versions[w] = "production"
    BY <1>0, <1>p, <2>1 DEF VersionTables
  <2>4. RegistryTypes'
    BY <1>0, <2>2, <2>3 DEF RegistryTypes
  <2> QED BY <1>n, <2>2, <2>3, <2>4 DEF RegistryInv, AloneIn, NoneIn, SeenIsRight, WillRestore
<1>2. ASSUME NEW c \in RegistryCalls, NEW v \in ModelVersions, NEW to \in {"staging", "production", "archived"}, PromoteVersion(c, v, to)
      PROVE  RegistryInv'
  <2> DEFINE next == [pc |-> IF to = "production" THEN "demoting" ELSE "promoting", v |-> v, to |-> to, seen |-> versions]
  <2>1. SetRegistryCall(c, next) /\ UNCHANGED <<versions, overlapped, lost, hadProduction>> /\ registryCall[c].pc = "idle"
    BY <1>2 DEF PromoteVersion, MayCallRegistry
  <2>2. next \in RegistryCallStates /\ (next.pc = "demoting" => next.to = "production") /\ next.pc \in {"demoting", "promoting"}
        /\ (next.pc = "promoting" => next.to # "production")
    BY <1>0, <1>p DEF RegistryCallStates
  <2> HIDE DEF next
  <2>3. /\ registryCall' \in [RegistryCalls -> RegistryCallStates] /\ registryCall'[c] = next
        /\ \A d \in RegistryCalls : d # c => registryCall'[d] = registryCall[d]
    BY <1>0, <2>1, <2>2, OneRegistryCallMoves
  <2>4. RegistryTypes'
    BY <1>0, <2>1, <2>3 DEF RegistryTypes
  <2>5. SeenIsRight(c)'
    BY <2>2, <2>3 DEF SeenIsRight
  <2>6. (\E d \in RegistryCalls : WillRestore(d)) => \E d \in RegistryCalls : WillRestore(d)'
    BY <2>1, <2>3 DEF WillRestore
  <2> QED BY <1>n, <2>1, <2>3, <2>4, <2>5, <2>6, SeenStays DEF RegistryInv, AloneIn, NoneIn
<1>3. ASSUME NEW c \in RegistryCalls, NEW v \in ModelVersions, RollbackVersion(c, v) PROVE RegistryInv'
  <2> DEFINE next == [pc |-> "rolling", v |-> v, to |-> "staging", seen |-> versions]
  <2>1. SetRegistryCall(c, next) /\ UNCHANGED <<versions, overlapped, lost, hadProduction>> /\ registryCall[c].pc = "idle"
        /\ versions[v] = "production" /\ ~overlapped
    BY <1>3 DEF RollbackVersion, MayCallRegistry
  <2>2. next \in RegistryCallStates /\ next.pc = "rolling" /\ next.v = v /\ next.seen = versions
    BY <1>0, <1>p DEF RegistryCallStates
  <2> HIDE DEF next
  <2>3. /\ registryCall' \in [RegistryCalls -> RegistryCallStates] /\ registryCall'[c] = next
        /\ \A d \in RegistryCalls : d # c => registryCall'[d] = registryCall[d]
    BY <1>0, <2>1, <2>2, OneRegistryCallMoves
  <2>4. RegistryTypes'
    BY <1>0, <2>1, <2>3 DEF RegistryTypes
  <2>5. SeenIsRight(c)'
    BY <2>1, <2>2, <2>3 DEF SeenIsRight, RegistryInv, AloneIn
  <2>6. (\E d \in RegistryCalls : WillRestore(d)) => \E d \in RegistryCalls : WillRestore(d)'
    BY <2>1, <2>3 DEF WillRestore
  <2> QED BY <1>n, <2>1, <2>3, <2>4, <2>5, <2>6, SeenStays DEF RegistryInv, AloneIn, NoneIn
<1>4. ASSUME NEW c \in RegistryCalls, DemoteProduction(c) PROVE RegistryInv'
  <2> DEFINE call == registryCall[c]
             table == Demoted(versions, call.v)
             next == [call EXCEPT !.pc = "promoting", !.seen = table]
  <2>1. /\ call.pc = "demoting" /\ versions' = table /\ overlapped' = (overlapped \/ versions # call.seen)
        /\ hadProduction' \in BOOLEAN /\ SetRegistryCall(c, next) /\ UNCHANGED lost
    BY <1>0, <1>4 DEF DemoteProduction, WriteVersions
  <2>2. table \in VersionTables /\ NoneIn(table)
    BY <1>0, <1>p DEF Demoted, VersionTables, NoneIn
  <2> HIDE DEF table
  <2>3. next \in RegistryCallStates /\ next.pc = "promoting" /\ next.seen = table /\ next.to = call.to
    BY <1>c, <1>p, <2>2 DEF RegistryCallStates
  <2> HIDE DEF next
  <2>4. /\ registryCall' \in [RegistryCalls -> RegistryCallStates] /\ registryCall'[c] = next
        /\ \A d \in RegistryCalls : d # c => registryCall'[d] = registryCall[d]
    BY <1>0, <2>1, <2>3, OneRegistryCallMoves
  <2>5. RegistryTypes'
    BY <1>0, <2>1, <2>2, <2>4 DEF RegistryTypes
  <2>6. SeenIsRight(c)'
    BY <2>2, <2>3, <2>4 DEF SeenIsRight
  <2>7. AloneIn(versions)'
    BY <2>1, <2>2 DEF AloneIn, NoneIn
  <2>8. overlapped' \/ WillRestore(c)'
    <3> SUFFICES ASSUME ~overlapped' PROVE WillRestore(c)'
      OBVIOUS
    <3>1. SeenIsRight(c)
      BY <2>1 DEF RegistryInv
    <3> QED BY <2>1, <2>3, <2>4, <3>1 DEF WillRestore, SeenIsRight
  <2>9. overlapped' \/ \A d \in RegistryCalls : SeenIsRight(d)'
    BY <2>1, <2>4, <2>6, SeenStays DEF RegistryInv
  <2> QED BY <1>n, <2>5, <2>7, <2>8, <2>9 DEF RegistryInv
\* A version is put into a status.
<1>5. ASSUME NEW c \in RegistryCalls, SavePromotion(c) PROVE RegistryInv'
  <2> DEFINE call == registryCall[c]
             table == Promoted(versions, call.v, call.to)
  <2>1. /\ call.pc = "promoting" /\ versions' = table /\ overlapped' = (overlapped \/ versions # call.seen)
        /\ hadProduction' = (hadProduction \/ VersionsIn(table, "production") # {}) /\ SetRegistryCall(c, FreeRegistryCall)
        /\ lost' = IF versions[call.v] = "production" /\ call.to # "production" THEN lost \cup {"withdrawn"} ELSE lost
    BY <1>5 DEF SavePromotion, WriteVersions
  <2>2. /\ table \in VersionTables /\ table[call.v] = call.to
        /\ \A w \in ModelVersions : w # call.v => table[w] = versions[w]
    BY <1>0, <1>c DEF Promoted, VersionTables
  <2> HIDE DEF table
  <2>4. /\ registryCall' \in [RegistryCalls -> RegistryCallStates] /\ registryCall'[c] = FreeRegistryCall
        /\ \A d \in RegistryCalls : d # c => registryCall'[d] = registryCall[d]
    BY <1>0, <1>f, <2>1, OneRegistryCallMoves
  <2>5. RegistryTypes'
    BY <1>0, <2>1, <2>2, <2>4 DEF RegistryTypes
  <2>6. SeenIsRight(c)'
    BY <1>f, <2>4 DEF SeenIsRight
  <2>7. overlapped' \/ (AloneIn(versions)' /\ \A d \in RegistryCalls : SeenIsRight(d)')
    <3> SUFFICES ASSUME ~overlapped' PROVE AloneIn(versions)' /\ \A d \in RegistryCalls : SeenIsRight(d)'
      OBVIOUS
    <3>1. SeenIsRight(c) /\ AloneIn(versions) /\ versions = call.seen /\ \A d \in RegistryCalls : SeenIsRight(d)
      BY <2>1 DEF RegistryInv
    <3>2. call.to = "production" => NoneIn(versions)
      BY <2>1, <3>1 DEF SeenIsRight
    <3>3. AloneIn(table)
      BY <1>c, <2>2, <3>1, <3>2 DEF AloneIn, NoneIn
    <3> QED BY <2>1, <2>4, <2>6, <3>1, <3>3, SeenStays DEF AloneIn
  <2>8. \/ ~hadProduction' \/ overlapped' \/ lost' # {}
        \/ ~NoneIn(versions') \/ \E d \in RegistryCalls : WillRestore(d)'
    <3> SUFFICES ASSUME hadProduction', ~overlapped', lost' = {}, NoneIn(table) PROVE \E d \in RegistryCalls : WillRestore(d)'
      BY <2>1
    <3>1. call.to # "production" /\ versions[call.v] # "production" /\ lost = {}
      BY <1>c, <2>1, <2>2 DEF NoneIn
    <3>2. NoneIn(versions) /\ hadProduction /\ ~overlapped
      BY <2>1, <2>2, <3>1 DEF NoneIn, VersionsIn
    <3>3. PICK d \in RegistryCalls : WillRestore(d)
      BY <3>1, <3>2 DEF RegistryInv
    <3>4. d # c
      BY <2>1, <3>1, <3>3 DEF WillRestore
    <3> QED BY <2>4, <3>3, <3>4 DEF WillRestore
  <2> QED BY <1>n, <2>5, <2>7, <2>8 DEF RegistryInv
<1>6. ASSUME NEW c \in RegistryCalls, SaveRollback(c) PROVE RegistryInv'
  <2> DEFINE call == registryCall[c]
             table == Promoted(versions, call.v, "staging")
             rolled == Promoted(call.seen, call.v, "staging")
             next == [call EXCEPT !.pc = "rolled", !.seen = rolled]
  <2>1. /\ call.pc = "rolling" /\ versions' = table /\ overlapped' = (overlapped \/ versions # call.seen)
        /\ hadProduction' \in BOOLEAN /\ SetRegistryCall(c, next) /\ UNCHANGED lost
    BY <1>0, <1>6 DEF SaveRollback, WriteVersions
  <2>2. /\ table \in VersionTables /\ table[call.v] = "staging"
        /\ \A w \in ModelVersions : w # call.v => table[w] = versions[w]
    BY <1>0, <1>c, <1>p DEF Promoted, VersionTables
  <2>3. /\ rolled \in VersionTables /\ rolled[call.v] = "staging"
        /\ \A w \in ModelVersions : w # call.v => rolled[w] = call.seen[w]
    BY <1>0, <1>c, <1>p DEF Promoted, VersionTables
  <2> HIDE DEF table, rolled
  <2>4. next \in RegistryCallStates /\ next.pc = "rolled" /\ next.seen = rolled
    BY <1>c, <1>p, <2>3 DEF RegistryCallStates
  <2> HIDE DEF next
  <2>5. /\ registryCall' \in [RegistryCalls -> RegistryCallStates] /\ registryCall'[c] = next
        /\ \A d \in RegistryCalls : d # c => registryCall'[d] = registryCall[d]
    BY <1>0, <2>1, <2>4, OneRegistryCallMoves
  <2>6. RegistryTypes'
    BY <1>0, <2>1, <2>2, <2>5 DEF RegistryTypes
  <2>7. WillRestore(c)'
    BY <2>4, <2>5 DEF WillRestore
  <2>8. overlapped' \/ (AloneIn(versions)' /\ \A d \in RegistryCalls : SeenIsRight(d)')
    <3> SUFFICES ASSUME ~overlapped' PROVE AloneIn(versions)' /\ \A d \in RegistryCalls : SeenIsRight(d)'
      OBVIOUS
    <3>1. SeenIsRight(c) /\ AloneIn(versions) /\ \A d \in RegistryCalls : SeenIsRight(d)
      BY <2>1 DEF RegistryInv
    <3>2. call.seen[call.v] = "production" /\ AloneIn(call.seen)
      BY <2>1, <3>1 DEF SeenIsRight
    <3>3. NoneIn(rolled)
      BY <1>c, <2>3, <3>2 DEF AloneIn, NoneIn
    <3>4. SeenIsRight(c)'
      BY <2>4, <2>5, <3>3 DEF SeenIsRight
    <3>5. AloneIn(table)
      BY <1>c, <2>2, <3>1 DEF AloneIn
    <3> QED BY <2>1, <2>5, <3>1, <3>4, <3>5, SeenStays DEF AloneIn
  <2> QED BY <1>n, <2>6, <2>7, <2>8 DEF RegistryInv
<1>7. ASSUME NEW c \in RegistryCalls, FindPreviousStaging(c) PROVE RegistryInv'
  <2> DEFINE call == registryCall[c]
             previous == NewestStaging(versions)
             next == [call EXCEPT !.pc = "restoring", !.v = previous, !.to = "production"]
  <2>1. /\ call.pc = "rolled" /\ overlapped' = (overlapped \/ versions # call.seen) /\ UNCHANGED <<versions, hadProduction>>
        /\ \/ VersionsIn(versions, "staging") # {} /\ SetRegistryCall(c, next) /\ UNCHANGED lost
           \/ SetRegistryCall(c, FreeRegistryCall) /\ lost' # {}
    BY <1>7 DEF FindPreviousStaging
  <2>2. CASE SetRegistryCall(c, FreeRegistryCall) /\ lost' # {}
    <3>1. /\ registryCall' \in [RegistryCalls -> RegistryCallStates] /\ registryCall'[c] = FreeRegistryCall
          /\ \A d \in RegistryCalls : d # c => registryCall'[d] = registryCall[d]
      BY <1>0, <1>f, <2>2, OneRegistryCallMoves
    <3>2. SeenIsRight(c)'
      BY <1>f, <3>1 DEF SeenIsRight
    <3>3. RegistryTypes'
      BY <1>0, <2>1, <3>1 DEF RegistryTypes
    <3>4. overlapped' \/ (AloneIn(versions)' /\ \A d \in RegistryCalls : SeenIsRight(d)')
      BY <2>1, <3>1, <3>2, SeenStays DEF RegistryInv, AloneIn
    <3> QED BY <1>n, <2>2, <3>3, <3>4 DEF RegistryInv
  <2>3. CASE VersionsIn(versions, "staging") # {} /\ SetRegistryCall(c, next) /\ UNCHANGED lost
    <3>1. previous \in ModelVersions /\ versions[previous] = "staging"
      <4>1. VersionsIn(versions, "staging") \in SUBSET (0..MaxModelVersions) /\ MaxModelVersions \in Nat
        BY ModelRegistryAssumption DEF VersionsIn, ModelVersions
      <4>2. Max(VersionsIn(versions, "staging")) \in VersionsIn(versions, "staging")
        BY <2>3, <4>1, GreatestOf DEF Max
      <4> QED BY <4>2 DEF NewestStaging, VersionsIn
    <3> HIDE DEF previous
    <3>2. next \in RegistryCallStates /\ next.pc = "restoring" /\ next.v = previous /\ next.to = "production" /\ next.seen = call.seen
      BY <1>c, <1>p, <3>1 DEF RegistryCallStates
    <3> HIDE DEF next
    <3>3. /\ registryCall' \in [RegistryCalls -> RegistryCallStates] /\ registryCall'[c] = next
          /\ \A d \in RegistryCalls : d # c => registryCall'[d] = registryCall[d]
      BY <1>0, <2>3, <3>2, OneRegistryCallMoves
    <3>4. RegistryTypes'
      BY <1>0, <2>1, <3>3 DEF RegistryTypes
    <3>5. WillRestore(c)'
      BY <3>2, <3>3 DEF WillRestore
    <3>6. overlapped' \/ (AloneIn(versions)' /\ \A d \in RegistryCalls : SeenIsRight(d)')
      <4> SUFFICES ASSUME ~overlapped' PROVE AloneIn(versions)' /\ \A d \in RegistryCalls : SeenIsRight(d)'
        OBVIOUS
      <4>1. SeenIsRight(c) /\ AloneIn(versions) /\ versions = call.seen /\ \A d \in RegistryCalls : SeenIsRight(d)
        BY <2>1 DEF RegistryInv
      <4>2. SeenIsRight(c)'
        BY <2>1, <3>1, <3>2, <3>3, <4>1 DEF SeenIsRight
      <4> QED BY <2>1, <3>3, <4>1, <4>2, SeenStays DEF AloneIn
    <3> QED BY <1>n, <3>4, <3>5, <3>6 DEF RegistryInv
  <2> QED BY <2>1, <2>2, <2>3
<1>8. ASSUME NEW c \in RegistryCalls, RestorePrevious(c) PROVE RegistryInv'
  <2> DEFINE call == registryCall[c]
             table == Promoted(versions, call.v, "production")
  <2>1. /\ call.pc = "restoring" /\ versions' = table /\ overlapped' = (overlapped \/ versions # call.seen)
        /\ hadProduction' \in BOOLEAN /\ SetRegistryCall(c, FreeRegistryCall) /\ UNCHANGED lost
    BY <1>0, <1>8 DEF RestorePrevious, WriteVersions
  <2>2. /\ table \in VersionTables /\ table[call.v] = "production"
        /\ \A w \in ModelVersions : w # call.v => table[w] = versions[w]
    BY <1>0, <1>c, <1>p DEF Promoted, VersionTables
  <2> HIDE DEF table
  <2>3. /\ registryCall' \in [RegistryCalls -> RegistryCallStates] /\ registryCall'[c] = FreeRegistryCall
        /\ \A d \in RegistryCalls : d # c => registryCall'[d] = registryCall[d]
    BY <1>0, <1>f, <2>1, OneRegistryCallMoves
  <2>4. RegistryTypes'
    BY <1>0, <2>1, <2>2, <2>3 DEF RegistryTypes
  <2>5. ~NoneIn(versions')
    BY <1>c, <2>1, <2>2 DEF NoneIn
  <2>6. overlapped' \/ (AloneIn(versions)' /\ \A d \in RegistryCalls : SeenIsRight(d)')
    <3> SUFFICES ASSUME ~overlapped' PROVE AloneIn(versions)' /\ \A d \in RegistryCalls : SeenIsRight(d)'
      OBVIOUS
    <3>1. SeenIsRight(c) /\ versions = call.seen /\ \A d \in RegistryCalls : SeenIsRight(d)
      BY <2>1 DEF RegistryInv
    <3>2. NoneIn(versions)
      BY <2>1, <3>1 DEF SeenIsRight
    <3>3. AloneIn(table)
      BY <1>c, <2>2, <3>2 DEF AloneIn, NoneIn
    <3>4. SeenIsRight(c)'
      BY <1>f, <2>3 DEF SeenIsRight
    <3> QED BY <2>1, <2>3, <3>1, <3>3, <3>4, SeenStays DEF AloneIn
  <2> QED BY <1>n, <2>4, <2>5, <2>6 DEF RegistryInv
<1>9. CASE CrashOfRegistry
  <2>1. /\ registryCall' = [c \in RegistryCalls |-> FreeRegistryCall] /\ UNCHANGED <<versions, overlapped, hadProduction>>
        /\ lost \subseteq lost' /\ ((\E c \in RegistryCalls : registryCall[c].pc # "idle") => lost' # {})
    BY <1>9 DEF CrashOfRegistry
  <2>2. RegistryTypes'
    BY <1>0, <1>f, <2>1 DEF RegistryTypes
  <2>3. overlapped' \/ (AloneIn(versions)' /\ \A d \in RegistryCalls : SeenIsRight(d)')
    BY <1>f, <2>1 DEF RegistryInv, AloneIn, SeenIsRight
  <2>4. (\E c \in RegistryCalls : WillRestore(c)) => lost' # {}
    BY <2>1 DEF WillRestore
  <2> QED BY <1>n, <2>1, <2>2, <2>3, <2>4 DEF RegistryInv, NoneIn
<1>10. CASE UNCHANGED registryVars
  BY <1>10 DEF registryVars, RegistryInv, RegistryTypes, AloneIn, NoneIn, SeenIsRight, WillRestore
<1> QED BY <1>1, <1>2, <1>3, <1>4, <1>5, <1>6, <1>7, <1>8, <1>9, <1>10 DEF ModelRegistryNext

\* A rollback restores what was staged, step by step.
RestoresStaged ==
  \A c \in RegistryCalls :
    registryCall[c].pc = "restoring" /\ registryCall'[c].pc = "idle" /\ registryCrashes' = registryCrashes
      => versions[registryCall[c].v] = "staging" \/ overlapped'

\* It says so of every step the specification allows.
LEMMA RegistryStepsRestoreStaged == RegistryInv /\ [ModelRegistryNext]_registryVars => RestoresStaged
<1> SUFFICES ASSUME RegistryInv, [ModelRegistryNext]_registryVars, NEW c \in RegistryCalls,
                    registryCall[c].pc = "restoring", registryCall'[c].pc = "idle", registryCrashes' = registryCrashes, ~overlapped'
             PROVE  versions[registryCall[c].v] = "staging"
  BY DEF RestoresStaged
<1>0. RegistryTypes
  BY DEF RegistryInv
<1>1. CASE RestorePrevious(c)
  <2>1. ~overlapped /\ versions = registryCall[c].seen
    BY <1>1 DEF RestorePrevious, WriteVersions
  <2> QED BY <2>1 DEF RegistryInv, SeenIsRight
<1>2. ASSUME NEW d \in RegistryCalls, d # c, \E state : SetRegistryCall(d, state) PROVE FALSE
  <2>1. registryCall'[c] = registryCall[c]
    BY <1>0, <1>2 DEF SetRegistryCall, RegistryTypes
  <2> QED BY <2>1
<1>3. ASSUME NEW d \in RegistryCalls,
             \/ \E v \in ModelVersions : (\E to \in {"staging", "production", "archived"} : PromoteVersion(d, v, to)) \/ RollbackVersion(d, v)
             \/ DemoteProduction(d) \/ SavePromotion(d) \/ SaveRollback(d) \/ FindPreviousStaging(d)
      PROVE  FALSE
  <2>1. d # c
    BY <1>3 DEF PromoteVersion, RollbackVersion, MayCallRegistry, DemoteProduction, SavePromotion, SaveRollback, FindPreviousStaging
  <2>2. \E state : SetRegistryCall(d, state)
    BY <1>3 DEF PromoteVersion, RollbackVersion, DemoteProduction, SavePromotion, SaveRollback, FindPreviousStaging
  <2> QED BY <1>2, <2>1, <2>2
<1>4. ASSUME NEW d \in RegistryCalls, d # c, RestorePrevious(d) PROVE FALSE
  BY <1>2, <1>4 DEF RestorePrevious
<1>5. CASE UNCHANGED registryCall
  BY <1>5
<1>6. CASE CrashOfRegistry
  <2>1. registryCrashes' = registryCrashes + 1 /\ registryCrashes \in Nat
    BY <1>6 DEF CrashOfRegistry, RegistryInv
  <2> QED BY <2>1
<1> QED BY <1>1, <1>3, <1>4, <1>5, <1>6 DEF ModelRegistryNext, RegisterVersion, registryVars
-----------------------------------------------------------------------------
\* The types the proof needs.
PredictionTypes ==
  /\ prediction \in [Predictions -> PredictionStatuses \cup {"none"}]
  /\ predictionCall \in [PredictionCalls -> PredictionCallStates]
  /\ publications \in [Predictions -> Nat]
  /\ mixed \in BOOLEAN

\* What is approved was approved by a review, and so was what a publication collected.
ApprovalsAreKnown ==
  /\ \A p \in Predictions : prediction[p] \in {"approved", "published"} => p \in approvedOnce
  /\ \A c \in PredictionCalls : predictionCall[c].pc = "publishing" => predictionCall[c].ids \subseteq approvedOnce

\* Publications are of approved rows.
PublicationsAreRight ==
  \A p \in Predictions : publications[p] = 0 \/ (publications[p] = 1 /\ prediction[p] = "published")

\* The inductive invariant.
PredictionsInv ==
  /\ PredictionTypes /\ ApprovalsAreKnown
  /\ mixed \/ PublicationsAreRight

\* It implies the properties.
LEMMA PredictionsInvIsEnough == PredictionsInv => PublishedWasApproved /\ PublishedOnce
<1> SUFFICES ASSUME PredictionsInv PROVE PublishedWasApproved /\ PublishedOnce
  OBVIOUS
<1>1. PublishedWasApproved
  BY DEF PredictionsInv, ApprovalsAreKnown, PublishedWasApproved
<1>2. ASSUME NEW p \in Predictions, publications[p] > 1, ~mixed PROVE FALSE
  <2>1. publications[p] = 0 \/ publications[p] = 1
    BY <1>2 DEF PredictionsInv, PublicationsAreRight
  <2> QED BY <1>2, <2>1
<1> QED BY <1>1, <1>2 DEF PublishedOnce

\* It holds at the start.
LEMMA PredictionsInitInv == RiskPredictionsInit => PredictionsInv
<1> SUFFICES ASSUME RiskPredictionsInit PROVE PredictionsInv
  OBVIOUS
<1>1. FreePredictionCall \in PredictionCallStates /\ FreePredictionCall.pc = "idle"
  BY DEF FreePredictionCall, PredictionCallStates
<1>2. PredictionTypes
  BY <1>1 DEF RiskPredictionsInit, PredictionTypes
<1> QED BY <1>1, <1>2 DEF RiskPredictionsInit, PredictionsInv, ApprovalsAreKnown, PublicationsAreRight

\* Every step of a prediction keeps what was decided.
DecisionsStay ==
  \A p \in Predictions : prediction[p] \in {"rejected", "published"} => prediction'[p] = prediction[p] \/ mixed'

\* Every step of the specification keeps the inductive invariant.
LEMMA PredictionsNextInv ==
  PredictionsInv /\ [RiskPredictionsNext]_predictionVars => PredictionsInv' /\ DecisionsStay
<1> SUFFICES ASSUME PredictionsInv, [RiskPredictionsNext]_predictionVars PROVE PredictionsInv' /\ DecisionsStay
  OBVIOUS
<1>0. PredictionTypes /\ ApprovalsAreKnown /\ (mixed \/ PublicationsAreRight)
  BY DEF PredictionsInv
<1>f. FreePredictionCall \in PredictionCallStates /\ FreePredictionCall.pc = "idle" /\ FreePredictionCall.ids = {}
  BY DEF FreePredictionCall, PredictionCallStates
<1>s. {"pending", "approved", "rejected", "published", "expired"} \subseteq PredictionStatuses \cup {"none"}
  BY DEF PredictionStatuses
<1>1. ASSUME NEW batch \in SUBSET Predictions, CreatePredictions(batch) PROVE PredictionsInv' /\ DecisionsStay
  <2>1. /\ prediction' = [p \in Predictions |-> IF p \in batch THEN "pending" ELSE prediction[p]]
        /\ \A p \in batch : prediction[p] = "none" /\ UNCHANGED <<predictionCall, approvedOnce, publications, mixed>>
    BY <1>1 DEF CreatePredictions
  <2>2. UNCHANGED <<predictionCall, approvedOnce, publications, mixed>>
    BY <1>1 DEF CreatePredictions
  <2>3. prediction' \in [Predictions -> PredictionStatuses \cup {"none"}]
    BY <1>0, <1>s, <2>1 DEF PredictionTypes
  <2>4. PublicationsAreRight => PublicationsAreRight'
    BY <2>1, <2>2 DEF PublicationsAreRight
  <2>5. ApprovalsAreKnown'
    BY <1>0, <2>1, <2>2 DEF ApprovalsAreKnown
  <2>6. PredictionTypes'
    BY <1>0, <2>2, <2>3 DEF PredictionTypes
  <2>7. DecisionsStay
    BY <2>1 DEF DecisionsStay
  <2> QED BY <1>0, <2>2, <2>4, <2>5, <2>6, <2>7 DEF PredictionsInv
<1>2. ASSUME NEW c \in PredictionCalls, NEW p \in Predictions, NEW to \in {"approved", "rejected"}, ReviewPrediction(c, p, to)
      PROVE  PredictionsInv' /\ DecisionsStay
  <2> DEFINE next == [pc |-> "reviewing", ids |-> {p}, to |-> to]
  <2>1. predictionCall' = [predictionCall EXCEPT ![c] = next] /\ UNCHANGED <<prediction, approvedOnce, publications, mixed>>
    BY <1>2 DEF ReviewPrediction
  <2>2. next \in PredictionCallStates /\ next.pc = "reviewing"
    BY DEF PredictionCallStates
  <2> HIDE DEF next
  <2>3. PredictionTypes'
    BY <1>0, <2>1, <2>2 DEF PredictionTypes
  <2>4. ApprovalsAreKnown'
    BY <1>0, <2>1, <2>2 DEF ApprovalsAreKnown, PredictionTypes
  <2> QED BY <1>0, <2>1, <2>3, <2>4 DEF PredictionsInv, PublicationsAreRight, DecisionsStay
<1>3. ASSUME NEW c \in PredictionCalls, SaveReview(c) PROVE PredictionsInv' /\ DecisionsStay
  <2> DEFINE call == predictionCall[c]
  <2>1. /\ prediction' = [p \in Predictions |-> IF p \in call.ids THEN call.to ELSE prediction[p]]
        /\ mixed' = (mixed \/ \E p \in call.ids : prediction[p] # "pending")
        /\ approvedOnce' = IF call.to = "approved" THEN approvedOnce \cup call.ids ELSE approvedOnce
        /\ predictionCall' = [predictionCall EXCEPT ![c] = FreePredictionCall] /\ UNCHANGED publications
    BY <1>3 DEF SaveReview
  <2>2. call.ids \subseteq Predictions /\ call.to \in {"approved", "rejected"}
    BY <1>0 DEF PredictionTypes, PredictionCallStates
  <2>3. prediction' \in [Predictions -> PredictionStatuses \cup {"none"}]
    BY <1>0, <1>s, <2>1, <2>2 DEF PredictionTypes
  <2>4. PredictionTypes'
    BY <1>0, <1>f, <2>1, <2>3 DEF PredictionTypes
  <2>5. ApprovalsAreKnown'
    BY <1>0, <1>f, <2>1, <2>2 DEF ApprovalsAreKnown, PredictionTypes
  <2>6. ~mixed' => ~mixed /\ \A p \in call.ids : prediction[p] = "pending"
    BY <2>1
  <2>7. ~mixed' => PublicationsAreRight'
    <3> SUFFICES ASSUME ~mixed', NEW p \in Predictions PROVE publications[p] = 0 \/ (publications[p] = 1 /\ prediction'[p] = "published")
      BY <2>1 DEF PublicationsAreRight
    <3>1. publications[p] = 0 \/ (publications[p] = 1 /\ prediction[p] = "published")
      BY <1>0, <2>6 DEF PublicationsAreRight
    <3>2. p \in call.ids \/ prediction'[p] = prediction[p]
      BY <2>1
    <3>3. p \in call.ids => prediction[p] = "pending"
      BY <2>6
    <3> QED BY <3>1, <3>2, <3>3
  <2>8. DecisionsStay
    BY <2>1, <2>6 DEF DecisionsStay
  <2> QED BY <2>4, <2>5, <2>7, <2>8 DEF PredictionsInv
<1>4. ASSUME NEW c \in PredictionCalls, CollectApproved(c) PROVE PredictionsInv' /\ DecisionsStay
  <2> DEFINE next == [FreePredictionCall EXCEPT !.pc = "publishing", !.ids = ToPublish]
  <2>1. predictionCall' = [predictionCall EXCEPT ![c] = next] /\ UNCHANGED <<prediction, approvedOnce, publications, mixed>>
    BY <1>4 DEF CollectApproved
  <2>2. next \in PredictionCallStates /\ next.pc = "publishing" /\ next.ids = ToPublish
    BY <1>f DEF PredictionCallStates, ToPublish
  <2> HIDE DEF next
  <2>3. PredictionTypes'
    BY <1>0, <2>1, <2>2 DEF PredictionTypes
  <2>4. ApprovalsAreKnown'
    BY <1>0, <2>1, <2>2 DEF ApprovalsAreKnown, PredictionTypes, ToPublish
  <2> QED BY <1>0, <2>1, <2>3, <2>4 DEF PredictionsInv, PublicationsAreRight, DecisionsStay
<1>5. ASSUME NEW c \in PredictionCalls, PublishCollected(c) PROVE PredictionsInv' /\ DecisionsStay
  <2> DEFINE call == predictionCall[c]
  <2>1. /\ prediction' = [p \in Predictions |-> IF p \in call.ids THEN "published" ELSE prediction[p]]
        /\ publications' = [p \in Predictions |-> publications[p] + (IF p \in call.ids THEN 1 ELSE 0)]
        /\ mixed' = (mixed \/ ~(call.ids \subseteq ToPublish)) /\ UNCHANGED approvedOnce /\ call.pc = "publishing"
        /\ predictionCall' = [predictionCall EXCEPT ![c] = FreePredictionCall]
    BY <1>5 DEF PublishCollected
  <2>2. call.ids \subseteq approvedOnce /\ call.ids \subseteq Predictions
    BY <1>0, <2>1 DEF ApprovalsAreKnown, PredictionTypes, PredictionCallStates
  <2>3. prediction' \in [Predictions -> PredictionStatuses \cup {"none"}]
    BY <1>0, <1>s, <2>1 DEF PredictionTypes
  <2>4. publications' \in [Predictions -> Nat]
    BY <1>0, <2>1 DEF PredictionTypes
  <2>5. PredictionTypes'
    BY <1>0, <1>f, <2>1, <2>3, <2>4 DEF PredictionTypes
  <2>6. ApprovalsAreKnown'
    BY <1>0, <1>f, <2>1, <2>2 DEF ApprovalsAreKnown, PredictionTypes
  <2>7. ~mixed' => ~mixed /\ \A p \in call.ids : prediction[p] = "approved"
    BY <2>1 DEF ToPublish
  <2>8. ~mixed' => PublicationsAreRight'
    <3> SUFFICES ASSUME ~mixed', NEW p \in Predictions PROVE publications'[p] = 0 \/ (publications'[p] = 1 /\ prediction'[p] = "published")
      BY DEF PublicationsAreRight
    <3>1. publications[p] = 0 \/ (publications[p] = 1 /\ prediction[p] = "published")
      BY <1>0, <2>7 DEF PublicationsAreRight
    <3>2. CASE p \in call.ids
      <4>1. prediction[p] = "approved"
        BY <2>7, <3>2
      <4>2. publications[p] = 0 /\ publications'[p] = publications[p] + 1 /\ prediction'[p] = "published"
        BY <2>1, <3>1, <3>2, <4>1
      <4> QED BY <4>2
    <3>3. CASE p \notin call.ids
      <4>1. publications'[p] = publications[p] + 0 /\ prediction'[p] = prediction[p]
        BY <2>1, <3>3
      <4> QED BY <3>1, <4>1
    <3> QED BY <3>2, <3>3
  <2>9. DecisionsStay
    BY <2>1, <2>7 DEF DecisionsStay
  <2> QED BY <2>5, <2>6, <2>8, <2>9 DEF PredictionsInv
<1>6. CASE ExpireStale
  <2>1. /\ prediction' = [p \in Predictions |-> IF p \in Expiring THEN "expired" ELSE prediction[p]]
        /\ UNCHANGED <<predictionCall, approvedOnce, publications, mixed>>
    BY <1>6 DEF ExpireStale
  <2>2. \A p \in Expiring : prediction[p] \in {"pending", "approved"}
    BY DEF Expiring
  <2>3. prediction' \in [Predictions -> PredictionStatuses \cup {"none"}]
    BY <1>0, <1>s, <2>1 DEF PredictionTypes
  <2>4. PredictionTypes' /\ ApprovalsAreKnown'
    BY <1>0, <2>1, <2>3 DEF PredictionTypes, ApprovalsAreKnown
  <2>5. (PublicationsAreRight => PublicationsAreRight') /\ DecisionsStay
    BY <2>1, <2>2 DEF PublicationsAreRight, DecisionsStay
  <2> QED BY <1>0, <2>1, <2>4, <2>5 DEF PredictionsInv
<1>7. CASE UNCHANGED <<prediction, predictionCall, approvedOnce, publications, mixed>>
  BY <1>0, <1>7 DEF PredictionsInv, PredictionTypes, ApprovalsAreKnown, PublicationsAreRight, DecisionsStay
<1> QED BY <1>1, <1>2, <1>3, <1>4, <1>5, <1>6, <1>7 DEF RiskPredictionsNext, Outdate, predictionVars

-----------------------------------------------------------------------------
\* Forms and resources.
\* What a call may hold.
FieldStates == [pc: FieldSteps, row: Nat, verdict: Verdicts \cup {"none"}]

\* A form with submissions, or with a submission or a review under way, is published.
SubmittedIsPublished ==
  submission # <<>> \/ (\E c \in FieldCalls : fieldCall[c].pc \in {"submit", "review"}) => form = "published"

\* A withdrawal that was not overlapped is the first.
WithdrawalIsFirst ==
  /\ \A c \in FieldCalls : fieldCall[c].pc = "withdraw" => withdrawnAt # NotDeployed
  /\ ~overlapping =>
       \A c, d \in FieldCalls :
         fieldCall[c].pc = "withdraw" => withdrawnAt = 0 /\ (fieldCall[d].pc = "withdraw" => c = d)

\* A review is of a submission there is.
ReviewHasSubmission ==
  \A c \in FieldCalls : fieldCall[c].pc = "review" => fieldCall[c].row \in DOMAIN submission /\ fieldCall[c].verdict \in Verdicts

\* The inductive invariant.
FieldInv ==
  /\ submission \in Seq(Submission) /\ ReviewHasSubmission
  /\ fieldCall \in [FieldCalls -> FieldStates]
  /\ overlapping \in BOOLEAN /\ withdrawnAt \in Nat \cup {NotDeployed}
  /\ SubmittedIsPublished /\ WithdrawalIsFirst

\* It holds at the start.
LEMMA FieldInitInv == FieldWorkInit => FieldInv
<1> SUFFICES ASSUME FieldWorkInit PROVE FieldInv
  OBVIOUS
<1>1. fieldCall \in [FieldCalls -> FieldStates] /\ \A c \in FieldCalls : fieldCall[c].pc = "idle"
  BY DEF FieldWorkInit, FieldIdle, FieldStates, FieldSteps
<1>2. <<>> \in Seq(Submission)
  OBVIOUS
<1> QED BY <1>1, <1>2 DEF FieldWorkInit, FieldInv, NotDeployed, SubmittedIsPublished, WithdrawalIsFirst, ReviewHasSubmission

\* A call begins.
LEMMA FieldBegins ==
  ASSUME FieldInv, NEW c \in FieldCalls, NEW pc \in FieldSteps, NEW row \in Nat, NEW verdict \in Verdicts \cup {"none"},
         FieldBegin(c, pc, row, verdict)
  PROVE  /\ fieldCall' \in [FieldCalls -> FieldStates] /\ fieldCall'[c].pc = pc /\ fieldCall[c].pc = "idle"
         /\ \A d \in FieldCalls : d # c => fieldCall'[d] = fieldCall[d]
BY DEF FieldInv, FieldBegin, FieldStates, FieldIdle

\* A call ends.
LEMMA FieldEnds ==
  ASSUME FieldInv, NEW c \in FieldCalls, NEW pc \in FieldSteps, FieldEnd(c, pc)
  PROVE  /\ fieldCall' \in [FieldCalls -> FieldStates] /\ fieldCall'[c].pc = "idle" /\ fieldCall[c].pc = pc
         /\ \A d \in FieldCalls : d # c => fieldCall'[d] = fieldCall[d]
         /\ UNCHANGED overlapping
BY DEF FieldInv, FieldEnd, FieldStates, FieldIdle, FieldSteps

\* Every step of the specification keeps the inductive invariant.
LEMMA FieldNextInv == FieldInv /\ [FieldWorkNext]_fieldVars => FieldInv'
<1> SUFFICES ASSUME FieldInv, [FieldWorkNext]_fieldVars PROVE FieldInv'
  OBVIOUS
<1>t. /\ SubmittedIsPublished /\ WithdrawalIsFirst /\ overlapping \in BOOLEAN
      /\ submission \in Seq(Submission) /\ ReviewHasSubmission
      /\ withdrawnAt \in Nat \cup {NotDeployed}
  BY DEF FieldInv
<1>s. /\ "publish" \in FieldSteps /\ "submit" \in FieldSteps /\ "review" \in FieldSteps /\ "withdraw" \in FieldSteps
      /\ 0 \in Nat /\ "none" \in Verdicts \cup {"none"}
  BY DEF FieldSteps
<1>1. CASE CreateForm \/ DeployResource \/ UNCHANGED fieldVars
  <2>1. UNCHANGED <<submission, fieldCall, overlapping>>
    BY <1>1 DEF CreateForm, DeployResource, fieldVars
  <2>2. form = "published" => form' = "published"
    BY <1>1 DEF CreateForm, DeployResource, fieldVars
  <2>3. withdrawnAt # NotDeployed => withdrawnAt' = withdrawnAt
    BY <1>1 DEF CreateForm, DeployResource, fieldVars
  <2>w. withdrawnAt' \in Nat \cup {NotDeployed}
    <3>1. withdrawnAt' \in {withdrawnAt, 0}
      BY <1>1 DEF CreateForm, DeployResource, fieldVars
    <3> QED BY <1>t, <3>1
  <2>4. SubmittedIsPublished'
    BY <1>t, <2>1, <2>2 DEF SubmittedIsPublished
  <2>5. WithdrawalIsFirst'
    BY <1>t, <2>1, <2>3 DEF WithdrawalIsFirst, NotDeployed
  <2>6. ReviewHasSubmission'
    BY <1>t, <2>1 DEF ReviewHasSubmission
  <2>7. fieldCall' \in [FieldCalls -> FieldStates]
    BY <2>1 DEF FieldInv
  <2> QED BY <1>t, <2>1, <2>4, <2>5, <2>6, <2>7, <2>w DEF FieldInv
<1>2. ASSUME NEW c \in FieldCalls, LoadFormToPublish(c) \/ FindPublishedForm(c) \/ LoadDeployment(c)
                                   \/ \E row \in DOMAIN submission, verdict \in Verdicts : LoadSubmission(c, row, verdict)
      PROVE FieldInv'
  <2>1. UNCHANGED <<form, submission, withdrawnAt>>
    BY <1>2 DEF LoadFormToPublish, FindPublishedForm, LoadDeployment, LoadSubmission
  <2>2. CASE LoadFormToPublish(c)
    <3>1. FieldBegin(c, "publish", 0, "none") /\ overlapping' = overlapping
      BY <2>2 DEF LoadFormToPublish
    <3>2. /\ fieldCall' \in [FieldCalls -> FieldStates] /\ fieldCall'[c].pc = "publish"
          /\ \A d \in FieldCalls : d # c => fieldCall'[d] = fieldCall[d]
      BY <1>s, <3>1, FieldBegins
    <3> QED BY <1>t, <2>1, <3>1, <3>2 DEF FieldInv, SubmittedIsPublished, WithdrawalIsFirst, ReviewHasSubmission
  <2>3. CASE FindPublishedForm(c)
    <3>1. FieldBegin(c, "submit", 0, "none") /\ overlapping' = overlapping /\ form = "published"
      BY <2>3 DEF FindPublishedForm, MaySubmit
    <3>2. /\ fieldCall' \in [FieldCalls -> FieldStates] /\ fieldCall'[c].pc = "submit"
          /\ \A d \in FieldCalls : d # c => fieldCall'[d] = fieldCall[d]
      BY <1>s, <3>1, FieldBegins
    <3> QED BY <1>t, <2>1, <3>1, <3>2 DEF FieldInv, SubmittedIsPublished, WithdrawalIsFirst, ReviewHasSubmission
  <2>4. CASE LoadDeployment(c)
    <3>1. /\ FieldBegin(c, "withdraw", 0, "none") /\ withdrawnAt = 0
          /\ overlapping' = (overlapping \/ \E d \in FieldCalls : fieldCall[d].pc = "withdraw")
      BY <2>4 DEF LoadDeployment, MayWithdraw
    <3>2. /\ fieldCall' \in [FieldCalls -> FieldStates] /\ fieldCall'[c].pc = "withdraw"
          /\ \A d \in FieldCalls : d # c => fieldCall'[d] = fieldCall[d]
      BY <1>s, <3>1, FieldBegins
    <3>3. SubmittedIsPublished'
      BY <1>t, <2>1, <3>2 DEF SubmittedIsPublished
    <3>4. withdrawnAt' = 0 /\ withdrawnAt' # NotDeployed
      BY <2>1, <3>1 DEF NotDeployed
    <3>5. ~overlapping' => \A d \in FieldCalls : fieldCall'[d].pc = "withdraw" => d = c
      BY <3>1, <3>2
    <3>6. WithdrawalIsFirst'
      BY <3>4, <3>5 DEF WithdrawalIsFirst
    <3>7. overlapping' \in BOOLEAN
      BY <3>1
    <3>8. ReviewHasSubmission'
      BY <1>t, <2>1, <3>2 DEF ReviewHasSubmission
    <3> QED BY <1>t, <2>1, <3>2, <3>3, <3>6, <3>7, <3>8 DEF FieldInv
  <2>5. ASSUME NEW row \in DOMAIN submission, NEW verdict \in Verdicts, LoadSubmission(c, row, verdict) PROVE FieldInv'
    <3>1. FieldBegin(c, "review", row, verdict) /\ overlapping' = overlapping
      BY <2>5 DEF LoadSubmission
    <3>2. row \in Nat /\ submission # <<>>
      BY <1>t
    <3>3. /\ fieldCall' \in [FieldCalls -> FieldStates] /\ fieldCall'[c].pc = "review"
          /\ \A d \in FieldCalls : d # c => fieldCall'[d] = fieldCall[d]
      BY <1>s, <3>1, <3>2, FieldBegins
    <3>4. fieldCall'[c].row = row /\ fieldCall'[c].verdict = verdict
      BY <3>1 DEF FieldBegin, FieldInv
    <3>5. DOMAIN submission # {}
      OBVIOUS
    <3>6. SubmittedIsPublished'
      <4>1. submission = <<>> => DOMAIN submission = {}
        OBVIOUS
      <4> QED BY <1>t, <2>1, <3>5, <4>1 DEF SubmittedIsPublished
    <3>7. WithdrawalIsFirst'
      BY <1>t, <2>1, <3>1, <3>3 DEF WithdrawalIsFirst
    <3>8. ReviewHasSubmission'
      BY <1>t, <2>1, <3>3, <3>4 DEF ReviewHasSubmission
    <3> QED BY <1>t, <2>1, <3>1, <3>3, <3>6, <3>7, <3>8 DEF FieldInv
  <2> QED BY <1>2, <2>2, <2>3, <2>4, <2>5
<1>3. ASSUME NEW c \in FieldCalls, SavePublishedForm(c) PROVE FieldInv'
  <2>1. FieldEnd(c, "publish") /\ form' = "published" /\ UNCHANGED <<submission, withdrawnAt>>
    BY <1>3 DEF SavePublishedForm
  <2>2. /\ fieldCall' \in [FieldCalls -> FieldStates] /\ fieldCall'[c].pc = "idle" /\ UNCHANGED overlapping
        /\ \A d \in FieldCalls : d # c => fieldCall'[d] = fieldCall[d]
    BY <1>s, <2>1, FieldEnds
  <2> QED BY <1>t, <2>1, <2>2 DEF FieldInv, SubmittedIsPublished, WithdrawalIsFirst, ReviewHasSubmission
<1>4. ASSUME NEW c \in FieldCalls, InsertSubmission(c) PROVE FieldInv'
  <2> DEFINE new == [status |-> "submitted", reviewer |-> "nobody"]
  <2>1. /\ FieldEnd(c, "submit") /\ UNCHANGED <<form, withdrawnAt>> /\ submission' = Append(submission, new)
    BY <1>4 DEF InsertSubmission
  <2>2. /\ fieldCall' \in [FieldCalls -> FieldStates] /\ fieldCall'[c].pc = "idle" /\ UNCHANGED overlapping
        /\ fieldCall[c].pc = "submit"
        /\ \A d \in FieldCalls : d # c => fieldCall'[d] = fieldCall[d]
    BY <1>s, <2>1, FieldEnds
  <2>3. new \in Submission
    BY DEF Submission
  <2> HIDE DEF new
  <2>4. submission' \in Seq(Submission) /\ DOMAIN submission \subseteq DOMAIN submission'
    BY <1>t, <2>1, <2>2, <2>3 DEF ReviewHasSubmission
  <2>5. form = "published"
    BY <1>t, <2>2 DEF SubmittedIsPublished
  <2> QED BY <1>t, <2>1, <2>2, <2>4, <2>5 DEF FieldInv, SubmittedIsPublished, WithdrawalIsFirst, ReviewHasSubmission
<1>5. ASSUME NEW c \in FieldCalls, SaveSubmissionReview(c) PROVE FieldInv'
  <2> DEFINE new == [status |-> fieldCall[c].verdict, reviewer |-> c]
  <2>1. /\ FieldEnd(c, "review") /\ UNCHANGED <<form, withdrawnAt>> /\ submission' = [submission EXCEPT ![fieldCall[c].row] = new]
    BY <1>5 DEF SaveSubmissionReview
  <2>2. /\ fieldCall' \in [FieldCalls -> FieldStates] /\ fieldCall'[c].pc = "idle" /\ UNCHANGED overlapping
        /\ fieldCall[c].pc = "review"
        /\ \A d \in FieldCalls : d # c => fieldCall'[d] = fieldCall[d]
    BY <1>s, <2>1, FieldEnds
  <2>3. new \in Submission
    BY <1>t, <2>2 DEF Submission, ReviewHasSubmission
  <2> HIDE DEF new
  <2>4. submission' \in Seq(Submission) /\ DOMAIN submission = DOMAIN submission'
    BY <1>t, <2>1, <2>2, <2>3 DEF ReviewHasSubmission
  <2>5. form = "published"
    BY <1>t, <2>2 DEF SubmittedIsPublished
  <2> QED BY <1>t, <2>1, <2>2, <2>4, <2>5 DEF FieldInv, SubmittedIsPublished, WithdrawalIsFirst, ReviewHasSubmission
<1>6. ASSUME NEW c \in FieldCalls, SaveWithdrawal(c) PROVE FieldInv'
  <2>1. FieldEnd(c, "withdraw") /\ UNCHANGED <<form, submission>> /\ withdrawnAt' = withdrawnAt + 1
    BY <1>6 DEF SaveWithdrawal
  <2>2. /\ fieldCall' \in [FieldCalls -> FieldStates] /\ fieldCall'[c].pc = "idle" /\ UNCHANGED overlapping
        /\ fieldCall[c].pc = "withdraw"
        /\ \A d \in FieldCalls : d # c => fieldCall'[d] = fieldCall[d]
    BY <1>s, <2>1, FieldEnds
  <2>3. \A d \in FieldCalls : fieldCall'[d].pc = "withdraw" => fieldCall[d].pc = "withdraw" /\ d # c
    BY <2>2
  <2>4. withdrawnAt' # NotDeployed /\ withdrawnAt' \in Nat
    <3>1. withdrawnAt \in Nat
      BY <1>t, <2>2 DEF WithdrawalIsFirst
    <3> QED BY <2>1, <3>1 DEF NotDeployed
  <2> QED BY <1>t, <2>1, <2>2, <2>3, <2>4 DEF FieldInv, SubmittedIsPublished, WithdrawalIsFirst, ReviewHasSubmission
<1> QED BY <1>1, <1>2, <1>3, <1>4, <1>5, <1>6 DEF FieldWorkNext

\* WithdrawalStands for one step.
LEMMA FieldStepsKeepWithdrawal ==
  FieldInv /\ [FieldWorkNext]_fieldVars =>
    /\ withdrawnAt \notin {NotDeployed, 0} /\ ~overlapping' => withdrawnAt' = withdrawnAt
    /\ submission' # <<>> => form' = "published"
<1> SUFFICES ASSUME FieldInv, [FieldWorkNext]_fieldVars
             PROVE  /\ withdrawnAt \notin {NotDeployed, 0} /\ ~overlapping' => withdrawnAt' = withdrawnAt
                    /\ submission' # <<>> => form' = "published"
  OBVIOUS
<1>1. submission' # <<>> => form' = "published"
  BY FieldNextInv DEF FieldInv, SubmittedIsPublished
<1>2. withdrawnAt' # withdrawnAt => withdrawnAt = NotDeployed \/ \E c \in FieldCalls : SaveWithdrawal(c)
  <2>1. ASSUME NEW c \in FieldCalls, \/ LoadFormToPublish(c) \/ SavePublishedForm(c) \/ FindPublishedForm(c) \/ InsertSubmission(c)
                                     \/ (\E row \in DOMAIN submission, verdict \in Verdicts : LoadSubmission(c, row, verdict))
                                     \/ SaveSubmissionReview(c) \/ LoadDeployment(c)
        PROVE  withdrawnAt' = withdrawnAt
    BY <2>1 DEF LoadFormToPublish, SavePublishedForm, FindPublishedForm, InsertSubmission, LoadSubmission, SaveSubmissionReview, LoadDeployment
  <2>2. CreateForm \/ DeployResource \/ UNCHANGED fieldVars => withdrawnAt' = withdrawnAt \/ withdrawnAt = NotDeployed
    BY DEF CreateForm, DeployResource, fieldVars
  <2> QED BY <2>1, <2>2 DEF FieldWorkNext
<1>3. ASSUME NEW c \in FieldCalls, SaveWithdrawal(c), ~overlapping' PROVE withdrawnAt = 0
  <2>1. fieldCall[c].pc = "withdraw" /\ overlapping' = overlapping
    BY <1>3 DEF SaveWithdrawal, FieldEnd
  <2> QED BY <1>3, <2>1 DEF FieldInv, WithdrawalIsFirst
<1> QED BY <1>1, <1>2, <1>3

-----------------------------------------------------------------------------
\* Generated reports.
\* What a report may be.
GeneratedStates ==
  [status: {"none", "generating", "ready", "failed"}, type: ReportTypes \cup {"none"},
   classification: Nat, clearance: Nat, data: Nat \cup {NoData}]

\* The data of a report is within its classification, unless a lower one was asked for.
ReportIsCovered(r) ==
  /\ generated[r].clearance <= generated[r].classification \/ r \in lowered
  /\ generated[r].status = "ready" => generated[r].data = generated[r].clearance

\* The inductive invariant.
GeneratedInv ==
  /\ generated \in [AnalyticReports -> GeneratedStates]
  /\ generator \in [AnalyticReports -> {"none", "scheduled", "built", "failing"}]
  /\ \A d \in downloads : d.clearance \in Nat
  /\ \A r \in AnalyticReports : ReportIsCovered(r)
  /\ ReportsAreSettled

\* It holds at the start.
LEMMA GeneratedInitInv == GeneratedReportsInit => GeneratedInv
<1> SUFFICES ASSUME GeneratedReportsInit PROVE GeneratedInv
  OBVIOUS
<1>1. NoReport \in GeneratedStates /\ NoReport.clearance = 0 /\ NoReport.classification = 0 /\ NoReport.status = "none"
  BY DEF NoReport, GeneratedStates
<1>2. \A r \in AnalyticReports : generated[r] = NoReport
  BY DEF GeneratedReportsInit
<1>3. /\ generated \in [AnalyticReports -> GeneratedStates]
      /\ generator \in [AnalyticReports -> {"none", "scheduled", "built", "failing"}] /\ downloads = {}
  BY <1>1 DEF GeneratedReportsInit
<1>4. \A r \in AnalyticReports : ReportIsCovered(r)
  BY <1>1, <1>2 DEF ReportIsCovered
<1>5. ReportsAreSettled
  BY <1>1, <1>2, <1>3 DEF ReportsAreSettled
<1> QED BY <1>3, <1>4, <1>5 DEF GeneratedInv

\* One report and its generator go on.
LEMMA OneReportMoves ==
  ASSUME GeneratedInv, NEW r \in AnalyticReports, NEW row \in GeneratedStates, NEW step \in {"none", "scheduled", "built", "failing"},
         generated' = [generated EXCEPT ![r] = row], generator' = [generator EXCEPT ![r] = step],
         downloads' = downloads, lowered \subseteq lowered', unattended \subseteq unattended',
         row.clearance <= row.classification \/ r \in lowered',
         row.status = "ready" => row.data = row.clearance,
         row.status = "generating" => step # "none" \/ r \in unattended'
  PROVE  GeneratedInv'
<1>1. /\ generated' \in [AnalyticReports -> GeneratedStates] /\ generated'[r] = row
      /\ \A q \in AnalyticReports : q # r => generated'[q] = generated[q]
  BY DEF GeneratedInv
<1>2. /\ generator' \in [AnalyticReports -> {"none", "scheduled", "built", "failing"}] /\ generator'[r] = step
      /\ \A q \in AnalyticReports : q # r => generator'[q] = generator[q]
  BY DEF GeneratedInv
<1>3. \A q \in AnalyticReports : ReportIsCovered(q)'
  <2>1. ReportIsCovered(r)'
    BY <1>1 DEF ReportIsCovered
  <2>2. \A q \in AnalyticReports : q # r => ReportIsCovered(q)'
    BY <1>1 DEF ReportIsCovered, GeneratedInv
  <2> QED BY <2>1, <2>2
<1>4. \A q \in AnalyticReports : generated'[q].status = "generating" => generator'[q] # "none" \/ q \in unattended'
  BY <1>1, <1>2 DEF GeneratedInv, ReportsAreSettled
<1>5. \A d \in downloads' : d.data # NoData /\ (d.data <= d.clearance \/ d.report \in lowered')
  BY DEF GeneratedInv, ReportsAreSettled
<1>6. \A d \in downloads' : d.clearance \in Nat
  BY DEF GeneratedInv
<1> QED BY <1>1, <1>2, <1>3, <1>4, <1>5, <1>6 DEF GeneratedInv, ReportsAreSettled

\* Every step of the specification keeps the inductive invariant.
LEMMA GeneratedNextInv == GeneratedInv /\ [GeneratedReportsNext]_generatedVars => GeneratedInv'
<1> SUFFICES ASSUME GeneratedInv, [GeneratedReportsNext]_generatedVars PROVE GeneratedInv'
  OBVIOUS
<1>t. /\ generated \in [AnalyticReports -> GeneratedStates]
      /\ generator \in [AnalyticReports -> {"none", "scheduled", "built", "failing"}]
      /\ \A r \in AnalyticReports : ReportIsCovered(r)
      /\ ReportsAreSettled /\ \A d \in downloads : d.clearance \in Nat
  BY DEF GeneratedInv
<1>k. \A r \in AnalyticReports : generated[r] \in GeneratedStates
  BY <1>t
<1>1. ASSUME NEW r \in AnalyticReports, NEW type \in ReportTypes, NEW clearance \in Clearances, NEW class \in Clearances,
             RequestReport(r, type, clearance, class)
      PROVE  GeneratedInv'
  <2> DEFINE row == [status |-> "generating", type |-> type, classification |-> class, clearance |-> clearance, data |-> NoData]
  <2>1. /\ generated' = [generated EXCEPT ![r] = row] /\ generator' = [generator EXCEPT ![r] = "scheduled"]
        /\ lowered' = IF class < clearance THEN lowered \cup {r} ELSE lowered
        /\ UNCHANGED <<unattended, downloads>>
    BY <1>1 DEF RequestReport
  <2>2. clearance \in Nat /\ class \in Nat
    BY AnalyticsAssumption
  <2>3. row \in GeneratedStates /\ row.status = "generating" /\ row.clearance = clearance /\ row.classification = class
    BY <2>2 DEF GeneratedStates
  <2> HIDE DEF row
  <2>4. clearance <= class \/ r \in lowered'
    BY <2>1, <2>2
  <2>5. lowered \subseteq lowered'
    BY <2>1
  <2> QED BY <2>1, <2>3, <2>4, <2>5, OneReportMoves
<1>2. ASSUME NEW r \in AnalyticReports, BuildReportData(r) \/ BuildReportFails(r) PROVE GeneratedInv'
  <2>1. PICK step \in {"built", "failing"} : generator' = [generator EXCEPT ![r] = step]
    BY <1>2 DEF BuildReportData, BuildReportFails
  <2>2. UNCHANGED <<generated, unattended, lowered, downloads>>
    BY <1>2 DEF BuildReportData, BuildReportFails
  <2>3. generated' = [generated EXCEPT ![r] = generated[r]]
    BY <1>t, <2>2
  <2> QED BY <1>t, <1>k, <2>1, <2>2, <2>3, OneReportMoves DEF ReportIsCovered
<1>3. ASSUME NEW r \in AnalyticReports, FinishReport(r) PROVE GeneratedInv'
  <2>1. UNCHANGED <<unattended, lowered, downloads>>
    BY <1>3 DEF FinishReport
  <2>2. CASE generated' = [generated EXCEPT ![r] = SaveReady(r)] /\ generator' = [generator EXCEPT ![r] = "none"]
    <3> DEFINE row == SaveReady(r)
    <3>1. /\ row \in GeneratedStates /\ row.status = "ready" /\ row.data = generated[r].clearance /\ row.clearance = generated[r].clearance
          /\ row.classification = generated[r].classification
      BY <1>k DEF SaveReady, DataOf, GeneratedStates
    <3> HIDE DEF row
    <3>2. generated' = [generated EXCEPT ![r] = row] /\ generator' = [generator EXCEPT ![r] = "none"]
      BY <2>2 DEF row
    <3> QED BY <1>t, <2>1, <3>1, <3>2, OneReportMoves DEF ReportIsCovered
  <2>3. CASE generated' = generated /\ generator' = [generator EXCEPT ![r] = "failing"]
    <3>1. generated' = [generated EXCEPT ![r] = generated[r]]
      BY <1>t, <2>3
    <3> QED BY <1>t, <1>k, <2>1, <2>3, <3>1, OneReportMoves DEF ReportIsCovered
  <2> QED BY <1>3, <2>2, <2>3 DEF FinishReport
<1>4. ASSUME NEW r \in AnalyticReports, FailReport(r) PROVE GeneratedInv'
  <2>1. UNCHANGED <<lowered, downloads>> /\ generator' = [generator EXCEPT ![r] = "none"]
    BY <1>4 DEF FailReport
  <2>2. CASE generated' = [generated EXCEPT ![r].status = "failed"] /\ unattended' = unattended
    <3> DEFINE row == [generated[r] EXCEPT !.status = "failed"]
    <3>1. /\ row \in GeneratedStates /\ row.status = "failed" /\ row.clearance = generated[r].clearance
          /\ row.classification = generated[r].classification
      BY <1>k DEF GeneratedStates
    <3>2. generated' = [generated EXCEPT ![r] = row]
      BY <2>2
    <3> HIDE DEF row
    <3> QED BY <1>t, <2>1, <2>2, <3>1, <3>2, OneReportMoves DEF ReportIsCovered
  <2>3. CASE generated' = generated /\ unattended' = unattended \cup {r}
    <3>1. generated' = [generated EXCEPT ![r] = generated[r]]
      BY <1>t, <2>3
    <3> QED BY <1>t, <1>k, <2>1, <2>3, <3>1, OneReportMoves DEF ReportIsCovered
  <2> QED BY <1>4, <2>2, <2>3 DEF FailReport
<1>5. ASSUME NEW r \in AnalyticReports, NEW clearance \in Clearances, DownloadReport(r, clearance) PROVE GeneratedInv'
  <2> DEFINE new == [clearance |-> clearance, report |-> r, data |-> generated[r].data]
  <2>1. /\ UNCHANGED <<generated, generator, unattended, lowered>> /\ downloads' = downloads \cup {new}
        /\ generated[r].classification <= clearance /\ generated[r].status = "ready"
    BY <1>5 DEF DownloadReport, IsReadable
  <2>2. /\ generated[r].data = generated[r].clearance /\ generated[r].clearance \in Nat /\ generated[r].classification \in Nat
        /\ generated[r].clearance <= generated[r].classification \/ r \in lowered
    BY <1>t, <1>k, <2>1 DEF ReportIsCovered, GeneratedStates
  <2>3. clearance \in Nat
    BY AnalyticsAssumption
  <2>4. new.clearance = clearance /\ new.report = r /\ new.data = generated[r].data
    OBVIOUS
  <2> HIDE DEF new
  <2>5. new.data # NoData /\ (new.data <= new.clearance \/ new.report \in lowered)
    BY <2>1, <2>2, <2>3, <2>4 DEF NoData
  <2>6. \A d \in downloads' : d.data # NoData /\ (d.data <= d.clearance \/ d.report \in lowered) /\ d.clearance \in Nat
    BY <1>t, <2>1, <2>3, <2>4, <2>5 DEF ReportsAreSettled
  <2>7. \A q \in AnalyticReports : ReportIsCovered(q)'
    BY <1>t, <2>1 DEF ReportIsCovered
  <2>8. ReportsAreSettled'
    BY <1>t, <2>1, <2>6 DEF ReportsAreSettled
  <2> QED BY <1>t, <2>1, <2>6, <2>7, <2>8 DEF GeneratedInv
<1>6. CASE BackendStops
  <2>1. /\ unattended' = unattended \cup {r \in AnalyticReports : generator[r] # "none"}
        /\ generator' = [r \in AnalyticReports |-> "none"] /\ UNCHANGED <<generated, lowered, downloads>>
    BY <1>6 DEF BackendStops
  <2>2. generator' \in [AnalyticReports -> {"none", "scheduled", "built", "failing"}]
    BY <2>1
  <2>3. \A q \in AnalyticReports : ReportIsCovered(q)'
    BY <1>t, <2>1 DEF ReportIsCovered
  <2>4. ReportsAreSettled'
    BY <1>t, <2>1 DEF ReportsAreSettled
  <2> QED BY <1>t, <2>1, <2>2, <2>3, <2>4 DEF GeneratedInv
<1>7. CASE UNCHANGED generatedVars
  BY <1>t, <1>7 DEF GeneratedInv, ReportIsCovered, ReportsAreSettled, generatedVars
<1> QED BY <1>1, <1>2, <1>3, <1>4, <1>5, <1>6, <1>7 DEF GeneratedReportsNext

\* For any number of reports and crashes: a report that was asked for is settled, or
\* is being generated, or its generator crashed (analytics.service.ts:600-690).
THEOREM GeneratedReportsSettle == GeneratedReportsSpec => []ReportsAreSettled
<1>1. GeneratedInv => ReportsAreSettled
  BY DEF GeneratedInv
<1> QED BY <1>1, GeneratedInitInv, GeneratedNextInv, PTL DEF GeneratedReportsSpec

-----------------------------------------------------------------------------
\* An event is appended, or taken.
LEMMA WireGrows ==
  ASSUME NEW S, NEW q \in Seq(S), NEW e \in S
  PROVE  LET r == Append(q, e) IN
         /\ r \in Seq(S) /\ Len(r) = Len(q) + 1 /\ DOMAIN r = 1..(Len(q) + 1) /\ Len(q) \in Nat
         /\ r[Len(q) + 1] = e
         /\ DOMAIN q = 1..Len(q) /\ \A j \in 1..Len(q) : r[j] = q[j]
OBVIOUS

\* The first message is taken.
LEMMA WireShrinks ==
  ASSUME NEW S, NEW q \in Seq(S), q # <<>>
  PROVE  /\ Tail(q) \in Seq(S) /\ Len(q) \in Nat /\ Len(q) >= 1
         /\ Head(q) = q[1] /\ Head(q) \in S
         /\ DOMAIN q = 1..Len(q) /\ DOMAIN Tail(q) = 1..(Len(q) - 1)
         /\ \A j \in 1..(Len(q) - 1) : Tail(q)[j] = q[j + 1]
OBVIOUS

-----------------------------------------------------------------------------
\* The edge gateway.  What the replicas know of their sockets.
EdgeTypes ==
  /\ replica \in [EdgeReplicas -> {"starting", "serving", "ended"}]
  /\ edgeClients \in [EdgeReplicas -> SUBSET EdgeSockets]
  /\ userSockets \in [EdgeReplicas -> [EdgeUsers -> SUBSET EdgeSockets]]
  /\ edgeSocket \in [EdgeSockets -> [state: SocketStates, at: EdgeReplicas \cup {NoReplica}]]
  /\ toRedis \in [EdgeReplicas -> Seq(RedisCommand)]

Held(c) == edgeSocket[c].state \in {"open", "closing"}

HeldSomewhere == \A c \in EdgeSockets : Held(c) => edgeSocket[c].at \in EdgeReplicas

OwnSocketsOnly ==
  \A g \in EdgeReplicas : \A u \in EdgeUsers : \A c \in userSockets[g][u] :
    EdgeUserOf[c] = u /\ edgeSocket[c].at = g /\ Held(c)

OpenIsKnown ==
  \A c \in EdgeSockets : edgeSocket[c].state = "open" =>
    c \in userSockets[edgeSocket[c].at][EdgeUserOf[c]] /\ c \in edgeClients[edgeSocket[c].at]

OnlyServingKnow ==
  \A g \in EdgeReplicas : replica[g] # "serving" => \A u \in EdgeUsers : userSockets[g][u] = {}

SocketInv == EdgeTypes /\ HeldSomewhere /\ OwnSocketsOnly /\ OpenIsKnown /\ OnlyServingKnow

-----------------------------------------------------------------------------
\* What the replicas have told Redis of a user.
Asked(g, i, op, u) == i \in DOMAIN toRedis[g] /\ toRedis[g][i].op = op /\ toRedis[g][i].user = u
Asks(op, u) == \E g \in EdgeReplicas : \E i \in DOMAIN toRedis[g] : Asked(g, i, op, u)

\* A socket its replica has forgotten is one of a replica that ended, and its user was
\* counted as abandoned for as long as that replica had something to tell.
ForgottenAreAbandoned ==
  \A c \in EdgeSockets : Held(c) /\ c \notin userSockets[edgeSocket[c].at][EdgeUserOf[c]] =>
    /\ replica[edgeSocket[c].at] = "ended"
    /\ EdgeUserOf[c] \in abandoned \/ toRedis[edgeSocket[c].at] = <<>>

\* While a replica has a socket of a user, no removal is the last it asked for; ...
AskedToShow ==
  \A g \in EdgeReplicas : \A u \in EdgeUsers : userSockets[g][u] # {} =>
    \A i \in DOMAIN toRedis[g] : Asked(g, i, "del", u) => \E j \in DOMAIN toRedis[g] : i < j /\ Asked(g, j, "setex", u)

\* ... and when it has none it has asked for the removal, or it has ended.
AskedToHide ==
  \A g \in EdgeReplicas : \A u \in EdgeUsers : userSockets[g][u] = {} /\ u \notin abandoned =>
    \A i \in DOMAIN toRedis[g] : Asked(g, i, "setex", u) => \E j \in DOMAIN toRedis[g] : i < j /\ Asked(g, j, "del", u)

ConnectedIsShown ==
  \A u \in EdgeUsers : SocketsOf(u) # {} =>
    u \in shownOnline \cup shadowed \cup outlived \cup abandoned \/ Asks("setex", u)

ShownIsConnected ==
  \A u \in EdgeUsers : u \in shownOnline /\ u \notin abandoned =>
    (\E g \in EdgeReplicas : userSockets[g][u] # {}) \/ Asks("del", u)

PresenceInv == ForgottenAreAbandoned /\ AskedToShow /\ AskedToHide /\ ConnectedIsShown /\ ShownIsConnected

-----------------------------------------------------------------------------
\* The invariants of the sockets and of presence hold at the start.
LEMMA EdgeInitInv == EdgeGatewayInit => SocketInv /\ PresenceInv
<1> SUFFICES ASSUME EdgeGatewayInit PROVE SocketInv /\ PresenceInv
  OBVIOUS
<1>1. EdgeTypes
  <2>1. <<>> \in Seq(RedisCommand)
    OBVIOUS
  <2> QED BY <2>1 DEF EdgeGatewayInit, EdgeTypes, SocketStates
<1>2. /\ \A c \in EdgeSockets : edgeSocket[c].state = "new" /\ ~ Held(c)
      /\ \A g \in EdgeReplicas : toRedis[g] = <<>> /\ \A u \in EdgeUsers : userSockets[g][u] = {}
      /\ \A u \in EdgeUsers : SocketsOf(u) = {}
      /\ shownOnline = {}
  BY DEF EdgeGatewayInit, Held, SocketsOf
<1>3. SocketInv
  BY <1>1, <1>2 DEF SocketInv, HeldSomewhere, OwnSocketsOnly, OpenIsKnown, OnlyServingKnow
<1>4. PresenceInv
  BY <1>2 DEF PresenceInv, ForgottenAreAbandoned, AskedToShow, AskedToHide, ConnectedIsShown, ShownIsConnected
<1> QED BY <1>3, <1>4

\* Nothing happens to the sockets, and Redis is told nothing.
LEMMA SocketsStay ==
  ASSUME SocketInv, UNCHANGED <<edgeClients, userSockets, edgeSocket, toRedis>>,
         replica' \in [EdgeReplicas -> {"starting", "serving", "ended"}],
         \A g \in EdgeReplicas : replica[g] = "serving" => replica'[g] = "serving"
  PROVE  SocketInv'
BY DEF SocketInv, EdgeTypes, HeldSomewhere, OwnSocketsOnly, OpenIsKnown, OnlyServingKnow, Held

\* What touches neither the sockets nor the registry keeps presence.
LEMMA PresenceStays ==
  ASSUME PresenceInv, UNCHANGED <<userSockets, presenceVars>>,
         \A c \in EdgeSockets :
           /\ Held(c)' <=> Held(c)
           /\ Held(c) => edgeSocket'[c].at = edgeSocket[c].at
           /\ Held(c) /\ replica[edgeSocket[c].at] = "ended" => replica'[edgeSocket[c].at] = "ended"
  PROVE  PresenceInv'
<1> USE DEF presenceVars
<1>1. \A op, u : Asks(op, u)' <=> Asks(op, u)
  BY DEF Asks, Asked
<1>2. ForgottenAreAbandoned'
  BY DEF PresenceInv, ForgottenAreAbandoned
<1>3. AskedToShow' /\ AskedToHide'
  BY DEF PresenceInv, AskedToShow, AskedToHide, Asked
<1>4. \A u : SocketsOf(u)' = SocketsOf(u)
  BY DEF SocketsOf, Held
<1>5. ConnectedIsShown' /\ ShownIsConnected'
  BY <1>1, <1>4 DEF PresenceInv, ConnectedIsShown, ShownIsConnected
<1> QED BY <1>2, <1>3, <1>5 DEF PresenceInv

\* A replica tells Redis something more.
LEMMA TellsRedis ==
  ASSUME EdgeTypes, NEW g \in EdgeReplicas, NEW op \in {"setex", "del"}, NEW u \in EdgeUsers, AskRedis(g, op, u)
  PROVE  /\ toRedis' \in [EdgeReplicas -> Seq(RedisCommand)]
         /\ \A h \in EdgeReplicas : h # g => toRedis'[h] = toRedis[h]
         /\ toRedis'[g] # <<>>
         /\ \A h \in EdgeReplicas : \A i \in DOMAIN toRedis[h] :
              i \in DOMAIN toRedis'[h] /\ toRedis'[h][i] = toRedis[h][i]
         /\ \E n \in DOMAIN toRedis'[g] :
              /\ toRedis'[g][n].op = op /\ toRedis'[g][n].user = u
              /\ \A i \in DOMAIN toRedis'[g] : i = n \/ (i \in DOMAIN toRedis[g] /\ i < n)
<1> DEFINE q == toRedis[g]
           e == [op |-> op, user |-> u]
<1>1. q \in Seq(RedisCommand) /\ e \in RedisCommand /\ e.op = op /\ e.user = u
  BY DEF EdgeTypes, RedisCommand
<1>2. toRedis' = [toRedis EXCEPT ![g] = Append(q, e)]
  BY DEF AskRedis
<1> HIDE DEF q, e
<1>3. /\ Append(q, e) \in Seq(RedisCommand) /\ DOMAIN Append(q, e) = 1..(Len(q) + 1) /\ Len(q) \in Nat
      /\ Append(q, e)[Len(q) + 1] = e /\ Append(q, e) # <<>>
      /\ DOMAIN q = 1..Len(q) /\ \A j \in 1..Len(q) : Append(q, e)[j] = q[j]
  BY <1>1, WireGrows
<1>4. toRedis'[g] = Append(q, e) /\ \A h \in EdgeReplicas : h # g => toRedis'[h] = toRedis[h]
  BY <1>2 DEF EdgeTypes
<1>5. toRedis' \in [EdgeReplicas -> Seq(RedisCommand)]
  BY <1>2, <1>3 DEF EdgeTypes
<1>6. \A h \in EdgeReplicas : \A i \in DOMAIN toRedis[h] : i \in DOMAIN toRedis'[h] /\ toRedis'[h][i] = toRedis[h][i]
  BY <1>3, <1>4 DEF q
<1>7. LET n == Len(q) + 1 IN
        /\ n \in DOMAIN toRedis'[g] /\ toRedis'[g][n].op = op /\ toRedis'[g][n].user = u
        /\ \A i \in DOMAIN toRedis'[g] : i = n \/ (i \in DOMAIN toRedis[g] /\ i < n)
  BY <1>1, <1>3, <1>4 DEF q
<1> QED BY <1>3, <1>4, <1>5, <1>6, <1>7

-----------------------------------------------------------------------------
\* A connection is accepted.
LEMMA AcceptKeeps ==
  ASSUME SocketInv, PresenceInv, NEW c \in EdgeSockets, NEW g \in EdgeReplicas, AcceptSocket(c, g)
  PROVE  SocketInv' /\ PresenceInv'
<1> DEFINE u == EdgeUserOf[c]
<1>t. EdgeTypes /\ u \in EdgeUsers
  BY DEF SocketInv, EdgeUsers
<1>1. /\ replica[g] = "serving" /\ edgeSocket[c].state = "new" /\ ~ Held(c)
      /\ UNCHANGED <<replica, shownOnline, shadowed, outlived, abandoned>> /\ AskRedis(g, "setex", u)
  BY DEF AcceptSocket, Held
<1>2. \A d \in EdgeSockets : edgeSocket'[d] = IF d = c THEN [state |-> "open", at |-> g] ELSE edgeSocket[d]
  BY <1>t DEF AcceptSocket, EdgeTypes
<1>3. \A h \in EdgeReplicas : edgeClients'[h] = IF h = g THEN edgeClients[h] \cup {c} ELSE edgeClients[h]
  BY <1>t DEF AcceptSocket, EdgeTypes
<1>4. \A h \in EdgeReplicas : \A v \in EdgeUsers :
        userSockets'[h][v] = IF h = g /\ v = u THEN userSockets[h][v] \cup {c} ELSE userSockets[h][v]
  BY <1>t DEF AcceptSocket, EdgeTypes
<1>5. /\ toRedis' \in [EdgeReplicas -> Seq(RedisCommand)]
      /\ \A h \in EdgeReplicas : h # g => toRedis'[h] = toRedis[h]
      /\ \A h \in EdgeReplicas : \A i \in DOMAIN toRedis[h] :
           i \in DOMAIN toRedis'[h] /\ toRedis'[h][i] = toRedis[h][i]
  BY <1>1, <1>t, TellsRedis
<1>6. PICK n \in DOMAIN toRedis'[g] :
              /\ toRedis'[g][n].op = "setex" /\ toRedis'[g][n].user = u
              /\ \A i \in DOMAIN toRedis'[g] : i = n \/ (i \in DOMAIN toRedis[g] /\ i < n)
  BY <1>1, <1>t, TellsRedis
<1>7. EdgeTypes'
  BY <1>t, <1>1, <1>5 DEF AcceptSocket, EdgeTypes, SocketStates
<1> HIDE DEF u
<1>8. \A d \in EdgeSockets : Held(d)' <=> d = c \/ Held(d)
  BY <1>2 DEF Held
<1>9. SocketInv'
  <2>1. HeldSomewhere'
    BY <1>2, <1>8 DEF SocketInv, HeldSomewhere
  <2>2. OwnSocketsOnly'
    <3> SUFFICES ASSUME NEW h \in EdgeReplicas, NEW v \in EdgeUsers, NEW d \in userSockets'[h][v]
                 PROVE  EdgeUserOf[d] = v /\ edgeSocket'[d].at = h /\ Held(d)'
      BY DEF OwnSocketsOnly
    <3>1. CASE d = c /\ h = g /\ v = u
      BY <3>1, <1>2, <1>8 DEF u
    <3>2. CASE d \in userSockets[h][v]
      <4>1. EdgeUserOf[d] = v /\ edgeSocket[d].at = h /\ Held(d) /\ d \in EdgeSockets
        BY <3>2, <1>t DEF SocketInv, OwnSocketsOnly, EdgeTypes
      <4> QED BY <4>1, <1>1, <1>2, <1>8
    <3> QED BY <3>1, <3>2, <1>4
  <2>3. OpenIsKnown'
    <3> SUFFICES ASSUME NEW d \in EdgeSockets, edgeSocket'[d].state = "open"
                 PROVE  d \in userSockets'[edgeSocket'[d].at][EdgeUserOf[d]] /\ d \in edgeClients'[edgeSocket'[d].at]
      BY DEF OpenIsKnown
    <3>1. CASE d = c
      <4>1. edgeSocket'[d].at = g /\ EdgeUserOf[d] = u
        BY <3>1, <1>2 DEF u
      <4>2. c \in userSockets'[g][u] /\ c \in edgeClients'[g]
        BY <1>3, <1>4, <1>t
      <4> QED BY <4>1, <4>2, <3>1
    <3>2. CASE d # c
      <4>1. edgeSocket'[d] = edgeSocket[d] /\ edgeSocket[d].at \in EdgeReplicas /\ EdgeUserOf[d] \in EdgeUsers
        BY <3>2, <1>2 DEF SocketInv, HeldSomewhere, Held, EdgeUsers
      <4>2. d \in userSockets[edgeSocket[d].at][EdgeUserOf[d]] /\ d \in edgeClients[edgeSocket[d].at]
        BY <4>1 DEF SocketInv, OpenIsKnown
      <4> QED BY <4>1, <4>2, <1>3, <1>4
    <3> QED BY <3>1, <3>2
  <2>4. OnlyServingKnow'
    BY <1>1, <1>4 DEF SocketInv, OnlyServingKnow
  <2> QED BY <1>7, <2>1, <2>2, <2>3, <2>4 DEF SocketInv
<1>10. \A h \in EdgeReplicas : \A i \in DOMAIN toRedis[h] : \A op, v : Asked(h, i, op, v) => Asked(h, i, op, v)'
  BY <1>5 DEF Asked
<1>11. \A op, v : Asks(op, v) => Asks(op, v)'
  BY <1>5, <1>10 DEF Asks
<1>12. PresenceInv'
  <2>1. ForgottenAreAbandoned'
    <3> SUFFICES ASSUME NEW d \in EdgeSockets, Held(d)', d \notin userSockets'[edgeSocket'[d].at][EdgeUserOf[d]]
                 PROVE  /\ replica'[edgeSocket'[d].at] = "ended"
                        /\ EdgeUserOf[d] \in abandoned' \/ toRedis'[edgeSocket'[d].at] = <<>>
      BY DEF ForgottenAreAbandoned
    <3>1. d # c
      <4>1. edgeSocket'[c].at = g /\ EdgeUserOf[c] = u
        BY <1>2 DEF u
      <4>2. c \in userSockets'[g][u]
        BY <1>4, <1>t
      <4> QED BY <4>1, <4>2
    <3>2. edgeSocket'[d] = edgeSocket[d] /\ Held(d) /\ edgeSocket[d].at \in EdgeReplicas /\ EdgeUserOf[d] \in EdgeUsers
      BY <3>1, <1>2, <1>8 DEF SocketInv, HeldSomewhere, EdgeUsers
    <3>3. d \notin userSockets[edgeSocket[d].at][EdgeUserOf[d]]
      <4>1. userSockets[edgeSocket[d].at][EdgeUserOf[d]] \subseteq userSockets'[edgeSocket[d].at][EdgeUserOf[d]]
        BY <3>2, <1>4
      <4> QED BY <3>2, <4>1
    <3>4. replica[edgeSocket[d].at] = "ended" /\ (EdgeUserOf[d] \in abandoned \/ toRedis[edgeSocket[d].at] = <<>>)
      BY <3>2, <3>3 DEF PresenceInv, ForgottenAreAbandoned
    <3> QED BY <3>2, <3>4, <1>1, <1>5
  <2>2. AskedToShow'
    <3> SUFFICES ASSUME NEW h \in EdgeReplicas, NEW v \in EdgeUsers, userSockets'[h][v] # {},
                        NEW i \in DOMAIN toRedis'[h], Asked(h, i, "del", v)'
                 PROVE  \E j \in DOMAIN toRedis'[h] : i < j /\ Asked(h, j, "setex", v)'
      BY DEF AskedToShow
    <3>1. CASE h = g /\ v = u
      <4>1. i < n /\ Asked(g, n, "setex", u)'
        BY <3>1, <1>6 DEF Asked
      <4> QED BY <4>1, <3>1
    <3>2. CASE ~ (h = g /\ v = u)
      <4>1. userSockets[h][v] # {}
        BY <3>2, <1>4
      <4>3. i \in DOMAIN toRedis[h] /\ toRedis'[h][i] = toRedis[h][i]
        <5>1. CASE h = g
          <6>1. toRedis'[h][i].op = "del"
            BY DEF Asked
          <6> QED BY <5>1, <6>1, <1>5, <1>6
        <5>2. CASE h # g
          BY <5>2, <1>5
        <5> QED BY <5>1, <5>2
      <4>4. Asked(h, i, "del", v)
        BY <4>3 DEF Asked
      <4>2. PICK j \in DOMAIN toRedis[h] : i < j /\ Asked(h, j, "setex", v)
        BY <4>1, <4>3, <4>4 DEF PresenceInv, AskedToShow
      <4> QED BY <4>2, <1>5, <1>10
    <3> QED BY <3>1, <3>2
  <2>3. AskedToHide'
    <3> SUFFICES ASSUME NEW h \in EdgeReplicas, NEW v \in EdgeUsers, userSockets'[h][v] = {}, v \notin abandoned',
                        NEW i \in DOMAIN toRedis'[h], Asked(h, i, "setex", v)'
                 PROVE  \E j \in DOMAIN toRedis'[h] : i < j /\ Asked(h, j, "del", v)'
      BY DEF AskedToHide
    <3>1. userSockets[h][v] = {} /\ ~ (h = g /\ v = u)
      BY <1>4
    <3>2. i \in DOMAIN toRedis[h] /\ Asked(h, i, "setex", v)
      BY <3>1, <1>5, <1>6 DEF Asked
    <3>3. PICK j \in DOMAIN toRedis[h] : i < j /\ Asked(h, j, "del", v)
      BY <3>1, <3>2, <1>1 DEF PresenceInv, AskedToHide
    <3> QED BY <3>3, <1>5, <1>10
  <2>4. ConnectedIsShown'
    <3> SUFFICES ASSUME NEW v \in EdgeUsers, SocketsOf(v)' # {}
                 PROVE  v \in (shownOnline \cup shadowed \cup outlived \cup abandoned)' \/ Asks("setex", v)'
      BY DEF ConnectedIsShown
    <3>1. CASE v = u
      BY <3>1, <1>6 DEF Asks, Asked
    <3>2. CASE v # u
      <4>1. SocketsOf(v) # {}
        BY <3>2, <1>2 DEF SocketsOf, u
      <4> QED BY <4>1, <1>1, <1>11 DEF PresenceInv, ConnectedIsShown
    <3> QED BY <3>1, <3>2
  <2>5. ShownIsConnected'
    <3>1. \A h \in EdgeReplicas : \A v \in EdgeUsers : userSockets[h][v] # {} => userSockets'[h][v] # {}
      BY <1>4
    <3> QED BY <3>1, <1>1, <1>11 DEF PresenceInv, ShownIsConnected
  <2> QED BY <2>1, <2>2, <2>3, <2>4, <2>5 DEF PresenceInv
<1> QED BY <1>9, <1>12

\* A connection closes.
LEMMA SocketCloseKeeps ==
  ASSUME SocketInv, PresenceInv, NEW c \in EdgeSockets, HandleSocketClose(c)
  PROVE  SocketInv' /\ PresenceInv'
<1> DEFINE u == EdgeUserOf[c]
           g == edgeSocket[c].at
           last == userSockets[g][u] = {c}
<1>t. EdgeTypes /\ u \in EdgeUsers
  BY DEF SocketInv, EdgeUsers
<1>1. /\ edgeSocket[c].state = "closing" /\ Held(c) /\ g \in EdgeReplicas
      /\ UNCHANGED <<replica, shownOnline, shadowed, outlived, abandoned>>
      /\ last => AskRedis(g, "del", u)
      /\ ~ last => toRedis' = toRedis
  BY DEF HandleSocketClose, Held, SocketInv, HeldSomewhere
<1>2. /\ edgeSocket'[c].state = "closed" /\ edgeSocket'[c].at = g
      /\ \A d \in EdgeSockets : d # c => edgeSocket'[d] = edgeSocket[d]
  BY <1>t DEF HandleSocketClose, EdgeTypes
<1>3. \A h \in EdgeReplicas : edgeClients'[h] = IF h = g THEN edgeClients[h] \ {c} ELSE edgeClients[h]
  BY <1>t, <1>1 DEF HandleSocketClose, EdgeTypes
<1>4. \A h \in EdgeReplicas : \A v \in EdgeUsers :
        userSockets'[h][v] = IF h = g /\ v = u THEN userSockets[h][v] \ {c} ELSE userSockets[h][v]
  BY <1>t, <1>1 DEF HandleSocketClose, EdgeTypes
<1>5. /\ toRedis' \in [EdgeReplicas -> Seq(RedisCommand)]
      /\ \A h \in EdgeReplicas : h # g \/ ~ last => toRedis'[h] = toRedis[h]
      /\ \A h \in EdgeReplicas : \A i \in DOMAIN toRedis[h] :
           i \in DOMAIN toRedis'[h] /\ toRedis'[h][i] = toRedis[h][i]
  <2>1. CASE last
    <3>1. AskRedis(g, "del", u)
      BY <1>1, <2>1
    <3> HIDE DEF g, u, last
    <3> QED BY <2>1, <3>1, <1>1, <1>t, TellsRedis
  <2>2. CASE ~ last
    BY <1>1, <1>t, <2>2 DEF EdgeTypes
  <2> QED BY <2>1, <2>2
<1>6. ASSUME last
      PROVE \E n \in DOMAIN toRedis'[g] :
              /\ toRedis'[g][n].op = "del" /\ toRedis'[g][n].user = u
              /\ \A i \in DOMAIN toRedis'[g] : i = n \/ (i \in DOMAIN toRedis[g] /\ i < n)
  <2>1. AskRedis(g, "del", u)
    BY <1>1, <1>6
  <2> HIDE DEF g, u, last
  <2> QED BY <2>1, <1>1, <1>t, TellsRedis
<1>7. EdgeTypes'
  BY SMTT(60), <1>t, <1>1, <1>5 DEF HandleSocketClose, EdgeTypes, SocketStates
<1>e. u = EdgeUserOf[c] /\ g = edgeSocket[c].at /\ (last <=> userSockets[g][u] = {c})
  OBVIOUS
<1> HIDE DEF u, g, last
<1>8. \A d \in EdgeSockets : Held(d)' <=> Held(d) /\ d # c
  BY <1>2 DEF Held
<1>n. last => replica[g] = "serving"
  BY <1>1, <1>e, <1>t DEF SocketInv, OnlyServingKnow
<1>9. SocketInv'
  <2>1. HeldSomewhere'
    BY <1>2, <1>8 DEF SocketInv, HeldSomewhere
  <2>2. OwnSocketsOnly'
    <3> SUFFICES ASSUME NEW h \in EdgeReplicas, NEW v \in EdgeUsers, NEW d \in userSockets'[h][v]
                 PROVE  EdgeUserOf[d] = v /\ edgeSocket'[d].at = h /\ Held(d)'
      BY DEF OwnSocketsOnly
    <3>1. d \in userSockets[h][v] /\ ~ (h = g /\ v = u /\ d = c)
      BY <1>4
    <3>2. EdgeUserOf[d] = v /\ edgeSocket[d].at = h /\ Held(d) /\ d \in EdgeSockets
      BY <3>1, <1>t DEF SocketInv, OwnSocketsOnly, EdgeTypes
    <3> QED BY <3>1, <3>2, <1>e, <1>2, <1>8
  <2>3. OpenIsKnown'
    <3> SUFFICES ASSUME NEW d \in EdgeSockets, edgeSocket'[d].state = "open"
                 PROVE  d \in userSockets'[edgeSocket'[d].at][EdgeUserOf[d]] /\ d \in edgeClients'[edgeSocket'[d].at]
      BY DEF OpenIsKnown
    <3>1. d # c /\ edgeSocket'[d] = edgeSocket[d] /\ edgeSocket[d].at \in EdgeReplicas /\ EdgeUserOf[d] \in EdgeUsers
      BY <1>2 DEF SocketInv, HeldSomewhere, Held, EdgeUsers
    <3>2. d \in userSockets[edgeSocket[d].at][EdgeUserOf[d]] /\ d \in edgeClients[edgeSocket[d].at]
      BY <3>1 DEF SocketInv, OpenIsKnown
    <3>3. d \in userSockets'[edgeSocket[d].at][EdgeUserOf[d]] /\ d \in edgeClients'[edgeSocket[d].at]
      BY <3>1, <3>2, <1>3, <1>4
    <3> QED BY <3>1, <3>3
  <2>4. OnlyServingKnow'
    BY <1>1, <1>4 DEF SocketInv, OnlyServingKnow
  <2> QED BY <1>7, <2>1, <2>2, <2>3, <2>4 DEF SocketInv
<1>10. \A h \in EdgeReplicas : \A i \in DOMAIN toRedis[h] : \A op, v : Asked(h, i, op, v) => Asked(h, i, op, v)'
  BY <1>5 DEF Asked
<1>11. \A op, v : Asks(op, v) => Asks(op, v)'
  BY <1>5, <1>10 DEF Asks
<1>12. ASSUME NEW h \in EdgeReplicas, NEW i \in DOMAIN toRedis'[h], NEW op, NEW v, Asked(h, i, op, v)',
              ~ (h = g /\ last /\ v = u /\ op = "del")
       PROVE  i \in DOMAIN toRedis[h] /\ Asked(h, i, op, v)
  <2>1. i \in DOMAIN toRedis[h] /\ toRedis'[h][i] = toRedis[h][i]
    <3>1. CASE h = g /\ last
      <4>1. PICK n \in DOMAIN toRedis'[g] :
              /\ toRedis'[g][n].op = "del" /\ toRedis'[g][n].user = u
              /\ \A k \in DOMAIN toRedis'[g] : k = n \/ (k \in DOMAIN toRedis[g] /\ k < n)
        BY <1>6, <3>1
      <4>2. i # n
        BY <1>12, <3>1, <4>1 DEF Asked
      <4> QED BY <3>1, <4>1, <4>2, <1>5
    <3>2. CASE h # g \/ ~ last
      BY <3>2, <1>5
    <3> QED BY <3>1, <3>2
  <2> QED BY <2>1, <1>12 DEF Asked
<1>13. PresenceInv'
  <2>1. ForgottenAreAbandoned'
    <3> SUFFICES ASSUME NEW d \in EdgeSockets, Held(d)', d \notin userSockets'[edgeSocket'[d].at][EdgeUserOf[d]]
                 PROVE  /\ replica'[edgeSocket'[d].at] = "ended"
                        /\ EdgeUserOf[d] \in abandoned' \/ toRedis'[edgeSocket'[d].at] = <<>>
      BY DEF ForgottenAreAbandoned
    <3>1. d # c /\ edgeSocket'[d] = edgeSocket[d] /\ Held(d)
      BY <1>2, <1>8
    <3>2. edgeSocket[d].at \in EdgeReplicas /\ EdgeUserOf[d] \in EdgeUsers
      BY <3>1 DEF SocketInv, HeldSomewhere, EdgeUsers
    <3>3. d \notin userSockets[edgeSocket[d].at][EdgeUserOf[d]]
      <4>1. d \in userSockets[edgeSocket[d].at][EdgeUserOf[d]] => d \in userSockets'[edgeSocket[d].at][EdgeUserOf[d]]
        BY <3>1, <3>2, <1>4
      <4> QED BY <3>1, <4>1
    <3>4. replica[edgeSocket[d].at] = "ended" /\ (EdgeUserOf[d] \in abandoned \/ toRedis[edgeSocket[d].at] = <<>>)
      BY <3>1, <3>3 DEF PresenceInv, ForgottenAreAbandoned
    <3>5. toRedis'[edgeSocket[d].at] = toRedis[edgeSocket[d].at]
      <4>1. edgeSocket[d].at = g => ~ last
        BY <3>4, <1>n
      <4> QED BY <3>2, <4>1, <1>5
    <3> QED BY <3>1, <3>4, <3>5, <1>1
  <2>2. AskedToShow'
    <3> SUFFICES ASSUME NEW h \in EdgeReplicas, NEW v \in EdgeUsers, userSockets'[h][v] # {},
                        NEW i \in DOMAIN toRedis'[h], Asked(h, i, "del", v)'
                 PROVE  \E j \in DOMAIN toRedis'[h] : i < j /\ Asked(h, j, "setex", v)'
      BY DEF AskedToShow
    <3>1. userSockets[h][v] # {} /\ ~ (h = g /\ last /\ v = u)
      BY <1>4, <1>e
    <3>2. i \in DOMAIN toRedis[h] /\ Asked(h, i, "del", v)
      BY <3>1, <1>12
    <3>3. PICK j \in DOMAIN toRedis[h] : i < j /\ Asked(h, j, "setex", v)
      BY <3>1, <3>2 DEF PresenceInv, AskedToShow
    <3> QED BY <3>3, <1>5, <1>10
  <2>3. AskedToHide'
    <3> SUFFICES ASSUME NEW h \in EdgeReplicas, NEW v \in EdgeUsers, userSockets'[h][v] = {}, v \notin abandoned',
                        NEW i \in DOMAIN toRedis'[h], Asked(h, i, "setex", v)'
                 PROVE  \E j \in DOMAIN toRedis'[h] : i < j /\ Asked(h, j, "del", v)'
      BY DEF AskedToHide
    <3>1. i \in DOMAIN toRedis[h] /\ Asked(h, i, "setex", v)
      <4>1. "setex" # "del"
        OBVIOUS
      <4> QED BY <4>1, <1>12
    <3>2. CASE h = g /\ last /\ v = u
      <4>1. PICK n \in DOMAIN toRedis'[g] :
              /\ toRedis'[g][n].op = "del" /\ toRedis'[g][n].user = u
              /\ \A k \in DOMAIN toRedis'[g] : k = n \/ (k \in DOMAIN toRedis[g] /\ k < n)
        BY <1>6, <3>2
      <4>2. i # n
        BY <3>2, <4>1 DEF Asked
      <4>3. i < n /\ n \in DOMAIN toRedis'[h]
        BY <3>2, <4>1, <4>2
      <4>4. Asked(h, n, "del", v)'
        BY <3>2, <4>1 DEF Asked
      <4> QED BY <4>3, <4>4
    <3>3. CASE ~ (h = g /\ last /\ v = u)
      <4>1. userSockets[h][v] = {}
        <5>1. CASE h = g /\ v = u
          <6>1. userSockets'[g][u] = userSockets[g][u] \ {c} /\ userSockets'[g][u] = {}
            BY <5>1, <1>4
          <6>2. userSockets[g][u] # {c}
            BY <5>1, <3>3, <1>e
          <6> QED BY <5>1, <6>1, <6>2
        <5>2. CASE ~ (h = g /\ v = u)
          BY <5>2, <1>4
        <5> QED BY <5>1, <5>2
      <4>2. PICK j \in DOMAIN toRedis[h] : i < j /\ Asked(h, j, "del", v)
        BY <4>1, <3>1, <1>1 DEF PresenceInv, AskedToHide
      <4> QED BY <4>2, <1>5, <1>10
    <3> QED BY <3>2, <3>3
  <2>4. ConnectedIsShown'
    <3>1. \A v \in EdgeUsers : SocketsOf(v)' \subseteq SocketsOf(v)
      BY <1>2 DEF SocketsOf
    <3> QED BY <3>1, <1>1, <1>11 DEF PresenceInv, ConnectedIsShown
  <2>5. ShownIsConnected'
    <3> SUFFICES ASSUME NEW v \in EdgeUsers, v \in shownOnline, v \notin abandoned
                 PROVE  (\E h \in EdgeReplicas : userSockets'[h][v] # {}) \/ Asks("del", v)'
      BY <1>1 DEF ShownIsConnected
    <3>1. (\E h \in EdgeReplicas : userSockets[h][v] # {}) \/ Asks("del", v)
      BY DEF PresenceInv, ShownIsConnected
    <3>2. CASE Asks("del", v)
      BY <3>2, <1>11
    <3>3. ASSUME NEW h \in EdgeReplicas, userSockets[h][v] # {} PROVE userSockets'[h][v] # {} \/ Asks("del", v)'
      <4>1. userSockets'[h][v] # {} \/ (h = g /\ v = u /\ last)
        <5>1. CASE h = g /\ v = u /\ ~ last
          <6>1. userSockets'[g][u] = userSockets[g][u] \ {c}
            BY <5>1, <1>4
          <6>2. userSockets[g][u] # {c}
            BY <5>1, <1>e
          <6> QED BY <5>1, <6>1, <6>2, <3>3
        <5>2. CASE ~ (h = g /\ v = u)
          BY <5>2, <1>4, <3>3
        <5> QED BY <5>1, <5>2
      <4>2. last => Asks("del", u)'
        BY <1>6, <1>1 DEF Asks, Asked
      <4> QED BY <4>1, <4>2
    <3> QED BY <3>1, <3>2, <3>3
  <2> QED BY <2>1, <2>2, <2>3, <2>4, <2>5 DEF PresenceInv
<1> QED BY <1>9, <1>13

-----------------------------------------------------------------------------
\* Redis executes a command of a replica.
LEMMA ExecuteKeeps ==
  ASSUME SocketInv, PresenceInv, NEW g \in EdgeReplicas, ExecuteRedisCommand(g)
  PROVE  SocketInv' /\ PresenceInv'
<1> DEFINE q == toRedis[g]
           s(h) == IF h = g THEN 1 ELSE 0
<1>t. EdgeTypes
  BY DEF SocketInv
<1>p. PICK op, u : op = Head(q).op /\ u = Head(q).user
  OBVIOUS
<1>1. /\ q # <<>> /\ toRedis' = [toRedis EXCEPT ![g] = Tail(q)]
      /\ UNCHANGED <<replica, edgeClients, userSockets, edgeSocket, abandoned>>
      /\ op = "setex" => shownOnline' = shownOnline \cup {u} /\ shadowed' = shadowed \ {u} /\ outlived' = outlived \ {u}
      /\ op # "setex" => /\ shownOnline' = shownOnline \ {u} /\ outlived' = outlived
                         /\ shadowed' = IF \E c \in SocketsOf(u) : edgeSocket[c].at # g
                                          THEN shadowed \cup {u} ELSE shadowed
  BY <1>p DEF ExecuteRedisCommand
<1>2. /\ q \in Seq(RedisCommand) /\ Tail(q) \in Seq(RedisCommand) /\ Len(q) \in Nat /\ Len(q) >= 1
      /\ Head(q) = q[1] /\ Head(q) \in RedisCommand
      /\ DOMAIN q = 1..Len(q) /\ DOMAIN Tail(q) = 1..(Len(q) - 1)
      /\ \A j \in 1..(Len(q) - 1) : Tail(q)[j] = q[j + 1]
  BY <1>1, <1>t, WireShrinks DEF EdgeTypes
<1>3. op \in {"setex", "del"} /\ u \in EdgeUsers /\ 1 \in DOMAIN q /\ q[1].op = op /\ q[1].user = u
  BY <1>p, <1>2 DEF RedisCommand
<1>4. toRedis'[g] = Tail(q) /\ \A h \in EdgeReplicas : h # g => toRedis'[h] = toRedis[h]
  BY <1>1, <1>t DEF EdgeTypes
<1>5. ASSUME NEW h \in EdgeReplicas
      PROVE  /\ \A i \in DOMAIN toRedis'[h] :
                  i + s(h) \in DOMAIN toRedis[h] /\ toRedis[h][i + s(h)] = toRedis'[h][i] /\ i \in Nat
             /\ \A k \in DOMAIN toRedis[h] : k > s(h) =>
                  k - s(h) \in DOMAIN toRedis'[h] /\ toRedis'[h][k - s(h)] = toRedis[h][k] /\ k \in Nat
             /\ s(h) \in {0, 1}
  <2>1. CASE h = g
    BY <2>1, <1>2, <1>4
  <2>2. CASE h # g
    <3>1. toRedis[h] \in Seq(RedisCommand)
      BY <1>t DEF EdgeTypes
    <3>2. DOMAIN toRedis[h] = 1..Len(toRedis[h]) /\ Len(toRedis[h]) \in Nat
      BY <3>1
    <3> QED BY <2>2, <3>2, <1>4
  <2> QED BY <2>1, <2>2
<1>s. \A h : s(h) = 1 <=> h = g
  OBVIOUS
<1>e. q = toRedis[g] /\ Asked(g, 1, op, u)
  BY <1>3 DEF Asked
<1>m. Tail(q) \in Seq(RedisCommand)
  BY <1>2
<1> HIDE DEF s, q
<1>6. ASSUME NEW h \in EdgeReplicas, NEW i \in DOMAIN toRedis'[h], NEW o, NEW v, Asked(h, i, o, v)'
      PROVE  i + s(h) \in DOMAIN toRedis[h] /\ Asked(h, i + s(h), o, v) /\ i \in Nat
  BY <1>5, <1>6 DEF Asked
<1>7. ASSUME NEW h \in EdgeReplicas, NEW k \in DOMAIN toRedis[h], NEW o, NEW v, Asked(h, k, o, v), k > s(h)
      PROVE  k - s(h) \in DOMAIN toRedis'[h] /\ Asked(h, k - s(h), o, v)' /\ k \in Nat
  BY <1>5, <1>7 DEF Asked
<1>8. \A o, v : Asks(o, v) => Asks(o, v)' \/ (o = op /\ v = u)
  <2> SUFFICES ASSUME NEW o, NEW v, NEW h \in EdgeReplicas, NEW k \in DOMAIN toRedis[h], Asked(h, k, o, v)
               PROVE  Asks(o, v)' \/ (o = op /\ v = u)
    BY DEF Asks
  <2>1. CASE k > s(h)
    BY <2>1, <1>7 DEF Asks
  <2>2. CASE ~ (k > s(h))
    <3>1. toRedis[h] \in Seq(RedisCommand)
      BY <1>t DEF EdgeTypes
    <3>2. k \in Nat /\ k >= 1
      BY <3>1
    <3>3. k = 1 /\ h = g
      BY <3>2, <2>2, <1>5, <1>s
    <3> QED BY <3>3, <1>e DEF Asked
  <2> QED BY <2>1, <2>2
<1>9. SocketInv'
  <2>1. EdgeTypes'
    BY <1>t, <1>1, <1>m DEF EdgeTypes
  <2> QED BY <2>1, <1>1 DEF SocketInv, HeldSomewhere, OwnSocketsOnly, OpenIsKnown, OnlyServingKnow, Held
<1>10. ForgottenAreAbandoned'
  <2> SUFFICES ASSUME NEW d \in EdgeSockets, Held(d)', d \notin userSockets[edgeSocket[d].at][EdgeUserOf[d]]
               PROVE  /\ replica[edgeSocket[d].at] = "ended"
                      /\ EdgeUserOf[d] \in abandoned \/ toRedis'[edgeSocket[d].at] = <<>>
    BY <1>1 DEF ForgottenAreAbandoned
  <2>1. Held(d) /\ edgeSocket[d].at \in EdgeReplicas
    BY <1>1 DEF Held, SocketInv, HeldSomewhere
  <2>2. replica[edgeSocket[d].at] = "ended" /\ (EdgeUserOf[d] \in abandoned \/ toRedis[edgeSocket[d].at] = <<>>)
    BY <2>1 DEF PresenceInv, ForgottenAreAbandoned
  <2> QED BY <2>1, <2>2, <1>1, <1>4 DEF q
<1>11. AskedToShow'
  <2> SUFFICES ASSUME NEW h \in EdgeReplicas, NEW v \in EdgeUsers, userSockets[h][v] # {},
                      NEW i \in DOMAIN toRedis'[h], Asked(h, i, "del", v)'
               PROVE  \E j \in DOMAIN toRedis'[h] : i < j /\ Asked(h, j, "setex", v)'
    BY <1>1 DEF AskedToShow
  <2>1. i + s(h) \in DOMAIN toRedis[h] /\ Asked(h, i + s(h), "del", v) /\ i \in Nat
    BY <1>6
  <2>2. PICK k \in DOMAIN toRedis[h] : i + s(h) < k /\ Asked(h, k, "setex", v)
    BY <2>1 DEF PresenceInv, AskedToShow
  <2>3. k > s(h) /\ i < k - s(h)
    <3>1. toRedis[h] \in Seq(RedisCommand)
      BY <1>t DEF EdgeTypes
    <3>2. k \in Nat
      BY <3>1
    <3> QED BY <2>1, <2>2, <3>2, <1>5
  <2> QED BY <2>2, <2>3, <1>7
<1>12. AskedToHide'
  <2> SUFFICES ASSUME NEW h \in EdgeReplicas, NEW v \in EdgeUsers, userSockets[h][v] = {}, v \notin abandoned,
                      NEW i \in DOMAIN toRedis'[h], Asked(h, i, "setex", v)'
               PROVE  \E j \in DOMAIN toRedis'[h] : i < j /\ Asked(h, j, "del", v)'
    BY <1>1 DEF AskedToHide
  <2>1. i + s(h) \in DOMAIN toRedis[h] /\ Asked(h, i + s(h), "setex", v) /\ i \in Nat
    BY <1>6
  <2>2. PICK k \in DOMAIN toRedis[h] : i + s(h) < k /\ Asked(h, k, "del", v)
    BY <2>1 DEF PresenceInv, AskedToHide
  <2>3. k > s(h) /\ i < k - s(h)
    <3>1. toRedis[h] \in Seq(RedisCommand)
      BY <1>t DEF EdgeTypes
    <3>2. k \in Nat
      BY <3>1
    <3> QED BY <2>1, <2>2, <3>2, <1>5
  <2> QED BY <2>2, <2>3, <1>7
<1>13. ASSUME NEW o, NEW k \in DOMAIN toRedis[g], 1 < k, Asked(g, k, o, u) PROVE Asks(o, u)'
  <2>1. k > s(g)
    BY <1>13, <1>s
  <2> QED BY <1>13, <2>1, <1>7 DEF Asks
<1>14. ConnectedIsShown'
  <2> SUFFICES ASSUME NEW v \in EdgeUsers, SocketsOf(v) # {}
               PROVE  v \in (shownOnline \cup shadowed \cup outlived \cup abandoned)' \/ Asks("setex", v)'
    BY <1>1 DEF ConnectedIsShown, SocketsOf
  <2>1. v \in shownOnline \cup shadowed \cup outlived \cup abandoned \/ Asks("setex", v)
    BY DEF PresenceInv, ConnectedIsShown
  <2>2. CASE v # u
    BY <2>1, <2>2, <1>1, <1>3, <1>8
  <2>3. CASE v = u /\ op = "setex"
    BY <2>3, <1>1
  <2>4. CASE v = u /\ op = "del"
    <3>1. CASE \E c \in SocketsOf(u) : edgeSocket[c].at # g
      BY <2>4, <3>1, <1>1
    <3>2. CASE \A c \in SocketsOf(u) : edgeSocket[c].at = g
      <4>1. PICK c \in SocketsOf(u) : edgeSocket[c].at = g
        BY <2>4, <3>2
      <4>2. c \in EdgeSockets /\ Held(c) /\ EdgeUserOf[c] = u
        BY DEF SocketsOf, Held
      <4>3. CASE c \in userSockets[g][u]
        <5>1. PICK k \in DOMAIN toRedis[g] : 1 < k /\ Asked(g, k, "setex", u)
          BY <2>4, <4>3, <1>e, <1>3 DEF PresenceInv, AskedToShow, Asked
        <5>2. Asks("setex", u)'
          BY <5>1, <1>13
        <5> QED BY <5>2, <2>4
      <4>4. CASE c \notin userSockets[g][u]
        <5>1. u \in abandoned
          BY <4>1, <4>2, <4>4, <1>1 DEF PresenceInv, ForgottenAreAbandoned, q
        <5> QED BY <5>1, <2>4, <1>1
      <4> QED BY <4>3, <4>4
    <3> QED BY <3>1, <3>2
  <2> QED BY <2>2, <2>3, <2>4, <1>3
<1>15. ShownIsConnected'
  <2> SUFFICES ASSUME NEW v \in EdgeUsers, v \in shownOnline', v \notin abandoned
               PROVE  (\E h \in EdgeReplicas : userSockets[h][v] # {}) \/ Asks("del", v)'
    BY <1>1 DEF ShownIsConnected
  <2>1. CASE v # u
    <3>1. v \in shownOnline
      BY <2>1, <1>1, <1>3
    <3> QED BY <2>1, <3>1, <1>8 DEF PresenceInv, ShownIsConnected
  <2>2. CASE v = u /\ op = "del"
    BY <2>2, <1>1
  <2>3. CASE v = u /\ op = "setex"
    <3>1. CASE userSockets[g][u] # {}
      BY <2>3, <3>1
    <3>2. CASE userSockets[g][u] = {}
      <4>1. PICK k \in DOMAIN toRedis[g] : 1 < k /\ Asked(g, k, "del", u)
        BY <2>3, <3>2, <1>e, <1>3 DEF PresenceInv, AskedToHide, Asked
      <4>2. Asks("del", u)'
        BY <4>1, <1>13
      <4> QED BY <4>2, <2>3
    <3> QED BY <3>1, <3>2
  <2> QED BY <2>1, <2>2, <2>3, <1>3
<1> QED BY <1>9, <1>10, <1>11, <1>12, <1>14, <1>15 DEF PresenceInv

-----------------------------------------------------------------------------
\* A replica ends: its sockets are closed, or will be.
LEMMA EndKeeps ==
  ASSUME SocketInv, PresenceInv, NEW g \in EdgeReplicas, NEW unheard, NEW st \in {"closing", "closed"},
         EndReplica(g, unheard),
         edgeSocket' = [c \in EdgeSockets |->
           IF c \in HeldBy(g) THEN [edgeSocket[c] EXCEPT !.state = st] ELSE edgeSocket[c]],
         toRedis' \in [EdgeReplicas -> Seq(RedisCommand)],
         \A h \in EdgeReplicas : toRedis'[h] = toRedis[h] \/ (h = g /\ toRedis'[h] = <<>>),
         toRedis'[g] = toRedis[g] \/ \A i \in DOMAIN toRedis[g] : toRedis[g][i].user \in unheard
  PROVE  SocketInv' /\ PresenceInv'
<1>t. EdgeTypes
  BY DEF SocketInv
<1>1. /\ replica[g] = "serving" /\ replica'[g] = "ended" /\ replica' \in [EdgeReplicas -> {"starting", "serving", "ended"}]
      /\ \A h \in EdgeReplicas : h # g => replica'[h] = replica[h]
      /\ UNCHANGED <<shownOnline, shadowed, outlived>>
      /\ abandoned' = abandoned \cup {EdgeUserOf[c] : c \in HeldBy(g)} \cup unheard
  BY <1>t DEF EndReplica, EdgeTypes
<1>2. /\ edgeClients' \in [EdgeReplicas -> SUBSET EdgeSockets]
      /\ \A h \in EdgeReplicas : h # g => edgeClients'[h] = edgeClients[h]
  BY <1>t DEF EndReplica, EdgeTypes
<1>3. /\ userSockets' \in [EdgeReplicas -> [EdgeUsers -> SUBSET EdgeSockets]]
      /\ \A h \in EdgeReplicas : h # g => userSockets'[h] = userSockets[h]
      /\ \A u \in EdgeUsers : userSockets'[g][u] = {}
  BY <1>t DEF EndReplica, EdgeTypes
<1>4. ASSUME NEW c \in EdgeSockets
      PROVE  /\ edgeSocket'[c].at = edgeSocket[c].at /\ edgeSocket'[c] \in [state: SocketStates, at: EdgeReplicas \cup {NoReplica}]
             /\ Held(c)' => Held(c)
             /\ edgeSocket[c].at # g => edgeSocket'[c] = edgeSocket[c]
             /\ edgeSocket[c].at = g => edgeSocket'[c].state # "open"
             /\ Held(c) /\ edgeSocket[c].at = g => c \in HeldBy(g)
  <2>1. edgeSocket[c] \in [state: SocketStates, at: EdgeReplicas \cup {NoReplica}]
    BY <1>t DEF EdgeTypes
  <2>2. CASE c \in HeldBy(g)
    <3>1. edgeSocket'[c] = [edgeSocket[c] EXCEPT !.state = st]
      BY <2>2
    <3>2. edgeSocket'[c].at = edgeSocket[c].at /\ edgeSocket'[c].state = st
          /\ edgeSocket'[c] \in [state: SocketStates, at: EdgeReplicas \cup {NoReplica}]
      BY <2>1, <3>1 DEF SocketStates
    <3>3. edgeSocket[c].at = g /\ Held(c)
      BY <2>2 DEF HeldBy, Held
    <3> QED BY <2>2, <3>2, <3>3
  <2>3. CASE c \notin HeldBy(g)
    <3>1. edgeSocket'[c] = edgeSocket[c]
      BY <2>3
    <3>2. ~ (Held(c) /\ edgeSocket[c].at = g)
      BY <2>3 DEF HeldBy, Held
    <3>3. edgeSocket[c].at = g => edgeSocket[c].state # "open"
      BY <3>2 DEF Held
    <3> QED BY <2>1, <3>1, <3>2, <3>3 DEF Held
  <2> QED BY <2>2, <2>3
<1>5. \A u \in EdgeUsers : userSockets[g][u] # {} => u \in abandoned'
  <2> SUFFICES ASSUME NEW u \in EdgeUsers, NEW c \in userSockets[g][u] PROVE u \in abandoned'
    OBVIOUS
  <2>1. c \in EdgeSockets /\ EdgeUserOf[c] = u /\ edgeSocket[c].at = g /\ Held(c)
    BY <1>t DEF SocketInv, OwnSocketsOnly, EdgeTypes
  <2> QED BY <2>1, <1>1, <1>4
<1>6. SocketInv'
  <2>1. EdgeTypes'
    <3>1. edgeSocket' \in [EdgeSockets -> [state: SocketStates, at: EdgeReplicas \cup {NoReplica}]]
      BY <1>4
    <3> QED BY <1>1, <1>2, <1>3, <3>1 DEF EdgeTypes
  <2>2. HeldSomewhere'
    BY <1>4 DEF SocketInv, HeldSomewhere
  <2>3. OwnSocketsOnly'
    <3> SUFFICES ASSUME NEW h \in EdgeReplicas, NEW v \in EdgeUsers, NEW d \in userSockets'[h][v]
                 PROVE  EdgeUserOf[d] = v /\ edgeSocket'[d].at = h /\ Held(d)'
      BY DEF OwnSocketsOnly
    <3>1. h # g /\ d \in userSockets[h][v]
      BY <1>3
    <3>2. EdgeUserOf[d] = v /\ edgeSocket[d].at = h /\ Held(d) /\ d \in EdgeSockets
      BY <3>1, <1>t DEF SocketInv, OwnSocketsOnly, EdgeTypes
    <3> QED BY <3>1, <3>2, <1>4 DEF Held
  <2>4. OpenIsKnown'
    <3> SUFFICES ASSUME NEW d \in EdgeSockets, edgeSocket'[d].state = "open"
                 PROVE  d \in userSockets'[edgeSocket'[d].at][EdgeUserOf[d]] /\ d \in edgeClients'[edgeSocket'[d].at]
      BY DEF OpenIsKnown
    <3>1. edgeSocket'[d] = edgeSocket[d] /\ edgeSocket[d].at # g
      BY <1>4
    <3>2. edgeSocket[d].at \in EdgeReplicas
      BY <3>1 DEF SocketInv, HeldSomewhere, Held
    <3>3. d \in userSockets[edgeSocket[d].at][EdgeUserOf[d]] /\ d \in edgeClients[edgeSocket[d].at]
      BY <3>1 DEF SocketInv, OpenIsKnown
    <3> QED BY <3>1, <3>2, <3>3, <1>2, <1>3
  <2>5. OnlyServingKnow'
    <3> SUFFICES ASSUME NEW h \in EdgeReplicas, replica'[h] # "serving", NEW u \in EdgeUsers
                 PROVE  userSockets'[h][u] = {}
      BY DEF OnlyServingKnow
    <3>1. CASE h = g
      BY <3>1, <1>3
    <3>2. CASE h # g
      BY <3>2, <1>1, <1>3 DEF SocketInv, OnlyServingKnow
    <3> QED BY <3>1, <3>2
  <2> QED BY <2>1, <2>2, <2>3, <2>4, <2>5 DEF SocketInv
<1>7. ForgottenAreAbandoned'
  <2> SUFFICES ASSUME NEW d \in EdgeSockets, Held(d)', d \notin userSockets'[edgeSocket'[d].at][EdgeUserOf[d]]
               PROVE  /\ replica'[edgeSocket'[d].at] = "ended"
                      /\ EdgeUserOf[d] \in abandoned' \/ toRedis'[edgeSocket'[d].at] = <<>>
    BY DEF ForgottenAreAbandoned
  <2>1. Held(d) /\ edgeSocket'[d].at = edgeSocket[d].at /\ edgeSocket[d].at \in EdgeReplicas
    BY <1>4 DEF SocketInv, HeldSomewhere
  <2>2. CASE edgeSocket[d].at = g
    BY <2>1, <2>2, <1>1, <1>4
  <2>3. CASE edgeSocket[d].at # g
    <3>1. d \notin userSockets[edgeSocket[d].at][EdgeUserOf[d]]
      BY <2>1, <2>3, <1>3
    <3>2. replica[edgeSocket[d].at] = "ended" /\ (EdgeUserOf[d] \in abandoned \/ toRedis[edgeSocket[d].at] = <<>>)
      BY <2>1, <3>1 DEF PresenceInv, ForgottenAreAbandoned
    <3> QED BY <2>1, <2>3, <3>2, <1>1
  <2> QED BY <2>2, <2>3
<1>8. AskedToShow'
  <2> SUFFICES ASSUME NEW h \in EdgeReplicas, NEW v \in EdgeUsers, userSockets'[h][v] # {},
                      NEW i \in DOMAIN toRedis'[h], Asked(h, i, "del", v)'
               PROVE  \E j \in DOMAIN toRedis'[h] : i < j /\ Asked(h, j, "setex", v)'
    BY DEF AskedToShow
  <2>1. h # g /\ userSockets[h][v] # {} /\ toRedis'[h] = toRedis[h]
    BY <1>3
  <2> QED BY <2>1 DEF PresenceInv, AskedToShow, Asked
<1>9. AskedToHide'
  <2> SUFFICES ASSUME NEW h \in EdgeReplicas, NEW v \in EdgeUsers, userSockets'[h][v] = {}, v \notin abandoned',
                      NEW i \in DOMAIN toRedis'[h], Asked(h, i, "setex", v)'
               PROVE  \E j \in DOMAIN toRedis'[h] : i < j /\ Asked(h, j, "del", v)'
    BY DEF AskedToHide
  <2>1. userSockets[h][v] = {} /\ v \notin abandoned
    <3>1. CASE h = g
      BY <3>1, <1>1, <1>5
    <3>2. CASE h # g
      BY <3>2, <1>1, <1>3
    <3> QED BY <3>1, <3>2
  <2>2. toRedis'[h] = toRedis[h]
    <3>1. toRedis'[h] # <<>>
      OBVIOUS
    <3> QED BY <3>1
  <2> QED BY <2>1, <2>2 DEF PresenceInv, AskedToHide, Asked
<1>10. ASSUME NEW op, NEW u, Asks(op, u), u \notin unheard PROVE Asks(op, u)'
  <2>1. PICK h \in EdgeReplicas : \E i \in DOMAIN toRedis[h] : Asked(h, i, op, u)
    BY <1>10 DEF Asks
  <2>2. toRedis'[h] = toRedis[h]
    BY <2>1, <1>10 DEF Asked
  <2> QED BY <2>1, <2>2 DEF Asks, Asked
<1>11. ConnectedIsShown'
  <2> SUFFICES ASSUME NEW v \in EdgeUsers, SocketsOf(v)' # {}, v \notin abandoned'
               PROVE  v \in (shownOnline \cup shadowed \cup outlived \cup abandoned)' \/ Asks("setex", v)'
    BY DEF ConnectedIsShown
  <2>1. SocketsOf(v) # {} /\ v \notin unheard /\ v \notin abandoned
    BY <1>1, <1>4 DEF SocketsOf, Held
  <2> QED BY <2>1, <1>1, <1>10 DEF PresenceInv, ConnectedIsShown
<1>12. ShownIsConnected'
  <2> SUFFICES ASSUME NEW v \in EdgeUsers, v \in shownOnline', v \notin abandoned'
               PROVE  (\E h \in EdgeReplicas : userSockets'[h][v] # {}) \/ Asks("del", v)'
    BY DEF ShownIsConnected
  <2>1. v \in shownOnline /\ v \notin unheard /\ v \notin abandoned /\ userSockets[g][v] = {}
    BY <1>1, <1>5
  <2>2. \A h \in EdgeReplicas : userSockets[h][v] # {} => userSockets'[h][v] # {}
    BY <2>1, <1>3
  <2> QED BY <2>1, <2>2, <1>10 DEF PresenceInv, ShownIsConnected
<1> QED BY <1>6, <1>7, <1>8, <1>9, <1>11, <1>12 DEF PresenceInv

\* The presence key of a user expires.
LEMMA ExpiresKeeps ==
  ASSUME SocketInv, PresenceInv, NEW u \in EdgeUsers, PresenceKeyExpires(u)
  PROVE  SocketInv' /\ PresenceInv'
<1>1. /\ \A g \in EdgeReplicas : toRedis[g] = <<>> /\ DOMAIN toRedis[g] = {}
      /\ shownOnline' = shownOnline \ {u} /\ outlived' = outlived \cup {u} /\ abandoned' = abandoned \ {u}
      /\ UNCHANGED <<replica, edgeClients, userSockets, edgeSocket, toRedis, shadowed>>
  <2>1. DOMAIN <<>> = {}
    OBVIOUS
  <2> QED BY <2>1 DEF PresenceKeyExpires
<1>2. SocketInv'
  BY <1>1, SocketsStay DEF SocketInv, EdgeTypes
<1>3. \A op, v : ~ Asks(op, v)
  BY <1>1 DEF Asks
<1>4. ForgottenAreAbandoned'
  BY <1>1 DEF PresenceInv, ForgottenAreAbandoned, Held, SocketInv, HeldSomewhere
<1>5. AskedToShow' /\ AskedToHide'
  BY <1>1 DEF AskedToShow, AskedToHide
<1>6. ConnectedIsShown'
  BY <1>1, <1>3 DEF PresenceInv, ConnectedIsShown, SocketsOf
<1>7. ShownIsConnected'
  BY <1>1, <1>3 DEF PresenceInv, ShownIsConnected
<1> QED BY <1>2, <1>4, <1>5, <1>6, <1>7 DEF PresenceInv

\* A client closes its socket.
LEMMA PeerKeeps ==
  ASSUME SocketInv, PresenceInv, NEW c \in EdgeSockets, PeerCloses(c)
  PROVE  SocketInv' /\ PresenceInv'
<1>t. EdgeTypes
  BY DEF SocketInv
<1>1. /\ edgeSocket[c].state = "open" /\ edgeSocket'[c].state = "closing" /\ edgeSocket'[c].at = edgeSocket[c].at
      /\ \A d \in EdgeSockets : d # c => edgeSocket'[d] = edgeSocket[d]
      /\ UNCHANGED <<replica, edgeClients, userSockets, toRedis, presenceVars>>
  BY <1>t DEF PeerCloses, EdgeTypes, presenceVars
<1>2. \A d \in EdgeSockets : (Held(d)' <=> Held(d)) /\ edgeSocket'[d].at = edgeSocket[d].at
  BY <1>1 DEF Held
<1>3. EdgeTypes'
  BY <1>t DEF PeerCloses, EdgeTypes, presenceVars, SocketStates
<1>4. HeldSomewhere' /\ OnlyServingKnow'
  BY <1>1, <1>2 DEF SocketInv, HeldSomewhere, OnlyServingKnow
<1>5. OwnSocketsOnly'
  <2> SUFFICES ASSUME NEW h \in EdgeReplicas, NEW v \in EdgeUsers, NEW d \in userSockets[h][v]
               PROVE  EdgeUserOf[d] = v /\ edgeSocket'[d].at = h /\ Held(d)'
    BY <1>1 DEF OwnSocketsOnly
  <2>1. EdgeUserOf[d] = v /\ edgeSocket[d].at = h /\ Held(d) /\ d \in EdgeSockets
    BY <1>t DEF SocketInv, OwnSocketsOnly, EdgeTypes
  <2> QED BY <2>1, <1>2
<1>6. OpenIsKnown'
  <2>1. \A d \in EdgeSockets : edgeSocket'[d].state = "open" => edgeSocket'[d] = edgeSocket[d]
    BY <1>1
  <2> QED BY <2>1, <1>1 DEF SocketInv, OpenIsKnown
<1>7. SocketInv'
  BY <1>3, <1>4, <1>5, <1>6 DEF SocketInv
<1>8. PresenceInv'
  BY <1>1, <1>2, PresenceStays
<1> QED BY <1>7, <1>8

\* Every step keeps the invariants of the sockets and of presence.
LEMMA EdgeNextInv == SocketInv /\ PresenceInv /\ [EdgeGatewayNext]_edgeVars => SocketInv' /\ PresenceInv'
<1> SUFFICES ASSUME SocketInv, PresenceInv, [EdgeGatewayNext]_edgeVars PROVE SocketInv' /\ PresenceInv'
  OBVIOUS
<1>t. EdgeTypes
  BY DEF SocketInv
<1>1. ASSUME UNCHANGED <<replica, edgeClients, userSockets, edgeSocket, presenceVars>>
      PROVE  SocketInv' /\ PresenceInv'
  <2>1. \A c \in EdgeSockets : (Held(c)' <=> Held(c)) /\ edgeSocket'[c].at = edgeSocket[c].at
    BY <1>1 DEF Held
  <2>2. SocketInv'
    BY <1>1, <1>t, SocketsStay DEF EdgeTypes, presenceVars
  <2> QED BY <1>1, <2>1, <2>2, PresenceStays
<1>2. ASSUME NEW g \in EdgeReplicas, StartReplica(g) PROVE SocketInv' /\ PresenceInv'
  <2>1. /\ replica[g] = "starting" /\ replica' = [replica EXCEPT ![g] = "serving"]
        /\ UNCHANGED <<edgeClients, userSockets, edgeSocket, presenceVars>>
    BY <1>2 DEF StartReplica
  <2>2. \A h \in EdgeReplicas : (replica[h] = "serving" => replica'[h] = "serving") /\ (replica[h] = "ended" => replica'[h] = "ended")
    BY <2>1, <1>t DEF EdgeTypes
  <2>3. \A c \in EdgeSockets : Held(c) => edgeSocket[c].at \in EdgeReplicas
    BY DEF SocketInv, HeldSomewhere
  <2>4. \A c \in EdgeSockets : (Held(c)' <=> Held(c)) /\ edgeSocket'[c].at = edgeSocket[c].at
    BY <2>1 DEF Held
  <2>5. SocketInv'
    BY <2>1, <2>2, <1>t, SocketsStay DEF EdgeTypes, presenceVars
  <2> QED BY <2>1, <2>2, <2>3, <2>4, <2>5, PresenceStays
<1>3. ASSUME NEW g \in EdgeReplicas, ReplaceReplica(g) PROVE SocketInv' /\ PresenceInv'
  <2>1. /\ replica[g] = "ended" /\ HeldBy(g) = {} /\ replica' = [replica EXCEPT ![g] = "starting"]
        /\ UNCHANGED <<edgeClients, userSockets, edgeSocket, presenceVars>>
    BY <1>3 DEF ReplaceReplica
  <2>2. \A h \in EdgeReplicas : (replica[h] = "serving" => replica'[h] = "serving") /\ (h # g => replica'[h] = replica[h])
    BY <2>1, <1>t DEF EdgeTypes
  <2>3. \A c \in EdgeSockets : Held(c) => edgeSocket[c].at \in EdgeReplicas /\ edgeSocket[c].at # g
    BY <2>1 DEF SocketInv, HeldSomewhere, HeldBy, Held
  <2>4. \A c \in EdgeSockets : (Held(c)' <=> Held(c)) /\ edgeSocket'[c].at = edgeSocket[c].at
    BY <2>1 DEF Held
  <2>5. SocketInv'
    BY <2>1, <2>2, <1>t, SocketsStay DEF EdgeTypes, presenceVars
  <2> QED BY <2>1, <2>2, <2>3, <2>4, <2>5, PresenceStays
<1>4. ASSUME NEW g \in EdgeReplicas, StopReplica(g) PROVE SocketInv' /\ PresenceInv'
  <2>1. /\ EndReplica(g, {}) /\ toRedis' = toRedis
        /\ edgeSocket' = [c \in EdgeSockets |->
             IF c \in HeldBy(g) THEN [edgeSocket[c] EXCEPT !.state = "closing"] ELSE edgeSocket[c]]
    BY <1>4 DEF StopReplica
  <2>2. toRedis' \in [EdgeReplicas -> Seq(RedisCommand)]
    BY <2>1, <1>t DEF EdgeTypes
  <2> QED BY <2>1, <2>2, EndKeeps
<1>5. ASSUME NEW g \in EdgeReplicas, CrashReplica(g) PROVE SocketInv' /\ PresenceInv'
  <2> DEFINE unheard == {toRedis[g][i].user : i \in DOMAIN toRedis[g]}
  <2>1. /\ EndReplica(g, unheard) /\ toRedis' = [toRedis EXCEPT ![g] = <<>>]
        /\ edgeSocket' = [c \in EdgeSockets |->
             IF c \in HeldBy(g) THEN [edgeSocket[c] EXCEPT !.state = "closed"] ELSE edgeSocket[c]]
    BY <1>5 DEF CrashReplica
  <2>2. <<>> \in Seq(RedisCommand)
    OBVIOUS
  <2>3. toRedis' \in [EdgeReplicas -> Seq(RedisCommand)]
    BY <2>1, <2>2, <1>t DEF EdgeTypes
  <2>4. \A h \in EdgeReplicas : toRedis'[h] = toRedis[h] \/ (h = g /\ toRedis'[h] = <<>>)
    BY <2>1, <1>t DEF EdgeTypes
  <2>5. \A i \in DOMAIN toRedis[g] : toRedis[g][i].user \in unheard
    OBVIOUS
  <2> HIDE DEF unheard
  <2> QED BY <2>1, <2>3, <2>4, <2>5, EndKeeps
<1>6. ASSUME NEW c \in EdgeSockets, HandleRoomMessage(c) PROVE SocketInv' /\ PresenceInv'
  BY <1>6, <1>1 DEF HandleRoomMessage
<1>7. ASSUME NEW to, PublishPlatformEvent(to) PROVE SocketInv' /\ PresenceInv'
  BY <1>7, <1>1 DEF PublishPlatformEvent
<1>8. CASE HandlePlatformEvent
  BY <1>8, <1>1 DEF HandlePlatformEvent
<1>9. CASE UNCHANGED edgeVars
  BY <1>9, <1>1 DEF edgeVars, presenceVars
<1> QED BY <1>2, <1>3, <1>4, <1>5, <1>6, <1>7, <1>8, <1>9,
          AcceptKeeps, SocketCloseKeeps, ExecuteKeeps, ExpiresKeeps, PeerKeeps DEF EdgeGatewayNext

-----------------------------------------------------------------------------
\* The events.
DeliveryTypes ==
  /\ platformBus \in EdgeReplicas \cup {NoReplica}
  /\ fanoutQueue \in Seq(Nat) /\ edgeGot \in [EdgeSockets -> Seq(Nat)] /\ since \in [EdgeSockets -> Nat]
  /\ addressed \in Seq(EdgeUsers \cup {"room"}) /\ handledBy \in Seq(EdgeReplicas \cup {NoReplica})
  /\ Len(handledBy) = Len(addressed)

\* The queue holds published events in their order, and somebody consumes it.
QueueInOrder ==
  /\ \A i \in DOMAIN fanoutQueue : fanoutQueue[i] \in 1..Len(addressed)
  /\ \A i, j \in DOMAIN fanoutQueue : i < j => fanoutQueue[i] < fanoutQueue[j]
  /\ fanoutQueue # <<>> => platformBus \in EdgeReplicas

GotBeforeQueue ==
  \A c \in EdgeSockets : \A i \in DOMAIN edgeGot[c] :
    edgeGot[c][i] \in 1..Len(addressed) /\ \A j \in DOMAIN fanoutQueue : edgeGot[c][i] < fanoutQueue[j]

DeliveryInv == DeliveryTypes /\ QueueInOrder /\ GotBeforeQueue /\ EdgeDelivers

\* The invariant of the deliveries holds at the start.
LEMMA DeliveryInitInv == EdgeGatewayInit => DeliveryInv
<1> SUFFICES ASSUME EdgeGatewayInit PROVE DeliveryInv
  OBVIOUS
<1>1. DeliveryTypes
  BY DEF EdgeGatewayInit, DeliveryTypes
<1>2. fanoutQueue = <<>> /\ \A c \in EdgeSockets : edgeGot[c] = <<>> /\ edgeSocket[c].state = "new"
  BY DEF EdgeGatewayInit
<1>3. DOMAIN <<>> = {}
  OBVIOUS
<1> QED BY <1>1, <1>2, <1>3 DEF DeliveryInv, QueueInOrder, GotBeforeQueue, EdgeDelivers

\* What touches neither the queues nor the rooms keeps the deliveries.
LEMMA DeliveryStays ==
  ASSUME DeliveryInv,
         UNCHANGED <<edgeGot, addressed, handledBy>>,
         since' \in [EdgeSockets -> Nat],
         fanoutQueue' = fanoutQueue \/ fanoutQueue' = <<>>,
         platformBus' \in EdgeReplicas \cup {NoReplica},
         fanoutQueue' # <<>> /\ platformBus \in EdgeReplicas => platformBus' = platformBus,
         \A c \in EdgeSockets : edgeSocket'[c].state = "open" =>
           since'[c] = Len(addressed) \/ (edgeSocket'[c] = edgeSocket[c] /\ since'[c] = since[c])
  PROVE  DeliveryInv'
<1>1. DeliveryTypes' /\ Len(addressed) \in Nat
  <2>1. <<>> \in Seq(Nat) /\ fanoutQueue \in Seq(Nat)
    BY DEF DeliveryInv, DeliveryTypes
  <2>2. fanoutQueue' \in Seq(Nat)
    BY <2>1
  <2> QED BY <2>2 DEF DeliveryInv, DeliveryTypes
<1>2. DOMAIN <<>> = {}
  OBVIOUS
<1>3. QueueInOrder' /\ GotBeforeQueue'
  BY <1>2 DEF DeliveryInv, QueueInOrder, GotBeforeQueue
<1>4. EdgeDelivers'
  <2> SUFFICES ASSUME NEW c \in EdgeSockets
               PROVE  /\ \A i, j \in DOMAIN edgeGot'[c] : i < j => edgeGot'[c][i] < edgeGot'[c][j]
                      /\ \A i \in DOMAIN edgeGot'[c] : addressed'[edgeGot'[c][i]] \in {EdgeUserOf[c], "room"}
                      /\ edgeSocket'[c].state = "open" => \A n \in since'[c] + 1 .. Len(addressed') :
                           addressed'[n] = EdgeUserOf[c] /\ handledBy'[n] = edgeSocket'[c].at
                             => \E i \in DOMAIN edgeGot'[c] : edgeGot'[c][i] = n
    BY DEF EdgeDelivers
  <2>1. CASE since'[c] = Len(addressed)
    <3>1. \A n \in since'[c] + 1 .. Len(addressed') : FALSE
      BY <2>1, <1>1
    <3> QED BY <3>1 DEF DeliveryInv, EdgeDelivers
  <2>2. CASE edgeSocket'[c] = edgeSocket[c] /\ since'[c] = since[c]
    BY <2>2 DEF DeliveryInv, EdgeDelivers
  <2>3. CASE edgeSocket'[c].state # "open"
    BY <2>3 DEF DeliveryInv, EdgeDelivers
  <2> QED BY <2>1, <2>2, <2>3
<1> QED BY <1>1, <1>3, <1>4 DEF DeliveryInv

\* An event is published.
LEMMA PublishDelivers ==
  ASSUME SocketInv, DeliveryInv, NEW to \in EdgeUsers \cup {"room"}, PublishPlatformEvent(to)
  PROVE  DeliveryInv'
<1>t. DeliveryTypes
  BY DEF DeliveryInv
<1> DEFINE n == Len(addressed)
<1>1. /\ addressed' = Append(addressed, to) /\ handledBy' = Append(handledBy, NoReplica)
      /\ UNCHANGED <<platformBus, edgeSocket, since, edgeGot>>
      /\ fanoutQueue' = fanoutQueue \/ (platformBus # NoReplica /\ fanoutQueue' = Append(fanoutQueue, n + 1))
  BY DEF PublishPlatformEvent
<1>2. /\ addressed' \in Seq(EdgeUsers \cup {"room"}) /\ n \in Nat /\ Len(addressed') = n + 1
      /\ \A j \in 1..n : addressed'[j] = addressed[j]
  BY <1>1, <1>t, WireGrows DEF DeliveryTypes
<1>3. /\ handledBy' \in Seq(EdgeReplicas \cup {NoReplica}) /\ Len(handledBy') = n + 1
      /\ handledBy'[n + 1] = NoReplica /\ \A j \in 1..n : handledBy'[j] = handledBy[j]
  <2>1. NoReplica \in EdgeReplicas \cup {NoReplica} /\ handledBy \in Seq(EdgeReplicas \cup {NoReplica}) /\ Len(handledBy) = n
    BY <1>t DEF DeliveryTypes
  <2> QED BY <1>1, <2>1, WireGrows
<1>4. fanoutQueue' \in Seq(Nat) /\ \A j \in DOMAIN fanoutQueue' :
        j \in Nat /\ ((j \in DOMAIN fanoutQueue /\ fanoutQueue'[j] = fanoutQueue[j])
          \/ (fanoutQueue'[j] = n + 1 /\ \A i \in DOMAIN fanoutQueue' : i = j \/ (i < j /\ i \in DOMAIN fanoutQueue /\ fanoutQueue'[i] = fanoutQueue[i])))
  <2>1. fanoutQueue \in Seq(Nat) /\ n + 1 \in Nat
    BY <1>t, <1>2 DEF DeliveryTypes
  <2>2. CASE fanoutQueue' = fanoutQueue
    <3>1. \A j \in DOMAIN fanoutQueue : j \in Nat
      BY <2>1
    <3> QED BY <2>1, <2>2, <3>1
  <2>3. CASE fanoutQueue' = Append(fanoutQueue, n + 1)
    <3> HIDE DEF n
    <3>1. /\ fanoutQueue' \in Seq(Nat) /\ DOMAIN fanoutQueue' = 1..(Len(fanoutQueue) + 1) /\ Len(fanoutQueue) \in Nat
          /\ fanoutQueue'[Len(fanoutQueue) + 1] = n + 1
          /\ DOMAIN fanoutQueue = 1..Len(fanoutQueue) /\ \A j \in 1..Len(fanoutQueue) : fanoutQueue'[j] = fanoutQueue[j]
      BY <2>1, <2>3, WireGrows
    <3> QED BY <3>1
  <2> QED BY <2>2, <2>3, <1>1
<1>5. DeliveryTypes'
  BY <1>1, <1>2, <1>3, <1>4, <1>t DEF DeliveryTypes
<1>g. \A c \in EdgeSockets : edgeGot[c] \in Seq(Nat) /\ since[c] \in Nat
  BY <1>t DEF DeliveryTypes
<1> HIDE DEF n
<1>q. n = Len(addressed)
  BY DEF n
<1>6. QueueInOrder'
  <2>1. \A i \in DOMAIN fanoutQueue : fanoutQueue[i] \in 1..n /\ fanoutQueue[i] \in Nat
    BY <1>q, <1>2 DEF DeliveryInv, QueueInOrder
  <2>2. \A i \in DOMAIN fanoutQueue' : fanoutQueue'[i] \in 1..Len(addressed')
    BY <2>1, <1>2, <1>4
  <2>3. \A i, j \in DOMAIN fanoutQueue' : i < j => fanoutQueue'[i] < fanoutQueue'[j]
    <3> SUFFICES ASSUME NEW i \in DOMAIN fanoutQueue', NEW j \in DOMAIN fanoutQueue', i < j
                 PROVE  fanoutQueue'[i] < fanoutQueue'[j]
      OBVIOUS
    <3>1. i \in Nat /\ j \in Nat /\ ~ (j < i) /\ i # j
      BY <1>4
    <3>2. i \in DOMAIN fanoutQueue /\ fanoutQueue'[i] = fanoutQueue[i]
      BY <3>1, <1>4
    <3>3. CASE j \in DOMAIN fanoutQueue /\ fanoutQueue'[j] = fanoutQueue[j]
      BY <3>2, <3>3 DEF DeliveryInv, QueueInOrder
    <3>4. CASE fanoutQueue'[j] = n + 1
      BY <3>2, <3>4, <2>1, <1>2
    <3> QED BY <3>3, <3>4, <1>4
  <2>4. fanoutQueue' # <<>> => platformBus' \in EdgeReplicas
    BY <1>1, <1>t DEF DeliveryInv, QueueInOrder, DeliveryTypes
  <2> QED BY <2>2, <2>3, <2>4 DEF QueueInOrder
<1>7. GotBeforeQueue'
  <2> SUFFICES ASSUME NEW c \in EdgeSockets, NEW i \in DOMAIN edgeGot[c]
               PROVE  edgeGot[c][i] \in 1..Len(addressed') /\ \A j \in DOMAIN fanoutQueue' : edgeGot[c][i] < fanoutQueue'[j]
    BY <1>1 DEF GotBeforeQueue
  <2>1. edgeGot[c][i] \in 1..n /\ \A j \in DOMAIN fanoutQueue : edgeGot[c][i] < fanoutQueue[j]
    BY <1>q DEF DeliveryInv, GotBeforeQueue
  <2> QED BY <2>1, <1>2, <1>4
<1>8. EdgeDelivers'
  <2> SUFFICES ASSUME NEW c \in EdgeSockets
               PROVE  /\ \A i, j \in DOMAIN edgeGot[c] : i < j => edgeGot[c][i] < edgeGot[c][j]
                      /\ \A i \in DOMAIN edgeGot[c] : addressed'[edgeGot[c][i]] \in {EdgeUserOf[c], "room"}
                      /\ edgeSocket[c].state = "open" => \A k \in since[c] + 1 .. Len(addressed') :
                           addressed'[k] = EdgeUserOf[c] /\ handledBy'[k] = edgeSocket[c].at
                             => \E i \in DOMAIN edgeGot[c] : edgeGot[c][i] = k
    BY <1>1 DEF EdgeDelivers
  <2>1. \A i \in DOMAIN edgeGot[c] : addressed'[edgeGot[c][i]] = addressed[edgeGot[c][i]]
    BY <1>2, <1>q DEF DeliveryInv, GotBeforeQueue
  <2>2. ASSUME edgeSocket[c].state = "open", NEW k \in since[c] + 1 .. Len(addressed'),
               addressed'[k] = EdgeUserOf[c], handledBy'[k] = edgeSocket[c].at
        PROVE  \E i \in DOMAIN edgeGot[c] : edgeGot[c][i] = k
    <3>1. k # n + 1
      <4>1. edgeSocket[c].at # NoReplica
        BY <2>2, EdgeGatewayAssumption DEF SocketInv, HeldSomewhere, Held
      <4> QED BY <4>1, <2>2, <1>3
    <3>2. k \in since[c] + 1 .. n /\ k \in 1..n
      BY <3>1, <1>2, <1>g
    <3> QED BY <3>2, <2>2, <1>2, <1>3, <1>q DEF DeliveryInv, EdgeDelivers
  <2> QED BY <2>1, <2>2 DEF DeliveryInv, EdgeDelivers
<1> QED BY <1>5, <1>6, <1>7, <1>8 DEF DeliveryInv

\* A gateway handles the first event of its queue.
LEMMA HandleDelivers ==
  ASSUME SocketInv, DeliveryInv, HandlePlatformEvent
  PROVE  DeliveryInv'
<1>t. DeliveryTypes
  BY DEF DeliveryInv
<1> DEFINE q == fanoutQueue
<1>p. PICK n, to : n = Head(q)
        /\ to = IF addressed[n] = "room" THEN InTheRoom(platformBus) ELSE OfTheUser(platformBus, addressed[n])
  OBVIOUS
<1>1. /\ q # <<>> /\ fanoutQueue' = Tail(q)
      /\ edgeGot' = [c \in EdgeSockets |-> IF c \in to THEN Append(edgeGot[c], n) ELSE edgeGot[c]]
      /\ handledBy' = [handledBy EXCEPT ![n] = platformBus]
      /\ UNCHANGED <<platformBus, edgeSocket, since, addressed>>
  BY <1>p DEF HandlePlatformEvent
<1>2. /\ Tail(q) \in Seq(Nat) /\ Len(q) \in Nat /\ Len(q) >= 1 /\ n = q[1] /\ n \in Nat
      /\ DOMAIN q = 1..Len(q) /\ DOMAIN Tail(q) = 1..(Len(q) - 1)
      /\ \A j \in 1..(Len(q) - 1) : Tail(q)[j] = q[j + 1]
  BY <1>1, <1>p, <1>t, WireShrinks DEF DeliveryTypes
<1>3. n \in 1..Len(addressed) /\ platformBus \in EdgeReplicas
  BY <1>1, <1>2 DEF DeliveryInv, QueueInOrder
<1>4. \A j \in DOMAIN Tail(q) : j + 1 \in DOMAIN q /\ 1 < j + 1 /\ Tail(q)[j] = q[j + 1] /\ n < Tail(q)[j] /\ j \in Nat
  BY <1>2 DEF DeliveryInv, QueueInOrder
<1>5. /\ handledBy' \in Seq(EdgeReplicas \cup {NoReplica}) /\ Len(handledBy') = Len(handledBy)
      /\ \A k \in 1..Len(addressed) : handledBy'[k] = IF k = n THEN platformBus ELSE handledBy[k]
  BY <1>1, <1>3, <1>t DEF DeliveryTypes
<1>6. ASSUME NEW c \in EdgeSockets
      PROVE  /\ edgeGot'[c] \in Seq(Nat)
             /\ \A i \in DOMAIN edgeGot[c] : i \in DOMAIN edgeGot'[c] /\ edgeGot'[c][i] = edgeGot[c][i]
             /\ \A i \in DOMAIN edgeGot'[c] :
                  \/ i \in DOMAIN edgeGot[c] /\ edgeGot'[c][i] = edgeGot[c][i]
                  \/ /\ c \in to /\ edgeGot'[c][i] = n
                     /\ \A j \in DOMAIN edgeGot'[c] : i = j \/ (j < i /\ j \in DOMAIN edgeGot[c] /\ i \in Nat /\ j \in Nat)
             /\ c \in to => \E i \in DOMAIN edgeGot'[c] : edgeGot'[c][i] = n
  <2>1. edgeGot[c] \in Seq(Nat)
    BY <1>t DEF DeliveryTypes
  <2>2. CASE c \in to
    <3>1. edgeGot'[c] = Append(edgeGot[c], n)
      BY <2>2, <1>1
    <3>2. /\ edgeGot'[c] \in Seq(Nat) /\ DOMAIN edgeGot'[c] = 1..(Len(edgeGot[c]) + 1) /\ Len(edgeGot[c]) \in Nat
          /\ edgeGot'[c][Len(edgeGot[c]) + 1] = n
          /\ DOMAIN edgeGot[c] = 1..Len(edgeGot[c]) /\ \A j \in 1..Len(edgeGot[c]) : edgeGot'[c][j] = edgeGot[c][j]
      BY <2>1, <3>1, <1>2, WireGrows
    <3> QED BY SMTT(60), <2>2, <3>2
  <2>3. CASE c \notin to
    BY <2>1, <2>3, <1>1
  <2> QED BY <2>2, <2>3
<1>7. DeliveryTypes'
  <2>1. edgeGot' \in [EdgeSockets -> Seq(Nat)]
    BY <1>1, <1>6
  <2> QED BY <2>1, <1>1, <1>2, <1>5, <1>t DEF DeliveryTypes
<1>8. QueueInOrder'
  <2>1. \A i \in DOMAIN Tail(q) : Tail(q)[i] \in 1..Len(addressed)
    BY <1>4 DEF DeliveryInv, QueueInOrder
  <2>2. \A i, j \in DOMAIN Tail(q) : i < j => Tail(q)[i] < Tail(q)[j]
    <3> SUFFICES ASSUME NEW i \in DOMAIN Tail(q), NEW j \in DOMAIN Tail(q), i < j PROVE Tail(q)[i] < Tail(q)[j]
      OBVIOUS
    <3>1. i + 1 < j + 1
      BY <1>4
    <3> QED BY <3>1, <1>4 DEF DeliveryInv, QueueInOrder
  <2> QED BY <2>1, <2>2, <1>1, <1>3 DEF QueueInOrder
<1>9. GotBeforeQueue'
  <2> SUFFICES ASSUME NEW c \in EdgeSockets, NEW i \in DOMAIN edgeGot'[c]
               PROVE  edgeGot'[c][i] \in 1..Len(addressed) /\ \A j \in DOMAIN Tail(q) : edgeGot'[c][i] < Tail(q)[j]
    BY <1>1 DEF GotBeforeQueue
  <2>1. CASE edgeGot'[c][i] = n
    BY <2>1, <1>3, <1>4
  <2>2. CASE i \in DOMAIN edgeGot[c] /\ edgeGot'[c][i] = edgeGot[c][i]
    BY <2>2, <1>4 DEF DeliveryInv, GotBeforeQueue
  <2> QED BY <2>1, <2>2, <1>6
<1>10. \A c \in to \cap EdgeSockets : addressed[n] \in {EdgeUserOf[c], "room"}
  <2> SUFFICES ASSUME NEW c \in to, addressed[n] # "room" PROVE addressed[n] = EdgeUserOf[c]
    OBVIOUS
  <2>1. c \in userSockets[platformBus][addressed[n]] /\ addressed[n] \in EdgeUsers
    BY <1>p, <1>3, <1>t DEF OfTheUser, DeliveryTypes
  <2> QED BY <2>1, <1>3 DEF SocketInv, OwnSocketsOnly
<1>11. ASSUME NEW c \in EdgeSockets, edgeSocket[c].state = "open", addressed[n] = EdgeUserOf[c], edgeSocket[c].at = platformBus
       PROVE  c \in to
  <2>1. EdgeUserOf[c] # "room"
    BY EdgeGatewayAssumption DEF EdgeUsers
  <2>2. c \in userSockets[platformBus][EdgeUserOf[c]] /\ c \in edgeClients[platformBus]
    BY <1>11 DEF SocketInv, OpenIsKnown
  <2> QED BY <2>1, <2>2, <1>11, <1>p DEF OfTheUser, Open
<1>12. EdgeDelivers'
  <2> SUFFICES ASSUME NEW c \in EdgeSockets
               PROVE  /\ \A i, j \in DOMAIN edgeGot'[c] : i < j => edgeGot'[c][i] < edgeGot'[c][j]
                      /\ \A i \in DOMAIN edgeGot'[c] : addressed[edgeGot'[c][i]] \in {EdgeUserOf[c], "room"}
                      /\ edgeSocket[c].state = "open" => \A k \in since[c] + 1 .. Len(addressed) :
                           addressed[k] = EdgeUserOf[c] /\ handledBy'[k] = edgeSocket[c].at
                             => \E i \in DOMAIN edgeGot'[c] : edgeGot'[c][i] = k
    BY <1>1 DEF EdgeDelivers
  <2>1. ASSUME NEW i \in DOMAIN edgeGot'[c], NEW j \in DOMAIN edgeGot'[c], i < j PROVE edgeGot'[c][i] < edgeGot'[c][j]
    <3>0. i \in Nat /\ j \in Nat
      BY <1>6
    <3>1. CASE j \in DOMAIN edgeGot[c] /\ i \in DOMAIN edgeGot[c]
      BY <3>1, <2>1, <1>6 DEF DeliveryInv, EdgeDelivers
    <3>2. CASE j \notin DOMAIN edgeGot[c]
      <4>1. edgeGot'[c][j] = n /\ i \in DOMAIN edgeGot[c] /\ edgeGot'[c][i] = edgeGot[c][i]
        BY <3>0, <3>2, <2>1, <1>6
      <4>2. 1 \in DOMAIN q /\ n = q[1]
        BY <1>2
      <4> QED BY <4>1, <4>2 DEF DeliveryInv, GotBeforeQueue
    <3>3. CASE i \notin DOMAIN edgeGot[c]
      <4>1. j < i
        BY <3>0, <3>3, <2>1, <1>6
      <4> QED BY <4>1, <3>0, <2>1
    <3> QED BY <3>1, <3>2, <3>3
  <2>2. ASSUME NEW i \in DOMAIN edgeGot'[c] PROVE addressed[edgeGot'[c][i]] \in {EdgeUserOf[c], "room"}
    <3>1. CASE i \in DOMAIN edgeGot[c] /\ edgeGot'[c][i] = edgeGot[c][i]
      BY <3>1 DEF DeliveryInv, EdgeDelivers
    <3>2. CASE c \in to /\ edgeGot'[c][i] = n
      BY <3>2, <1>10
    <3> QED BY <3>1, <3>2, <1>6
  <2>3. ASSUME edgeSocket[c].state = "open", NEW k \in since[c] + 1 .. Len(addressed),
               addressed[k] = EdgeUserOf[c], handledBy'[k] = edgeSocket[c].at
        PROVE  \E i \in DOMAIN edgeGot'[c] : edgeGot'[c][i] = k
    <3>1. k \in 1..Len(addressed)
      BY <1>t DEF DeliveryTypes
    <3>2. CASE k = n
      <4>1. c \in to
        BY <3>1, <3>2, <2>3, <1>5, <1>11
      <4> QED BY <4>1, <3>2, <1>6
    <3>3. CASE k # n
      <4>1. handledBy[k] = edgeSocket[c].at
        BY <3>1, <3>3, <2>3, <1>5
      <4>2. PICK i \in DOMAIN edgeGot[c] : edgeGot[c][i] = k
        BY <4>1, <2>3 DEF DeliveryInv, EdgeDelivers
      <4> QED BY <4>2, <1>6
    <3> QED BY <3>2, <3>3
  <2> QED BY <2>1, <2>2, <2>3
<1> QED BY <1>7, <1>8, <1>9, <1>12 DEF DeliveryInv

\* Every step keeps the invariant of the deliveries.
LEMMA DeliveryNextInv == SocketInv /\ DeliveryInv /\ [EdgeGatewayNext]_edgeVars => DeliveryInv'
<1> SUFFICES ASSUME SocketInv, DeliveryInv, [EdgeGatewayNext]_edgeVars PROVE DeliveryInv'
  OBVIOUS
<1>t. EdgeTypes /\ DeliveryTypes
  BY DEF SocketInv, DeliveryInv
<1>1. ASSUME UNCHANGED <<platformBus, eventVars>>,
             \A c \in EdgeSockets : edgeSocket'[c].state = "open" => edgeSocket'[c] = edgeSocket[c]
      PROVE  DeliveryInv'
  BY <1>1, <1>t, DeliveryStays DEF eventVars, DeliveryTypes
<1>2. ASSUME NEW g \in EdgeReplicas, StartReplica(g) PROVE DeliveryInv'
  <2>1. /\ platformBus' \in IF platformBus = NoReplica THEN {g, NoReplica} ELSE {platformBus}
        /\ UNCHANGED <<edgeSocket, eventVars>>
    BY <1>2 DEF StartReplica
  <2>2. platformBus' \in EdgeReplicas \cup {NoReplica} /\ (platformBus \in EdgeReplicas => platformBus' = platformBus)
    BY <2>1, <1>t, EdgeGatewayAssumption DEF DeliveryTypes
  <2> QED BY <2>1, <2>2, <1>t, DeliveryStays DEF eventVars, DeliveryTypes
<1>3. ASSUME NEW g \in EdgeReplicas, NEW unheard, EndReplica(g, unheard),
             \A c \in EdgeSockets : edgeSocket'[c].state = "open" => edgeSocket'[c] = edgeSocket[c]
      PROVE  DeliveryInv'
  <2>1. /\ platformBus' = IF platformBus = g THEN NoReplica ELSE platformBus
        /\ fanoutQueue' = IF platformBus = g THEN <<>> ELSE fanoutQueue
        /\ UNCHANGED <<since, edgeGot, addressed, handledBy>>
    BY <1>3 DEF EndReplica
  <2>2. platformBus' \in EdgeReplicas \cup {NoReplica} /\ (fanoutQueue' # <<>> => platformBus' = platformBus)
    BY <2>1, <1>t DEF DeliveryTypes
  <2> QED BY <1>3, <2>1, <2>2, <1>t, DeliveryStays DEF DeliveryTypes
<1>4. ASSUME NEW g \in EdgeReplicas, NEW st \in {"closing", "closed"}, NEW c \in EdgeSockets,
             edgeSocket' = [d \in EdgeSockets |->
               IF d \in HeldBy(g) THEN [edgeSocket[d] EXCEPT !.state = st] ELSE edgeSocket[d]],
             edgeSocket'[c].state = "open"
      PROVE  edgeSocket'[c] = edgeSocket[c]
  <2>1. c \in HeldBy(g) => edgeSocket'[c].state = st
    BY <1>4, <1>t DEF EdgeTypes
  <2> QED BY <2>1, <1>4
<1>5. ASSUME NEW g \in EdgeReplicas, StopReplica(g) PROVE DeliveryInv'
  <2>1. \A c \in EdgeSockets : edgeSocket'[c].state = "open" => edgeSocket'[c] = edgeSocket[c]
    BY <1>4, <1>5 DEF StopReplica
  <2> QED BY <2>1, <1>3, <1>5 DEF StopReplica
<1>6. ASSUME NEW g \in EdgeReplicas, CrashReplica(g) PROVE DeliveryInv'
  <2>1. \A c \in EdgeSockets : edgeSocket'[c].state = "open" => edgeSocket'[c] = edgeSocket[c]
    BY <1>4, <1>6 DEF CrashReplica
  <2> QED BY <2>1, <1>3, <1>6 DEF CrashReplica
<1>7. ASSUME NEW g \in EdgeReplicas, ReplaceReplica(g) \/ ExecuteRedisCommand(g) PROVE DeliveryInv'
  BY <1>1, <1>7 DEF ReplaceReplica, ExecuteRedisCommand
<1>8. ASSUME NEW g \in EdgeReplicas, NEW c \in EdgeSockets, AcceptSocket(c, g) PROVE DeliveryInv'
  <2>1. /\ since' = [since EXCEPT ![c] = Len(addressed)] /\ \A d \in EdgeSockets : d # c => edgeSocket'[d] = edgeSocket[d]
        /\ UNCHANGED <<platformBus, fanoutQueue, edgeGot, addressed, handledBy>>
    BY <1>8, <1>t DEF AcceptSocket, EdgeTypes
  <2>2. Len(addressed) \in Nat
    BY <1>t DEF DeliveryTypes
  <2>3. /\ since' \in [EdgeSockets -> Nat]
        /\ \A d \in EdgeSockets : since'[d] = Len(addressed) \/ (edgeSocket'[d] = edgeSocket[d] /\ since'[d] = since[d])
    BY <2>1, <2>2, <1>t DEF DeliveryTypes
  <2> QED BY <2>1, <2>3, <1>t, DeliveryStays DEF DeliveryTypes
<1>9. ASSUME NEW c \in EdgeSockets, HandleRoomMessage(c) PROVE DeliveryInv'
  BY <1>1, <1>9 DEF HandleRoomMessage
<1>10. ASSUME NEW c \in EdgeSockets, PeerCloses(c) \/ HandleSocketClose(c) PROVE DeliveryInv'
  <2>1. \A d \in EdgeSockets : d # c => edgeSocket'[d] = edgeSocket[d]
    BY <1>10, <1>t DEF PeerCloses, HandleSocketClose, EdgeTypes
  <2>2. edgeSocket'[c].state # "open"
    BY <1>10, <1>t DEF PeerCloses, HandleSocketClose, EdgeTypes
  <2> QED BY <2>1, <2>2, <1>1, <1>10 DEF PeerCloses, HandleSocketClose
<1>11. ASSUME NEW u \in EdgeUsers, PresenceKeyExpires(u) PROVE DeliveryInv'
  BY <1>1, <1>11 DEF PresenceKeyExpires
<1>12. CASE UNCHANGED edgeVars
  BY <1>1, <1>12 DEF edgeVars, eventVars
<1> QED BY <1>2, <1>5, <1>6, <1>7, <1>8, <1>9, <1>10, <1>11, <1>12, PublishDelivers, HandleDelivers DEF EdgeGatewayNext

\* What the invariants say once nothing is on its way to Redis.
LEMMA EdgeInvMeans == SocketInv /\ PresenceInv /\ DeliveryInv => EdgeDelivers /\ EdgePresenceAgrees
<1> SUFFICES ASSUME SocketInv, PresenceInv, \A g \in EdgeReplicas : toRedis[g] = <<>>, NEW u \in EdgeUsers
             PROVE  /\ SocketsOf(u) # {} => u \in shownOnline \cup shadowed \cup outlived \cup abandoned
                    /\ u \in shownOnline => SocketsOf(u) # {} \/ u \in abandoned
  BY DEF DeliveryInv, EdgePresenceAgrees
<1>1. \A op, v : ~ Asks(op, v)
  <2>1. DOMAIN <<>> = {}
    OBVIOUS
  <2> QED BY <2>1 DEF Asks
<1>2. ASSUME NEW g \in EdgeReplicas, NEW c \in userSockets[g][u] PROVE c \in SocketsOf(u)
  BY <1>2 DEF SocketInv, EdgeTypes, OwnSocketsOnly, SocketsOf, Held
<1> QED BY <1>1, <1>2 DEF PresenceInv, ConnectedIsShown, ShownIsConnected

\* A socket gets the events of its user in their order and misses none handed on where
\* it is connected, and a user is shown online exactly while he has a socket, but for
\* the known exceptions (gateway.ts, presence-manager.ts).
THEOREM EdgeReachesItsUsers == EdgeGatewaySpec => [](EdgeDelivers /\ EdgePresenceAgrees)
<1>1. SocketInv /\ PresenceInv /\ DeliveryInv /\ [EdgeGatewayNext]_edgeVars => (SocketInv /\ PresenceInv /\ DeliveryInv)'
  BY EdgeNextInv, DeliveryNextInv
<1> QED BY <1>1, EdgeInvMeans, EdgeInitInv, DeliveryInitInv, PTL DEF EdgeGatewaySpec

-----------------------------------------------------------------------------
\* The parts of the model as a whole: a step of it is a step of a part or leaves the
\* part's variables alone.
RecordsSteps ==
  /\ [ChatMessagesNext]_chatVars
  /\ [ChatChannelsNext]_channelVars
  /\ [NotificationsNext]_noteVars
  /\ [CallSessionsNext]_callVars
  /\ [MediaSessionsNext]_mediaVars
  /\ [CallRecordingsNext]_recordingVars
  /\ [FileFoldersNext]_folderVars
  /\ [FileAccessNext]_accessVars
  /\ [SpatialLayersNext]_layerVars
  /\ [ModelRegistryNext]_registryVars
  /\ [RiskPredictionsNext]_predictionVars
  /\ [FieldWorkNext]_fieldVars
  /\ [GeneratedReportsNext]_generatedVars
  /\ [EdgeGatewayNext]_edgeVars

\* It says so of every step.
LEMMA StepsAreRecordsSteps == [MCNext]_allVars => RecordsSteps
<1>1. CASE UNCHANGED allVars
  BY <1>1 DEF allVars, RecordsSteps
<1>2. CASE /\ OthersWait
        /\ \/ part = "messages" /\ ChatMessagesNext
           \/ part = "channels" /\ ChatChannelsNext
           \/ part = "notes" /\ NotificationsNext
           \/ part = "calls" /\ CallSessionsNext
  BY <1>2 DEF OthersWait, Only, RecordsSteps
<1>3. CASE /\ OthersWait
        /\ \/ part = "media" /\ MediaSessionsNext
           \/ part = "recordings" /\ CallRecordingsNext
           \/ part = "folders" /\ FileFoldersNext
           \/ part = "access" /\ FileAccessNext
  BY <1>3 DEF OthersWait, Only, RecordsSteps
<1>4. CASE /\ OthersWait
        /\ \/ part = "layers" /\ SpatialLayersNext
           \/ part = "models" /\ ModelRegistryNext
           \/ part = "predictions" /\ RiskPredictionsNext
           \/ part = "forms" /\ FieldWorkNext
  BY <1>4 DEF OthersWait, Only, RecordsSteps
<1>5. CASE /\ OthersWait
        /\ \/ part = "generated" /\ GeneratedReportsNext
           \/ part = "edge" /\ EdgeGatewayNext
  BY <1>5 DEF OthersWait, Only, RecordsSteps
<1>6. CASE part \in {"search", "exports"} /\ OthersWait
  BY <1>6 DEF OthersWait, Only, RecordsSteps
<1> QED BY <1>1, <1>2, <1>3, <1>4, <1>5, <1>6 DEF MCNext

\* Messages, channels and notifications, whatever the constants: a reader misses no
\* message, a retried one is stored once, texts are kept until their deletion, channels
\* have their members, a finished task's is closed, emails are throttled, and the gateway
\* reaches the users it serves.
THEOREM RecordsKeepMessages == MCSpec => []MessagesAreKept
<1> DEFINE Inv == ChatInv /\ ChannelsInv /\ NotesInv /\ SocketInv /\ PresenceInv /\ DeliveryInv
<1>1. MCInit => Inv
  BY ChatInitInv, ChannelsInitInv, NotesInitInv, EdgeInitInv, DeliveryInitInv DEF MCInit
<1>2. Inv /\ [MCNext]_allVars => Inv'
  BY StepsAreRecordsSteps, ChatNextInv, ChannelsNextInv, NotesNextInv, EdgeNextInv, DeliveryNextInv
     DEF RecordsSteps
<1>3. Inv => MessagesAreKept
  BY ChannelsInvIsEnough, NotesInvIsEnough, EdgeInvMeans DEF ChatInv, MessagesAreKept
<1> HIDE DEF Inv
<1> QED BY <1>1, <1>2, <1>3, PTL DEF MCSpec

\* Calls, their media sessions and recordings, whatever the constants.
THEOREM RecordsKeepCalls == MCSpec => []CallsAreConsistent
<1> DEFINE Inv == CallsInv /\ MediaInv /\ RecordingInv
<1>1. MCInit => Inv
  BY CallsInitInv, MediaInitInv, RecordingInitInv DEF MCInit
<1>2. Inv /\ [MCNext]_allVars => Inv'
  BY StepsAreRecordsSteps, CallsNextInv, MediaNextInv, RecordingNextInv DEF RecordsSteps
<1>3. Inv => CallsAreConsistent
  BY MediaInvIsEnough DEF CallsInv, RecordingInv, CallsAreConsistent
<1> HIDE DEF Inv
<1> QED BY <1>1, <1>2, <1>3, PTL DEF MCSpec

\* Folders, their files and permissions, whatever the constants: the closure table is
\* the ancestry at every depth, classifications descend, files can be reached, and the
\* last decision counts.
THEOREM RecordsGuardFiles == MCSpec => []FilesAreGuarded
<1> DEFINE Inv == FoldersInv /\ AccessInv
<1>1. MCInit => Inv
  BY FoldersInitInv, AccessInitInv DEF MCInit
<1>2. Inv /\ [MCNext]_allVars => Inv'
  BY StepsAreRecordsSteps, FoldersNextInv, AccessNextInv DEF RecordsSteps
<1>3. Inv => FilesAreGuarded
  BY FoldersInvIsEnough, AccessInvIsEnough DEF FilesAreGuarded
<1> HIDE DEF Inv
<1> QED BY <1>1, <1>2, <1>3, PTL DEF MCSpec

\* What models produced is shown only after its approval, whatever the constants.
THEOREM RecordsShowApproved == MCSpec => []OutputWasApproved
<1> DEFINE Inv == LayersInv /\ RegistryInv /\ PredictionsInv
<1>1. MCInit => Inv
  BY LayersInitInv, RegistryInitInv, PredictionsInitInv DEF MCInit
<1>2. Inv /\ [MCNext]_allVars => Inv'
  BY StepsAreRecordsSteps, LayersNextInv, RegistryNextInv, PredictionsNextInv DEF RecordsSteps
<1>3. Inv => OutputWasApproved
  BY RegistryInvIsEnough, PredictionsInvIsEnough DEF LayersInv, OutputWasApproved
<1> HIDE DEF Inv
<1> QED BY <1>1, <1>2, <1>3, PTL DEF MCSpec

\* What was settled is not taken back, whatever the constants: an action property of
\* seven parts.
THEOREM RecordsDecisionsStand == MCSpec => DecisionsStand
<1> DEFINE Inv == LayersInv /\ RegistryInv /\ PredictionsInv /\ ChannelsInv /\ CallsInv /\ NotesInv /\ FieldInv
<1>1. MCInit => Inv
  BY LayersInitInv, RegistryInitInv, PredictionsInitInv, ChannelsInitInv, CallsInitInv, NotesInitInv, FieldInitInv DEF MCInit
<1>2. Inv /\ [MCNext]_allVars => Inv'
  BY StepsAreRecordsSteps, LayersNextInv, RegistryNextInv, PredictionsNextInv, ChannelsNextInv, CallsNextInv, NotesNextInv,
     FieldNextInv DEF RecordsSteps
<1>3. Inv /\ [MCNext]_allVars =>
        [\/ layer.review = "none" \/ layer'.review = layer.review
         \/ crossedLayer' \/ publishedDirectly']_layerVars
  BY StepsAreRecordsSteps, LayerStepsKeepReviews DEF RecordsSteps, ReviewStays
<1>4. Inv /\ [MCNext]_allVars =>
        [\A p \in Predictions : prediction[p] \in {"rejected", "published"} => prediction'[p] = prediction[p] \/ mixed']_predictionVars
  BY StepsAreRecordsSteps, PredictionsNextInv DEF RecordsSteps, DecisionsStay
<1>5. Inv /\ [MCNext]_allVars =>
        [\A c \in RegistryCalls :
           registryCall[c].pc = "restoring" /\ registryCall'[c].pc = "idle" /\ registryCrashes' = registryCrashes
             => versions[registryCall[c].v] = "staging" \/ overlapped']_registryVars
  BY StepsAreRecordsSteps, RegistryStepsRestoreStaged DEF RecordsSteps, RestoresStaged
<1>6. Inv /\ [MCNext]_allVars =>
        [\A k \in DOMAIN member : member[k].lastReadSequence <= member'[k].lastReadSequence \/ k \in restored']_channelVars
  BY StepsAreRecordsSteps, ChannelStepsKeepReceipts DEF RecordsSteps, ReceiptsStand
<1>7. Inv /\ [MCNext]_allVars =>
        [\A u \in CallUsers : participant[u].status = "left" /\ participant'[u].status = "joined" =>
           u \in outdatedRows' \/ \E c \in CallOps : callOp[c].pc = "join" /\ callOp'[c] = CallOpIdle]_callVars
  BY StepsAreRecordsSteps, CallStepsKeepLeft DEF RecordsSteps
<1>8. Inv /\ [MCNext]_allVars =>
        [telegram = "revoked" /\ telegram' # "revoked" => (linkToken /\ UNCHANGED dispatch) \/ overtakenLink']_noteVars
  BY StepsAreRecordsSteps, NoteStepsKeepRevoked DEF RecordsSteps
<1>9. Inv /\ [MCNext]_allVars =>
        [/\ withdrawnAt \notin {NotDeployed, 0} /\ ~overlapping' => withdrawnAt' = withdrawnAt
         /\ submission' # <<>> => form' = "published"]_fieldVars
  BY StepsAreRecordsSteps, FieldStepsKeepWithdrawal DEF RecordsSteps
<1> HIDE DEF Inv
<1> QED BY <1>1, <1>2, <1>3, <1>4, <1>5, <1>6, <1>7, <1>8, <1>9, PTL
        DEF MCSpec, DecisionsStand, ReviewIsFinal, DecisionStands, RestoredWasStaged, ReceiptsAdvance, LeftStaysLeft,
            RevokedStaysRevoked, WithdrawalStands

=============================================================================
