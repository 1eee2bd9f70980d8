---------------------------- MODULE SearchIndex -----------------------------
(***************************************************************************)
(* The search index and what keeps it in step with the database            *)
(* (src/apps/backend/src/modules/search: search-indexing.listener.ts,      *)
(* search-index.service.ts, search-maintenance.service.ts).                *)
(*                                                                         *)
(* Two entries are followed: a record (a document or a task), which every  *)
(* handler loads again before it writes it, and a chat message, which is   *)
(* indexed from the event.  Versions count the changes of the record and   *)
(* the message; an entry holds the version that was written, 0 is none.    *)
(*                                                                         *)
(* Why an entry may be behind: deduped, the inbox took a change for a      *)
(* duplicate because its payload had been handled before (an update event  *)
(* names only the record and the actor); failed, OpenSearch refused a      *)
(* write, which is logged; overtaken, a handler wrote what it had read     *)
(* before a later change.  A reindex without any of these makes up for     *)
(* them.                                                                   *)
(***************************************************************************)
EXTENDS Naturals, FiniteSets

CONSTANTS
  SearchHandlers,    \* handlers that run at the same time
  ChangePayloads,    \* payloads of change events
  MaxChanges,        \* bound: versions of the record and of the message
  MaxReindexes       \* bound: calls of reindex

ASSUME SearchIndexAssumption == MaxChanges \in Nat \ {0} /\ MaxReindexes \in Nat

VARIABLES
  recordVersion,   \* version in the database
  chatMessage,     \* version of the message; deleted
  entry,           \* record and message entries of the index
  handler,         \* handler -> what it does
  handled,         \* payloads that the inbox has claimed
  reindexes,
  behind, messageBehind   \* why the entries may not be right

searchVars == <<recordVersion, chatMessage, entry, handler, handled, reindexes, behind, messageBehind>>

Reasons == {"deduped", "failed", "overtaken"}
HandlerOps == {"idle", "refresh", "write", "create", "edit", "delete", "reindexWrite"}
HandlerStates == [op: HandlerOps, copy: 0..MaxChanges, body: 0..MaxChanges, stale: BOOLEAN]
IdleHandler == [op |-> "idle", copy |-> 0, body |-> 0, stale |-> FALSE]

SearchIndexTypeOK ==
  /\ recordVersion \in 1..MaxChanges
  /\ chatMessage \in [version: 0..MaxChanges, deleted: BOOLEAN]
  /\ entry \in [record: 0..MaxChanges, message: 0..MaxChanges]
  /\ entry.record <= recordVersion /\ entry.message <= chatMessage.version
  /\ handler \in [SearchHandlers -> HandlerStates]
  /\ handled \subseteq ChangePayloads
  /\ reindexes \in 0..MaxReindexes
  /\ behind \subseteq Reasons /\ messageBehind \subseteq Reasons

SearchIndexInit ==
  /\ recordVersion = 1 /\ entry = [record |-> 1, message |-> 0]
  /\ chatMessage = [version |-> 0, deleted |-> FALSE]
  /\ handler = [h \in SearchHandlers |-> IdleHandler]
  /\ handled = {} /\ reindexes = 0
  /\ behind = {} /\ messageBehind = {}

\* Handlers that read the record (or the message) before now hold old text.
Outdated(ops) == [h \in SearchHandlers |-> [handler[h] EXCEPT !.stale = @ \/ handler[h].op \in ops]]

-----------------------------------------------------------------------------
\* A change of the record and its event; executeOnce lets a payload through once.
ChangeIsNew(p) == p \notin handled

Change(h, p) ==
  /\ recordVersion < MaxChanges /\ handler[h].op = "idle"
  /\ recordVersion' = recordVersion + 1
  /\ handler' = IF ChangeIsNew(p)
                  THEN [Outdated({"reindexWrite"}) EXCEPT ![h] = [IdleHandler EXCEPT !.op = "refresh"]]
                  ELSE Outdated({"reindexWrite"})
  /\ handled' = handled \cup {p}
  /\ behind' = IF ChangeIsNew(p) THEN behind ELSE behind \cup {"deduped"}
  /\ UNCHANGED <<chatMessage, entry, reindexes, messageBehind>>

RefreshAhead(h) ==
  /\ handler[h].op = "refresh"
  /\ handler' = [handler EXCEPT ![h].op = "write", ![h].copy = recordVersion + 1]
  /\ UNCHANGED <<recordVersion, chatMessage, entry, handled, reindexes, behind, messageBehind>>

\* handleDocumentChange, handleTaskChange: load the record as it is now ...
Refresh(h) ==
  /\ handler[h].op = "refresh"
  /\ handler' = [handler EXCEPT ![h].op = "write", ![h].copy = recordVersion]
  /\ UNCHANGED <<recordVersion, chatMessage, entry, handled, reindexes, behind, messageBehind>>

\* What a write of the record by h adds to the reasons: index() logs an error.
RecordReasons(h, ok) ==
  {r \in Reasons : (r = "failed" /\ ~ok) \/ (r = "overtaken" /\ ok /\ handler[h].copy < entry.record)}

\* ... and write it.
WriteRecord(h) ==
  /\ handler[h].op = "write"
  /\ \E ok \in BOOLEAN :
       /\ entry' = IF ok THEN [entry EXCEPT !.record = handler[h].copy] ELSE entry
       /\ behind' = behind \cup RecordReasons(h, ok)
  /\ handler' = [handler EXCEPT ![h] = IdleHandler]
  /\ UNCHANGED <<recordVersion, chatMessage, handled, reindexes, messageBehind>>

-----------------------------------------------------------------------------
\* Message events: the handler of the creation indexes the body of the event,
\* those of an edit and of a deletion remove the entry.
MessageEvent(h, op) ==
  /\ handler[h].op = "idle" /\ ~chatMessage.deleted
  /\ CASE op = "create" -> chatMessage.version = 0 /\ chatMessage' = [chatMessage EXCEPT !.version = 1]
       [] op = "edit"   -> chatMessage.version \in 1..(MaxChanges - 1) /\ chatMessage' = [chatMessage EXCEPT !.version = @ + 1]
       [] op = "delete" -> chatMessage.version > 0 /\ chatMessage' = [chatMessage EXCEPT !.deleted = TRUE]
  /\ handler' = [Outdated({"create", "reindexWrite"}) EXCEPT
                   ![h] = [IdleHandler EXCEPT !.op = op, !.body = chatMessage'.version]]
  /\ UNCHANGED <<recordVersion, entry, handled, reindexes, behind, messageBehind>>

\* An old text is written when the handler that withdraws it is already done.
MessageReasons(h, ok) ==
  {r \in Reasons : \/ r = "failed" /\ ~ok
                   \/ r = "overtaken" /\ handler[h].stale
                        /\ \A g \in SearchHandlers \ {h} : handler[g].op \notin {"edit", "delete"}}

\* What the handler writes: nothing, after an edit, until the next reindex.
MessageEntryKept(h) == IF handler[h].op \in {"create", "edit"} THEN handler[h].body ELSE entry.message
MessageEntry(h) == IF handler[h].op = "create" THEN handler[h].body ELSE 0

HandleMessage(h) ==
  /\ handler[h].op \in {"create", "edit", "delete"}
  /\ \E ok \in BOOLEAN :
       /\ entry' = IF ok THEN [entry EXCEPT !.message = MessageEntry(h)] ELSE entry
       /\ messageBehind' = messageBehind \cup MessageReasons(h, ok)
  /\ handler' = [handler EXCEPT ![h] = IdleHandler]
  /\ UNCHANGED <<recordVersion, chatMessage, handled, reindexes, behind>>

-----------------------------------------------------------------------------
\* reindex: a page is read and written row by row; deleted messages are not
\* in it, and their entries are left as they are.
ReindexedMessages == IF chatMessage.deleted THEN 0 ELSE chatMessage.version

Reindex(h) ==
  /\ handler[h].op = "idle" /\ reindexes < MaxReindexes
  /\ reindexes' = reindexes + 1
  /\ handler' = [handler EXCEPT ![h] =
       [op |-> "reindexWrite", copy |-> recordVersion, body |-> ReindexedMessages, stale |-> FALSE]]
  /\ UNCHANGED <<recordVersion, chatMessage, entry, handled, behind, messageBehind>>

Alone(h) == \A g \in SearchHandlers \ {h} : handler[g].op = "idle"

ReindexWrite(h) ==
  /\ handler[h].op = "reindexWrite"
  /\ \E ok \in BOOLEAN :
       LET repaired == ok /\ ~handler[h].stale /\ Alone(h)
       IN  /\ entry' = IF ok THEN [record |-> handler[h].copy,
                                   message |-> IF handler[h].body = 0 THEN entry.message ELSE handler[h].body]
                             ELSE entry
           /\ behind' = IF repaired THEN {} ELSE behind \cup RecordReasons(h, ok)
           /\ messageBehind' = IF repaired /\ ~chatMessage.deleted THEN {} ELSE messageBehind \cup MessageReasons(h, ok)
  /\ handler' = [handler EXCEPT ![h] = IdleHandler]
  /\ UNCHANGED <<recordVersion, chatMessage, handled, reindexes>>

SearchIndexNext ==
  \E h \in SearchHandlers :
    \/ \E p \in ChangePayloads : Change(h, p)
    \/ \E op \in {"create", "edit", "delete"} : MessageEvent(h, op)
    \/ Refresh(h) \/ WriteRecord(h) \/ HandleMessage(h) \/ Reindex(h) \/ ReindexWrite(h)

SearchIndexSpec == SearchIndexInit /\ [][SearchIndexNext]_searchVars

-----------------------------------------------------------------------------
\* Once its handlers are done, the entry of a record is its newest version
\* (search-indexing.listener.ts:61-104), unless a change was taken for a
\* duplicate, a write failed or a handler was overtaken since the last clean
\* reindex (search-maintenance.service.ts:75-113).
RecordIsFound ==
  behind = {} /\ (\A h \in SearchHandlers : handler[h].op \notin {"refresh", "write", "reindexWrite"})
    => entry.record = recordVersion

\* A deleted message is not found (search-indexing.listener.ts:194-197), and
\* the text before an edit is not found either, under the same reservations.
WithdrawnTextIsNotFound ==
  messageBehind = {} /\ (\A h \in SearchHandlers : handler[h].op \notin {"create", "edit", "delete", "reindexWrite"})
    => /\ chatMessage.deleted => entry.message = 0
       /\ entry.message \in {0, chatMessage.version}
=============================================================================
