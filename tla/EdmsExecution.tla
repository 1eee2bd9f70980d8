--------------------------- MODULE EdmsExecution ----------------------------
(***************************************************************************)
(* The execution of a document: the resolution's executor assignments      *)
(* (src/apps/backend/src/modules/edms/services/resolution.service.ts), the *)
(* tasks made from them                                                    *)
(* (src/apps/backend/src/modules/tasks/listeners/tasks-edms.listener.ts)   *)
(* and the way back                                                        *)
(* (src/apps/backend/src/modules/edms/listeners/edms-task-sync.listener.ts)*)
(*                                                                         *)
(* Outbox, bus and inbox are in EventDelivery: here the event of the       *)
(* resolution is delivered once, and again after the listener has failed.  *)
(* The other events are emitted in process and lost with it.  Every save   *)
(* of an assignment writes the whole copy back, link included.  Deadlines  *)
(* are data here; the cron job may find any unfinished assignment late.    *)
(* The second part is about the deadlines themselves.                      *)
(*                                                                         *)
(* noticeDue holds the notice of completion that the call which finished   *)
(* the last primary assignment owes.                                       *)
(***************************************************************************)
EXTENDS Naturals, Lifecycles

CONSTANTS
  Executors,      \* executor assignments of the resolution
  RoleOf,         \* assignment -> primary or co_executor
  ExecutionTasks, \* tasks that may be created
  ExecutionCalls, \* concurrent service calls, cron runs and listeners
  NoLink,         \* linkedTaskId is NULL
  MaxExecutionCalls, \* bound: service calls and cron runs
  MaxDeliveries   \* bound: deliveries of edms.resolution_issued

ASSUME EdmsExecutionAssumption ==
  /\ RoleOf \in [Executors -> {"primary", "co_executor"}]
  /\ NoLink \notin ExecutionTasks
  /\ MaxExecutionCalls \in Nat /\ MaxDeliveries \in Nat

VARIABLES
  document,      \* status of the document
  assignment,    \* executor_assignments
  docTask,       \* document-generated tasks: id -> sourceAssignmentId
  bus,           \* in-process events on their way
  issue,         \* issueResolution: assignments still to be saved; then the event
  creation,      \* the listener that creates tasks: assignments still to go
  executionCall, \* call -> what it does next
  noticeDue,     \* "document", "event": the notice that is due
  noticed,       \* notices given
  ever,          \* assignments that have been completed
  executed       \* calls so far

executionVars ==
  <<document, assignment, docTask, bus, issue, creation, executionCall, noticeDue, noticed, ever, executed>>

AssignmentStatuses ==
  {"absent", "assigned", "accepted", "in_progress", "completed", "overdue", "returned", "cancelled"}

AssignmentRow == [status: AssignmentStatuses, link: ExecutionTasks \cup {NoLink}]

Notices == {"document", "event"}

ExecutionIdle == [pc |-> "idle"]

\* pc: save a copy; check the document's assignments after a completion, for a
\* notice of the given kind; complete the document; link a task; mark overdue.
ExecutionBusy ==
  [pc: {"save"}, who: Executors, row: AssignmentRow, then: Notices \cup {"nothing"}]
  \cup [pc: {"check"}, then: Notices]
  \cup [pc: {"complete"}]
  \cup [pc: {"link"}, who: Executors, task: ExecutionTasks]
  \cup [pc: {"mark"}, batch: SUBSET Executors]

Event == [kind: {"created"}, who: Executors, task: ExecutionTasks]
         \cup [kind: {"completed"}, task: ExecutionTasks]

EdmsExecutionTypeOK ==
  /\ document \in DocumentStatuses
  /\ assignment \in [Executors -> AssignmentRow]
  /\ docTask \in [ExecutionTasks -> Executors \cup {NoLink}]
  /\ bus \subseteq Event
  /\ issue \in [todo: SUBSET Executors, published: BOOLEAN]
  /\ creation \in [todo: SUBSET Executors, state: {"waiting", "running", "failed", "done"}, deliveries: 0..MaxDeliveries]
  /\ executionCall \in [ExecutionCalls -> ExecutionBusy \cup {ExecutionIdle}]
  /\ noticeDue \subseteq Notices
  /\ noticed \subseteq Notices
  /\ ever \subseteq Executors
  /\ executed \in 0..MaxExecutionCalls

EdmsExecutionInit ==
  /\ document = "in_workflow"
  /\ assignment = [e \in Executors |-> [status |-> "absent", link |-> NoLink]]
  /\ docTask = [t \in ExecutionTasks |-> NoLink]
  /\ bus = {}
  /\ issue = [todo |-> Executors, published |-> FALSE]
  /\ creation = [todo |-> {}, state |-> "waiting", deliveries |-> 0]
  /\ executionCall = [c \in ExecutionCalls |-> ExecutionIdle]
  /\ noticeDue = {}
  /\ noticed = {}
  /\ ever = {}
  /\ executed = 0

-----------------------------------------------------------------------------
\* All primary assignments that are not cancelled are completed, and there are some.
AllComplete(rows) ==
  LET active == {e \in Executors : RoleOf[e] = "primary" /\ rows[e].status \notin {"absent", "cancelled"}}
  IN  active # {} /\ \A e \in active : rows[e].status = "completed"

\* A notice is due as long as what it says is true.
StillDue(rows) == IF AllComplete(rows) THEN noticeDue ELSE {}

\* issueResolution saves the assignments one by one, then publishes the event.
IssueAssignment(e) ==
  /\ document \notin {"draft", "cancelled", "archived"}
  /\ e \in issue.todo
  /\ issue' = [issue EXCEPT !.todo = @ \ {e}]
  /\ assignment' = [assignment EXCEPT ![e].status = "assigned"]
  /\ noticeDue' = StillDue(assignment')
  /\ UNCHANGED <<document, docTask, bus, creation, executionCall, noticed, ever, executed>>

PublishResolution ==
  /\ issue.todo = {} /\ ~issue.published
  /\ issue' = [issue EXCEPT !.published = TRUE]
  /\ UNCHANGED <<document, assignment, docTask, bus, creation, executionCall, noticeDue, noticed, ever, executed>>

\* executeOnce runs the handler on the first delivery and on one after a failure.
DeliverResolution ==
  /\ issue.published
  /\ creation.state \in {"waiting", "failed"}
  /\ creation.deliveries < MaxDeliveries
  /\ creation' = [todo |-> Executors, state |-> "running", deliveries |-> creation.deliveries + 1]
  /\ UNCHANGED <<document, assignment, docTask, bus, issue, executionCall, noticeDue, noticed, ever, executed>>

\* createTaskFromAssignment: a task with its records, and the event.
CreateDocumentTask(e, t) ==
  /\ creation.state = "running"
  /\ e \in creation.todo
  /\ docTask[t] = NoLink
  /\ docTask' = [docTask EXCEPT ![t] = e]
  /\ bus' = bus \cup {[kind |-> "created", who |-> e, task |-> t]}
  /\ creation' = [creation EXCEPT !.todo = @ \ {e}, !.state = IF creation.todo = {e} THEN "done" ELSE "running"]
  /\ UNCHANGED <<document, assignment, issue, executionCall, noticeDue, noticed, ever, executed>>

\* A query of the handler fails between two tasks, or between the task and the
\* rest of its records: the inbox row becomes failed.
FailCreation(t) ==
  /\ creation.state = "running"
  /\ creation' = [creation EXCEPT !.state = "failed"]
  /\ \E e \in creation.todo :
       docTask' = IF docTask[t] = NoLink THEN [docTask EXCEPT ![t] = e] ELSE docTask
  /\ UNCHANGED <<document, assignment, bus, issue, executionCall, noticeDue, noticed, ever, executed>>

-----------------------------------------------------------------------------
Run(c, r) == executionCall' = [executionCall EXCEPT ![c] = r]

StartCall(c, r) ==
  /\ executionCall[c] = ExecutionIdle
  /\ executed < MaxExecutionCalls
  /\ executed' = executed + 1
  /\ Run(c, r)
  /\ UNCHANGED <<document, assignment, docTask, bus, issue, creation, noticeDue, noticed, ever>>

SaveCopy(e, status, then) ==
  [pc |-> "save", who |-> e, row |-> [assignment[e] EXCEPT !.status = status], then |-> then]

\* acceptAssignment, markAssignmentInProgress, and approveDeadlineExtension,
\* which saves the copy with the new deadline.
ProgressAssignment(c, e) ==
  \E next \in {<<"assigned", "accepted">>, <<"accepted", "in_progress">>} :
    /\ assignment[e].status = next[1]
    /\ StartCall(c, SaveCopy(e, next[2], "nothing"))

ExtendAssignment(c, e) ==
  /\ assignment[e].status # "absent"
  /\ StartCall(c, SaveCopy(e, assignment[e].status, "nothing"))

\* fileCompletionReport.
FileReport(c, e) ==
  /\ assignment[e].status \notin {"absent", "completed", "cancelled", "returned"}
  /\ document \notin {"draft", "cancelled", "archived"}
  /\ StartCall(c, SaveCopy(e, "completed", "event"))

\* markOverdueAssignments loads a batch and updates the status of its rows.
LoadLate(c, batch) ==
  /\ batch # {}
  /\ \A e \in batch : assignment[e].status \in {"assigned", "accepted", "in_progress"}
  /\ StartCall(c, [pc |-> "mark", batch |-> batch])

Late(row) == [row EXCEPT !.status = "overdue"]

MarkLate(c) ==
  /\ executionCall[c].pc = "mark"
  /\ assignment' = [e \in Executors |->
       IF e \in executionCall[c].batch THEN Late(assignment[e]) ELSE assignment[e]]
  /\ noticeDue' = StillDue(assignment')
  /\ Run(c, ExecutionIdle)
  /\ UNCHANGED <<document, docTask, bus, issue, creation, noticed, ever, executed>>

SaveAssignment(c) ==
  /\ executionCall[c].pc = "save"
  /\ LET call == executionCall[c]
     IN  /\ assignment' = [assignment EXCEPT ![call.who] = call.row]
         /\ noticeDue' = StillDue(assignment')
              \cup (IF call.then # "nothing" /\ AllComplete(assignment') THEN {call.then} ELSE {})
         /\ Run(c, IF call.then = "nothing" THEN ExecutionIdle ELSE [pc |-> "check", then |-> call.then])
  /\ ever' = ever \cup {e \in Executors : assignment'[e].status = "completed"}
  /\ UNCHANGED <<document, docTask, bus, issue, creation, noticed, executed>>

\* checkAllAssignmentsComplete emits an event; onDocumentTaskCompleted goes on
\* to complete the document, whatever has become of it.
CheckAssignments(c) ==
  /\ executionCall[c].pc = "check"
  /\ LET given == IF AllComplete(assignment) /\ executionCall[c].then = "event" THEN {"event"} ELSE {}
     IN  /\ noticed' = noticed \cup given
         /\ noticeDue' = noticeDue \ given
  /\ Run(c, IF AllComplete(assignment) /\ executionCall[c].then = "document"
              THEN [pc |-> "complete"] ELSE ExecutionIdle)
  /\ UNCHANGED <<document, assignment, docTask, bus, issue, creation, ever, executed>>

CompleteDocument(c) ==
  /\ executionCall[c].pc = "complete"
  /\ document' = "completed"
  /\ noticed' = noticed \cup {"document"}
  /\ noticeDue' = noticeDue \ {"document"}
  /\ Run(c, ExecutionIdle)
  /\ UNCHANGED <<assignment, docTask, bus, issue, creation, ever, executed>>

-----------------------------------------------------------------------------
\* onTaskStatusChanged announces that a task is completed or verified; a task
\* that is returned (Subtasks) may be completed any number of times.
AnnounceCompletion(t) ==
  /\ docTask[t] # NoLink
  /\ bus' = bus \cup {[kind |-> "completed", task |-> t]}
  /\ UNCHANGED <<document, assignment, docTask, issue, creation, executionCall, noticeDue, noticed, ever, executed>>

Take(c, m, r) ==
  /\ executionCall[c] = ExecutionIdle
  /\ m \in bus
  /\ bus' = bus \ {m}
  /\ Run(c, r)
  /\ UNCHANGED <<document, assignment, docTask, issue, creation, noticeDue, noticed, ever, executed>>

\* onEdmsTaskCreated: linkTask keeps the first link it sees.
OnTaskCreated(c, m) ==
  /\ m.kind = "created"
  /\ Take(c, m, IF assignment[m.who].link = NoLink
                  THEN [pc |-> "link", who |-> m.who, task |-> m.task] ELSE ExecutionIdle)

StoreLink(c) ==
  /\ executionCall[c].pc = "link"
  /\ assignment' = [assignment EXCEPT ![executionCall[c].who].link = executionCall[c].task]
  /\ Run(c, ExecutionIdle)
  /\ UNCHANGED <<document, docTask, bus, issue, creation, noticeDue, noticed, ever, executed>>

\* onDocumentTaskCompleted: the assignment with this link, of a document in
\* workflow, unless it is finished.
Linked(t) == {e \in Executors : assignment[e].link = t}

OnTaskCompleted(c, m) ==
  /\ m.kind = "completed"
  /\ IF /\ Linked(m.task) # {} /\ document = "in_workflow"
        /\ \A e \in Linked(m.task) : assignment[e].status \notin {"completed", "cancelled", "returned"}
       THEN \E e \in Linked(m.task) : Take(c, m, SaveCopy(e, "completed", "document"))
       ELSE Take(c, m, ExecutionIdle)

\* The call is cut short, and what it owes is lost.
AbortExecution(c) ==
  /\ executionCall[c] # ExecutionIdle
  /\ noticeDue' = CASE executionCall[c].pc = "check" -> noticeDue \ {executionCall[c].then}
                    [] executionCall[c].pc = "complete" -> noticeDue \ {"document"}
                    [] OTHER -> noticeDue
  /\ Run(c, ExecutionIdle)
  /\ UNCHANGED <<document, assignment, docTask, bus, issue, creation, noticed, ever, executed>>

\* The document moves on by other hands (EdmsDocuments, EdmsWorkflow).
MoveDocument(s) ==
  /\ s \in Transitions(document)
  /\ executed < MaxExecutionCalls
  /\ executed' = executed + 1
  /\ document' = s
  /\ UNCHANGED <<assignment, docTask, bus, issue, creation, executionCall, noticeDue, noticed, ever>>

EdmsExecutionNext ==
  \/ \E e \in Executors : IssueAssignment(e)
  \/ PublishResolution \/ DeliverResolution
  \/ \E t \in ExecutionTasks :
       \/ \E e \in Executors : CreateDocumentTask(e, t)
       \/ FailCreation(t) \/ AnnounceCompletion(t)
  \/ \E c \in ExecutionCalls :
       \/ \E e \in Executors : ProgressAssignment(c, e) \/ ExtendAssignment(c, e) \/ FileReport(c, e)
       \/ \E b \in SUBSET Executors : LoadLate(c, b)
       \/ MarkLate(c) \/ SaveAssignment(c) \/ CheckAssignments(c) \/ CompleteDocument(c)
       \/ StoreLink(c) \/ AbortExecution(c)
       \/ \E m \in bus : OnTaskCreated(c, m) \/ OnTaskCompleted(c, m)
  \/ \E s \in DocumentStatuses : MoveDocument(s)

EdmsExecutionSpec == EdmsExecutionInit /\ [][EdmsExecutionNext]_executionVars

-----------------------------------------------------------------------------
\* When the last primary assignment is completed, by a report or through its
\* task, the completion does not go unnoticed although each call saves its own
\* assignment first and reads the others later (resolution.service.ts:320-341,
\* edms-task-sync.listener.ts:79-107): while the notice is due, a call is on its
\* way to give it.
LastCompletionIsNoticed ==
  \A k \in noticeDue : \E c \in ExecutionCalls :
    \/ executionCall[c].pc = "check" /\ executionCall[c].then = k
    \/ executionCall[c].pc = "complete" /\ k = "document"

\* The document is completed through tasks only after every primary assignment
\* of the resolution has been completed once, although the assignments are
\* stored one by one and an early one may be finished before the last is there
\* (resolution.service.ts:103-160): tasks come from an event that follows them.
AutoCompletionAfterAll ==
  "document" \in noticed => \A e \in Executors : RoleOf[e] = "primary" => e \in ever

-----------------------------------------------------------------------------
(***************************************************************************)
(* The deadlines of one primary assignment and of a sub-assignment made    *)
(* from it: createSubAssignment and the requests for extensions, which the  *)
(* resolution's author or a superior approves or denies.                   *)
(*                                                                         *)
(* Every call loads a row, checks it, and saves its own copy later, so a   *)
(* late save may bring an old deadline back and two reviewers may decide   *)
(* one request differently. The holder's other saves (above) are one call. *)
(***************************************************************************)

CONSTANTS
  TermCalls,     \* concurrent service calls
  Extensions,    \* requests that may be filed
  MaxTerm,       \* bound: deadlines, in days
  MaxTermCalls   \* bound: service calls

ASSUME TermAssumption == MaxTerm \in Nat /\ MaxTermCalls \in Nat

Holders == {"primary", "sub"}

VARIABLES
  term,        \* holder -> state and deadline of the assignment; 0: NULL
  extensions,   \* edms.deadline_extension_requests
  termCall,    \* call -> what it does next
  termCalls,   \* calls so far
  origin,      \* holder -> the deadline it was given at first
  granted      \* requests that were ever stored as approved

termVars == <<term, extensions, termCall, termCalls, origin, granted>>

Terms == [state: {"absent", "open", "finished"}, deadline: 0..MaxTerm]

ExtensionRequests ==
  [status: {"absent", "pending", "approved", "denied"}, who: Holders, from: 0..MaxTerm, to: 0..MaxTerm]

TermIdle == [pc |-> "idle"]

\* pc: look for a pending request and file one; store a decision; store a copy
\* of the assignment; insert the sub-assignment.
TermBusy ==
  [pc: {"seek", "file"}, who: Holders, from: 0..MaxTerm, to: 0..MaxTerm]
  \cup [pc: {"decide"}, request: Extensions, verdict: {"approved", "denied"}, row: Terms]
  \cup [pc: {"store"}, who: Holders, row: Terms]
  \cup [pc: {"insert"}, deadline: 0..MaxTerm]

ExecutionTermsTypeOK ==
  /\ term \in [Holders -> Terms]
  /\ extensions \in [Extensions -> ExtensionRequests]
  /\ termCall \in [TermCalls -> TermBusy \cup {TermIdle}]
  /\ termCalls \in 0..MaxTermCalls
  /\ origin \in [Holders -> 0..MaxTerm]
  /\ granted \subseteq Extensions

ExecutionTermsInit ==
  /\ \E d \in 0..MaxTerm : term = [h \in Holders |->
       IF h = "primary" THEN [state |-> "open", deadline |-> d] ELSE [state |-> "absent", deadline |-> 0]]
  /\ extensions = [x \in Extensions |-> [status |-> "absent", who |-> "primary", from |-> 0, to |-> 0]]
  /\ termCall = [c \in TermCalls |-> TermIdle]
  /\ termCalls = 0
  /\ origin = [h \in Holders |-> term[h].deadline]
  /\ granted = {}

TermGo(c, r) == termCall' = [termCall EXCEPT ![c] = r]

StartTermCall(c, r) ==
  /\ termCall[c] = TermIdle
  /\ termCalls < MaxTermCalls
  /\ termCalls' = termCalls + 1
  /\ TermGo(c, r)
  /\ UNCHANGED <<term, extensions, origin, granted>>

\* requestDeadlineExtension: by the holder of an unfinished assignment that has a
\* deadline, to a later one ...
RequestDeadlineExtension(c, h, to) ==
  /\ term[h].state = "open" /\ term[h].deadline # 0
  /\ to > term[h].deadline
  /\ StartTermCall(c, [pc |-> "seek", who |-> h, from |-> term[h].deadline, to |-> to])

\* ... while none is pending, in a query of its own ...
PendingExtension(h) == \E x \in Extensions : extensions[x].status = "pending" /\ extensions[x].who = h

SeekPendingExtension(c) ==
  /\ termCall[c].pc = "seek"
  /\ TermGo(c, IF PendingExtension(termCall[c].who) THEN TermIdle ELSE [termCall[c] EXCEPT !.pc = "file"])
  /\ UNCHANGED <<term, extensions, termCalls, origin, granted>>

\* ... and then stored (chk_extension_deadline holds by the check above).
StoreExtension(c, x) ==
  /\ termCall[c].pc = "file" /\ extensions[x].status = "absent"
  /\ LET call == termCall[c]
     IN  extensions' = [extensions EXCEPT ![x] =
           [status |-> "pending", who |-> call.who, from |-> call.from, to |-> call.to]]
  /\ TermGo(c, TermIdle)
  /\ UNCHANGED <<term, termCalls, origin, granted>>

\* approveDeadlineExtension and denyDeadlineExtension load a pending request and
\* its assignment ...
ReviewDeadlineExtension(c, x, verdict) ==
  /\ extensions[x].status = "pending"
  /\ StartTermCall(c, [pc |-> "decide", request |-> x, verdict |-> verdict, row |-> term[extensions[x].who]])

\* ... store the decision, and after an approval the copy with the new deadline.
Extended(c) ==
  LET request == extensions[termCall[c].request]
  IN  [pc |-> "store", who |-> request.who, row |-> [termCall[c].row EXCEPT !.deadline = request.to]]

StoreExtensionDecision(c) ==
  /\ termCall[c].pc = "decide"
  /\ LET call == termCall[c]
     IN  /\ extensions' = [extensions EXCEPT ![call.request].status = call.verdict]
         /\ granted' = IF call.verdict = "approved" THEN granted \cup {call.request} ELSE granted
         /\ TermGo(c, IF call.verdict = "approved" THEN Extended(c) ELSE TermIdle)
  /\ UNCHANGED <<term, termCalls, origin>>

\* A save of the whole copy: the new deadline, a step of the work, a report.
StoreTerm(c) ==
  /\ termCall[c].pc = "store"
  /\ term' = [term EXCEPT ![termCall[c].who] = termCall[c].row]
  /\ TermGo(c, TermIdle)
  /\ UNCHANGED <<extensions, termCalls, origin, granted>>

WorkOnTerm(c, h, state) ==
  /\ term[h].state = "open" /\ state \in {"open", "finished"}
  /\ StartTermCall(c, [pc |-> "store", who |-> h, row |-> [term[h] EXCEPT !.state = state]])

\* createSubAssignment, from an unfinished primary assignment only: a deadline of
\* its own, or the parent's.  One sub-assignment is followed.
CreateSubAssignment(c, given) ==
  /\ term["primary"].state = "open"
  /\ StartTermCall(c, [pc |-> "insert", deadline |-> IF given = 0 THEN term["primary"].deadline ELSE given])

InsertSubAssignment(c) ==
  /\ termCall[c].pc = "insert" /\ term["sub"].state = "absent"
  /\ term' = [term EXCEPT !["sub"] = [state |-> "open", deadline |-> termCall[c].deadline]]
  /\ origin' = [origin EXCEPT !["sub"] = termCall[c].deadline]
  /\ TermGo(c, TermIdle)
  /\ UNCHANGED <<extensions, termCalls, granted>>

\* The call is cut short: what it had not stored stays undone.
AbortTermCall(c) ==
  /\ termCall[c] # TermIdle
  /\ TermGo(c, TermIdle)
  /\ UNCHANGED <<term, extensions, termCalls, origin, granted>>

ExecutionTermsNext ==
  \E c \in TermCalls :
    \/ \E h \in Holders, to \in 1..MaxTerm : RequestDeadlineExtension(c, h, to)
    \/ SeekPendingExtension(c)
    \/ \E x \in Extensions : StoreExtension(c, x)
    \/ \E x \in Extensions, verdict \in {"approved", "denied"} : ReviewDeadlineExtension(c, x, verdict)
    \/ StoreExtensionDecision(c) \/ StoreTerm(c)
    \/ \E h \in Holders, state \in {"open", "finished"} : WorkOnTerm(c, h, state)
    \/ \E given \in 0..MaxTerm : CreateSubAssignment(c, given)
    \/ InsertSubAssignment(c) \/ AbortTermCall(c)

ExecutionTermsSpec == ExecutionTermsInit /\ [][ExecutionTermsNext]_termVars

-----------------------------------------------------------------------------
\* Whatever copies are written back and wherever a call stops, an assignment has
\* the deadline it was given or a later one that somebody with authority once
\* approved for it (resolution.service.ts:493-600): an assignment is extended
\* after its approval is stored, and an extension that is approved late never
\* shortens what was given first.
DeadlinesWereGranted ==
  \A h \in Holders :
    \/ term[h].deadline = origin[h]
    \/ /\ term[h].deadline > origin[h]
       /\ \E x \in granted : extensions[x].who = h /\ extensions[x].to = term[h].deadline

=============================================================================
