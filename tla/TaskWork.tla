------------------------------ MODULE TaskWork ------------------------------
(***************************************************************************)
(* Tasks, their subtasks and the messages a parent's executor gets         *)
(* (src/apps/backend/src/modules/tasks/services/tasks.service.ts:          *)
(* createTask, updateTask, updateProgress, transitionStatus,               *)
(* propagateToParent).                                                     *)
(*                                                                         *)
(* transitionStatus saves the task, and only then reads the parent and, in *)
(* another query, its children; every save writes the whole copy back that *)
(* the call has loaded.  Who may ask for a transition is the subject of    *)
(* the assignments below: every transition of the table has somebody.      *)
(*                                                                         *)
(* owed is what a call owes the parent's executor from its save on; moves  *)
(* counts the calls, which MaxTaskCalls bounds.                            *)
(***************************************************************************)
EXTENDS Naturals, Lifecycles, FiniteSets

CONSTANTS
  SubtaskIds,       \* tasks, existing or to be created
  ExistingTasks,    \* the rows the behaviours start from
  TaskCalls,        \* concurrent service calls
  NoTask,           \* no parent
  MaxSubtaskDepth,  \* MAX_SUBTASK_DEPTH, 3 in the code
  MaxTaskCalls      \* bound: service calls

SubtaskRow ==
  [status: TaskStatuses \cup {"absent"}, parent: SubtaskIds \cup {NoTask}, depth: 0..MaxSubtaskDepth]

\* The parent of a task is a task (a foreign key).
ParentsExist(rows) ==
  \A t \in SubtaskIds : rows[t].status # "absent" /\ rows[t].parent # NoTask => rows[rows[t].parent].status # "absent"

ASSUME SubtasksAssumption ==
  /\ NoTask \notin SubtaskIds
  /\ ExistingTasks \in [SubtaskIds -> SubtaskRow] /\ ParentsExist(ExistingTasks)
  /\ MaxSubtaskDepth \in Nat
  /\ MaxTaskCalls \in Nat

VARIABLES
  subtask,      \* tasks: id -> row
  subtaskCall,  \* call -> what it does next
  published,    \* events handed to the outbox
  owed,         \* <<parent, message>> the parent's executor must get
  moves         \* calls so far

subtaskVars == <<subtask, subtaskCall, published, owed, moves>>

TaskMessages == {"all_subtasks_complete", "subtask_blocked"}

\* pc: save is any call that has loaded the task; parent and children are the
\* two queries of propagateToParent; channel is the event of a task that was a
\* draft.  from is the status the task was loaded with, seen the parent's.
SubtaskBusy ==
  [pc: {"save", "parent", "children", "channel"}, task: SubtaskIds, row: SubtaskRow,
   from: TaskStatuses, transition: BOOLEAN, seen: TaskStatuses]

SubtaskIdle == [pc |-> "idle"]

SubtasksTypeOK ==
  /\ subtask \in [SubtaskIds -> SubtaskRow]
  /\ subtaskCall \in [TaskCalls -> SubtaskBusy \cup {SubtaskIdle}]
  /\ published \subseteq SubtaskIds \X (TaskMessages \cup {"channel_requested"})
  /\ owed \subseteq SubtaskIds \X TaskMessages
  /\ moves \in 0..MaxTaskCalls

SubtasksInit ==
  /\ subtask = ExistingTasks
  /\ subtaskCall = [c \in TaskCalls |-> SubtaskIdle]
  /\ published = {}
  /\ owed = {}
  /\ moves = 0

-----------------------------------------------------------------------------
Children(t) == {u \in SubtaskIds : subtask[u].status # "absent" /\ subtask[u].parent = t}

\* What propagateToParent finds to report about the rows of the children.
ToReport(rows) ==
  {k \in TaskMessages :
     \/ k = "all_subtasks_complete" /\ rows # {} /\ \A r \in rows : r.status \in DoneStatuses
     \/ k = "subtask_blocked" /\ \E r \in rows : r.status \in BlockingStatuses}

\* After a change of the rows: what was owed and still is so ...
StillOwed(rows) ==
  {o \in owed : /\ rows[o[1]].status = "in_progress"
                /\ o[2] \in ToReport({rows[u] : u \in Children(o[1])})}

\* ... and what a transition of t has brought about.
NewlyOwed(rows, t) ==
  LET p == rows[t].parent
      caused(k) == \/ k = "all_subtasks_complete" /\ rows[t].status \in DoneStatuses
                   \/ k = "subtask_blocked" /\ rows[t].status \in BlockingStatuses
  IN  {o \in SubtaskIds \X TaskMessages :
         /\ o[1] = p /\ rows[p].status = "in_progress"
         /\ caused(o[2]) /\ o[2] \in ToReport({rows[u] : u \in Children(p)})}

SubtaskGo(c, pc) == subtaskCall' = [subtaskCall EXCEPT ![c].pc = pc]

SubtaskReturn(c) == subtaskCall' = [subtaskCall EXCEPT ![c] = SubtaskIdle]

DepthAllowsOneMore(p) == subtask[p].depth <= MaxSubtaskDepth

DepthAllows(p) == subtask[p].depth < MaxSubtaskDepth

\* createTask: the parent exists and is not too deep; the type decides whether
\* the task starts as a draft.  The assignment records are modelled below.
CreateTask(t, p, status) ==
  /\ subtask[t].status = "absent"
  /\ status \in {"draft", "assigned"}
  /\ p # NoTask => subtask[p].status # "absent" /\ DepthAllows(p)
  /\ subtask' = [subtask EXCEPT ![t] =
       [status |-> status, parent |-> p, depth |-> IF p = NoTask THEN 0 ELSE subtask[p].depth + 1]]
  /\ owed' = owed \ {<<p, "all_subtasks_complete">>}
  /\ moves < MaxTaskCalls
  /\ moves' = moves + 1
  /\ UNCHANGED <<subtaskCall, published>>

LoadTask(c, t, row, transition) ==
  /\ subtaskCall[c] = SubtaskIdle
  /\ moves < MaxTaskCalls
  /\ moves' = moves + 1
  /\ subtaskCall' = [subtaskCall EXCEPT ![c] =
       [pc |-> "save", task |-> t, row |-> row, from |-> subtask[t].status,
        transition |-> transition, seen |-> subtask[t].status]]
  /\ UNCHANGED <<subtask, published, owed>>

\* transitionStatus checks the state machine on the row it has loaded.
TransitionTask(c, t, target) ==
  /\ target \in TaskTransitions(subtask[t].status)
  /\ LoadTask(c, t, [subtask[t] EXCEPT !.status = target], TRUE)

\* updateTask and updateProgress change columns outside this model, and write
\* the copy they have loaded back all the same.
UpdateTask(c, t) ==
  /\ subtask[t].status # "absent"
  /\ LoadTask(c, t, subtask[t], FALSE)

\* What follows the save of a transition, and the report to the parent.
AfterTransition(r) ==
  IF r.from = "draft" /\ r.row.status = "assigned" THEN "channel" ELSE "idle"

AfterSave(r) == IF r.row.parent # NoTask THEN "parent" ELSE AfterTransition(r)

SubtaskContinue(c, pc) == IF pc = "idle" THEN SubtaskReturn(c) ELSE SubtaskGo(c, pc)

SaveTask(c) ==
  /\ subtaskCall[c].pc = "save"
  /\ LET call == subtaskCall[c]
         rows == [subtask EXCEPT ![call.task] = call.row]
     IN  /\ subtask' = rows
         /\ owed' = StillOwed(rows) \cup (IF call.transition THEN NewlyOwed(rows, call.task) ELSE {})
         /\ SubtaskContinue(c, IF call.transition THEN AfterSave(call) ELSE "idle")
  /\ UNCHANGED <<published, moves>>

\* propagateToParent reads the parent ...
ReadParent(c) ==
  /\ subtaskCall[c].pc = "parent"
  /\ subtaskCall' = [subtaskCall EXCEPT ![c].pc = "children",
                                        ![c].seen = subtask[subtaskCall[c].row.parent].status]
  /\ UNCHANGED <<subtask, published, owed, moves>>

\* ... and then its children, and publishes what there is to report when the
\* parent was in progress.
ReportToParent(c) ==
  /\ subtaskCall[c].pc = "children"
  /\ LET call == subtaskCall[c]
         p == call.row.parent
         reports == IF call.seen = "in_progress"
                      THEN {p} \X ToReport({subtask[u] : u \in Children(p)}) ELSE {}
     IN  /\ published' = published \cup reports
         /\ owed' = owed \ reports
         /\ SubtaskContinue(c, AfterTransition(call))
  /\ UNCHANGED <<subtask, moves>>

\* A draft that was assigned asks for its chat channel.
RequestChannel(c) ==
  /\ subtaskCall[c].pc = "channel"
  /\ published' = published \cup {<<subtaskCall[c].task, "channel_requested">>}
  /\ SubtaskReturn(c)
  /\ UNCHANGED <<subtask, owed, moves>>

\* The call is cut short and the report with it.
AbortTaskCall(c) ==
  /\ subtaskCall[c] # SubtaskIdle
  /\ owed' = {o \in owed : subtaskCall[c].pc = "save" \/ o[1] # subtaskCall[c].row.parent}
  /\ SubtaskReturn(c)
  /\ UNCHANGED <<subtask, published, moves>>

SubtasksNext ==
  \/ \E t \in SubtaskIds, p \in SubtaskIds \cup {NoTask}, s \in TaskStatuses : CreateTask(t, p, s)
  \/ \E c \in TaskCalls :
       \/ \E t \in SubtaskIds, s \in TaskStatuses : TransitionTask(c, t, s)
       \/ \E t \in SubtaskIds : UpdateTask(c, t)
       \/ SaveTask(c) \/ ReadParent(c) \/ ReportToParent(c) \/ RequestChannel(c) \/ AbortTaskCall(c)

SubtasksSpec == SubtasksInit /\ [][SubtasksNext]_subtaskVars

-----------------------------------------------------------------------------
\* A transition that finishes the last subtask, or blocks one, of a task in
\* progress is reported to the executor of the task although parent and
\* children are read in separate queries after the save
\* (tasks.service.ts:398-490): as long as the report is due, some call is on
\* its way that will make it.
ReportIsUnderWay ==
  \A o \in owed : \E c \in TaskCalls :
    /\ subtaskCall[c].pc \in {"parent", "children"}
    /\ subtaskCall[c].row.parent = o[1]
    /\ subtaskCall[c].pc = "children" => subtaskCall[c].seen = "in_progress"

-----------------------------------------------------------------------------
(***************************************************************************)
(* Who works on a task                                                     *)
(* (src/apps/backend/src/modules/tasks/services/tasks.service.ts:          *)
(* createTask, addExecutor, removeExecutor, reassignTask, transitionStatus *)
(* and their authority checks).                                            *)
(*                                                                         *)
(* The responsible position is a column of the task, and the participants  *)
(* are records of their own: createTask and reassignTask write both, one   *)
(* query at a time.  A unique index allows one active record per position. *)
(* failed holds once a call stopped between those queries.                 *)
(***************************************************************************)

CONSTANTS
  TaskPositions,     \* positions of the organisation
  TaskReportsTo,     \* position -> its superior, Nobody at the top
  TaskAssigner,      \* the position that creates the task
  Nobody,            \* no superior
  AssignmentCalls,   \* concurrent service calls
  MaxRecords,        \* bound: assignment records
  MaxAssignmentCalls \* bound: calls after the creation

ASSUME TaskAssignmentsAssumption ==
  /\ TaskAssigner \in TaskPositions
  /\ Nobody \notin TaskPositions
  /\ TaskReportsTo \in [TaskPositions -> TaskPositions \cup {Nobody}]
  /\ MaxRecords \in Nat
  /\ MaxAssignmentCalls \in Nat

VARIABLES
  work,           \* the task's row
  record,         \* task_assignments: number -> row
  assignmentCall, \* call -> what it does next
  asked,          \* calls so far
  failed          \* a call stopped half-way

assignmentVars == <<work, record, assignmentCall, asked, failed>>

WorkRow == [status: TaskStatuses \cup {"absent"}, responsible: TaskPositions]

\* An observer's record is treated like a co-executor's.
RecordRow ==
  [position: TaskPositions, type: {"primary", "co_executor"},
   status: {"absent", "active", "removed"}]

\* todo: the queries the call has still to make: save the record number n as
\* old, save the task as row, insert the record new.
AssignmentQueries ==
  {<<"task", "insert">>, <<"insert">>, <<"write">>, <<"write", "task", "insert">>, <<"write", "task">>, <<"task">>}

AssignmentBusy ==
  [todo: AssignmentQueries, n: 0..MaxRecords, old: RecordRow, row: WorkRow, new: RecordRow]

AssignmentIdle == [todo |-> <<>>]

TaskAssignmentsTypeOK ==
  /\ work \in WorkRow
  /\ record \in [1..MaxRecords -> RecordRow]
  /\ assignmentCall \in [AssignmentCalls -> AssignmentBusy \cup {AssignmentIdle}]
  /\ asked \in 0..MaxAssignmentCalls
  /\ failed \in BOOLEAN

NoRecord == [position |-> TaskAssigner, type |-> "co_executor", status |-> "absent"]

TaskAssignmentsInit ==
  /\ work = [status |-> "absent", responsible |-> TaskAssigner]
  /\ record = [n \in 1..MaxRecords |-> NoRecord]
  /\ assignmentCall = [c \in AssignmentCalls |-> AssignmentIdle]
  /\ asked = 0
  /\ failed = FALSE

-----------------------------------------------------------------------------
Superiors == [q \in TaskPositions |-> {p \in TaskPositions : Subordinate(TaskReportsTo, Nobody, q, p)}]

Supervises(p, q) == p \in Superiors[q]

\* Active records, those of a position, and the free numbers.
Active(type) == {n \in 1..MaxRecords : record[n].status = "active" /\ record[n].type = type}

ActiveOf(p) == {n \in 1..MaxRecords : record[n].status = "active" /\ record[n].position = p}

FreeRecord(n) ==
  /\ n \in 1..MaxRecords
  /\ record[n].status = "absent"
  /\ \A k \in 1..(n - 1) : record[k].status # "absent"

ActiveRecord(p, type) == [position |-> p, type |-> type, status |-> "active"]

Ask(c, todo, n, old, row, new) ==
  /\ assignmentCall[c] = AssignmentIdle
  /\ asked < MaxAssignmentCalls
  /\ asked' = asked + 1
  /\ assignmentCall' = [assignmentCall EXCEPT ![c] =
       [todo |-> todo, n |-> n, old |-> old, row |-> row, new |-> new]]
  /\ UNCHANGED <<work, record, failed>>

\* createTask: the task is saved, its primary record follows.
CreateAssignedTask(c, p, status) ==
  /\ work.status = "absent"
  /\ \A d \in AssignmentCalls : assignmentCall[d] = AssignmentIdle
  /\ status \in {"draft", "assigned"}
  /\ Supervises(TaskAssigner, p)
  /\ Ask(c, <<"task", "insert">>, 0, NoRecord, [status |-> status, responsible |-> p], ActiveRecord(p, "primary"))

\* addExecutor (and each co-executor of createTask): the actor takes part, has
\* authority over the position, and sees no active record of it.
AddExecutor(c, actor, p, type) ==
  /\ work.status # "absent"
  /\ actor \in {work.responsible, TaskAssigner}
  /\ Supervises(actor, p)
  /\ ActiveOf(p) = {}
  /\ Ask(c, <<"insert">>, 0, NoRecord, work, ActiveRecord(p, type))

\* removeExecutor loads an active record that is not the primary one.
RemoveExecutor(c, actor, n) ==
  /\ work.status # "absent"
  /\ actor \in {work.responsible, TaskAssigner}
  /\ record[n].status = "active" /\ record[n].type # "primary"
  /\ Ask(c, <<"write">>, n, [record[n] EXCEPT !.status = "removed"], work, NoRecord)

\* reassignTask: the record of the position that was responsible, if there is an
\* active primary one, is removed; then the task is saved; then the new record.
ReassignTask(c, actor, p) ==
  /\ work.status # "absent"
  /\ actor = TaskAssigner \/ Supervises(actor, work.responsible)
  /\ Supervises(actor, p)
  /\ LET row == [work EXCEPT !.responsible = p]
         new == ActiveRecord(p, "primary")
     IN  IF Active("primary") \cap ActiveOf(work.responsible) = {}
           THEN Ask(c, <<"task", "insert">>, 0, NoRecord, row, new)
           ELSE \E n \in Active("primary") \cap ActiveOf(work.responsible) :
                  Ask(c, <<"write", "task", "insert">>, n, [record[n] EXCEPT !.status = "removed"], row, new)

\* transitionStatus; acceptance first stamps the actor's primary record, whatever
\* the status of the record.
TransitionWork(c, actor, target) ==
  /\ target \in TaskTransitions(work.status)
  /\ MayTransition(target, actor = work.responsible, actor = TaskAssigner, Supervises(actor, work.responsible))
  /\ LET row == [work EXCEPT !.status = target]
         stamped == {n \in 1..MaxRecords : record[n].status # "absent" /\ record[n].type = "primary" /\ record[n].position = actor}
     IN  IF target = "accepted" /\ stamped # {}
           THEN \E n \in stamped : Ask(c, <<"write", "task">>, n, record[n], row, NoRecord)
           ELSE Ask(c, <<"task">>, 0, NoRecord, row, NoRecord)

\* updateTask and updateProgress write the whole task back; progress is only for
\* a participant.
UpdateWork(c, actor) ==
  /\ work.status # "absent"
  /\ actor = TaskAssigner \/ Supervises(actor, work.responsible) \/ ActiveOf(actor) # {}
  /\ Ask(c, <<"task">>, 0, NoRecord, work, NoRecord)

-----------------------------------------------------------------------------
Query(c) == Head(assignmentCall[c].todo)

Busy(c) == assignmentCall[c] # AssignmentIdle

\* The query is done and the next one follows.
Proceed(c) ==
  assignmentCall' = IF Len(assignmentCall[c].todo) = 1 THEN [assignmentCall EXCEPT ![c] = AssignmentIdle]
                    ELSE [assignmentCall EXCEPT ![c].todo = Tail(@)]

\* The copy of a record is saved.
WriteRecord(c) ==
  /\ Busy(c) /\ Query(c) = "write"
  /\ assignmentCall[c].old.status = "active" => ActiveOf(assignmentCall[c].old.position) \subseteq {assignmentCall[c].n}
  /\ record' = [record EXCEPT ![assignmentCall[c].n] = assignmentCall[c].old]
  /\ Proceed(c)
  /\ UNCHANGED <<work, asked, failed>>

\* The copy of the task is saved, with its status and responsible position.
SaveWork(c) ==
  /\ Busy(c) /\ Query(c) = "task"
  /\ work' = assignmentCall[c].row
  /\ Proceed(c)
  /\ UNCHANGED <<record, asked, failed>>

\* createAssignmentRecord.
InsertRecordIfMissing(c) ==
  /\ Busy(c) /\ Query(c) = "insert"
  /\ Proceed(c)
  /\ IF ActiveOf(assignmentCall[c].new.position) = {}
       THEN \E n \in 1..MaxRecords : FreeRecord(n) /\ record' = [record EXCEPT ![n] = assignmentCall[c].new]
       ELSE UNCHANGED record
  /\ UNCHANGED <<work, asked, failed>>

InsertRecord(c) ==
  /\ Busy(c) /\ Query(c) = "insert"
  /\ ActiveOf(assignmentCall[c].new.position) = {}
  /\ \E n \in 1..MaxRecords : FreeRecord(n) /\ record' = [record EXCEPT ![n] = assignmentCall[c].new]
  /\ Proceed(c)
  /\ UNCHANGED <<work, asked, failed>>

\* The call is cut short, or the unique index refuses its record.
AbortAssignmentCall(c) ==
  /\ Busy(c)
  /\ failed' = TRUE
  /\ assignmentCall' = [assignmentCall EXCEPT ![c] = AssignmentIdle]
  /\ UNCHANGED <<work, record, asked>>

TaskAssignmentsNext ==
  \E c \in AssignmentCalls :
    \/ \E p \in TaskPositions, s \in TaskStatuses : CreateAssignedTask(c, p, s)
    \/ \E a, p \in TaskPositions : ReassignTask(c, a, p)
    \/ \E a, p \in TaskPositions, k \in {"co_executor", "primary"} : AddExecutor(c, a, p, k)
    \/ \E a \in TaskPositions :
         \/ \E n \in 1..MaxRecords : RemoveExecutor(c, a, n)
         \/ \E s \in TaskStatuses : TransitionWork(c, a, s)
         \/ UpdateWork(c, a)
    \/ WriteRecord(c) \/ SaveWork(c) \/ InsertRecord(c) \/ AbortAssignmentCall(c)

TaskAssignmentsSpec == TaskAssignmentsInit /\ [][TaskAssignmentsNext]_assignmentVars

-----------------------------------------------------------------------------
\* A task is never without an accountable executor: reassignments may race and
\* leave too many primary records, but none of them takes the last one away and
\* ends well (tasks.service.ts:897-928, 131-138).
SomeoneAccountable ==
  \/ Active("primary") # {}
  \/ work.status = "absent" \/ failed
  \/ \E c \in AssignmentCalls : Busy(c) /\ assignmentCall[c].new.type = "primary"

=============================================================================
