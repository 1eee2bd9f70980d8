--------------------------- MODULE TaskDeadlines ----------------------------
(***************************************************************************)
(* The deadline of a task: extensions, overdue detection and escalation    *)
(* (src/apps/backend/src/modules/tasks: tasks.service.ts,                  *)
(* tasks-scheduler.service.ts, tasks-escalation.listener.ts).              *)
(*                                                                         *)
(* Every backend replica runs the cron jobs, and no lock keeps them apart. *)
(* Jobs and service calls load the task and save the whole copy later.     *)
(* The clock counts days; a deadline is the day it names.                  *)
(***************************************************************************)
EXTENDS Naturals, Lifecycles

CONSTANTS
  DeadlineCalls,  \* concurrent service calls
  Replicas,       \* backend replicas, each with its own cron jobs
  Tier3Days,      \* TIER3_DAYS, 3 in the code
  Tier4Days,      \* TIER4_DAYS, 7 in the code
  WarningDays,    \* TIER1_WARNING_HOURS of the task's priority, in days
  MaxDay,         \* bound: days
  MaxRequests,    \* bound: extension requests
  MaxDeadlineCalls, \* bound: service calls
  MaxJobFailures  \* bound: cron runs that fail

ASSUME TaskDeadlinesAssumption ==
  /\ {Tier3Days, Tier4Days, WarningDays, MaxDay, MaxRequests, MaxDeadlineCalls, MaxJobFailures} \subseteq Nat
  /\ Tier3Days <= Tier4Days /\ MaxDay # 0

VARIABLES
  due,            \* the task's row
  extension,      \* deadline_extension_requests
  escalated,      \* tiers in task_history
  notices,        \* kinds of notification sent
  overdueEvents,  \* a task.overdue event is on its way to the listener
  day,            \* the clock
  deadlineCall,   \* service call -> what it does next
  job,            \* <<replica, job>> -> what it does next
  filed,          \* service calls so far
  jobFailures     \* failed cron runs so far

deadlineVars ==
  <<due, extension, escalated, notices, overdueEvents, day, deadlineCall, job, filed, jobFailures>>

Jobs == {"overdue", "tier3", "tier4"}

\* since is overdueAt, and 0 when it is NULL.
DueRow == [status: TaskStatuses, deadline: 1..(MaxDay + 1), overdue: BOOLEAN, since: 0..MaxDay]

ExtensionRow == [status: {"absent", "pending", "approved", "denied"}, until: 1..(MaxDay + 1)]

DeadlineIdle == [pc |-> "idle"]

DeadlineBusy ==
  [pc: {"save"}, row: DueRow]
  \cup [pc: {"file"}, until: 1..(MaxDay + 1)]
  \cup [pc: {"decide"}, n: 1..MaxRequests, decision: {"approved", "denied"}, row: DueRow]

JobBusy == [pc: {"save", "send", "record"}, row: DueRow]

TaskDeadlinesTypeOK ==
  /\ due \in DueRow
  /\ extension \in [1..MaxRequests -> ExtensionRow]
  /\ escalated \subseteq {"tier3", "tier4"}
  /\ notices \subseteq {"approaching", "overdue", "tier3", "tier4"}
  /\ overdueEvents \in BOOLEAN
  /\ day \in 1..MaxDay
  /\ deadlineCall \in [DeadlineCalls -> DeadlineBusy \cup {DeadlineIdle}]
  /\ job \in [Replicas \X Jobs -> JobBusy \cup {DeadlineIdle}]
  /\ filed \in 0..MaxDeadlineCalls
  /\ jobFailures \in 0..MaxJobFailures

TaskDeadlinesInit ==
  /\ due = [status |-> "assigned", deadline |-> 1, overdue |-> FALSE, since |-> 0]
  /\ extension = [n \in 1..MaxRequests |-> [status |-> "absent", until |-> 1]]
  /\ escalated = {}
  /\ notices = {}
  /\ overdueEvents = FALSE
  /\ day = 1
  /\ deadlineCall = [c \in DeadlineCalls |-> DeadlineIdle]
  /\ job = [k \in Replicas \X Jobs |-> DeadlineIdle]
  /\ filed = 0
  /\ jobFailures = 0

-----------------------------------------------------------------------------
Call(c, r) ==
  /\ deadlineCall[c] = DeadlineIdle
  /\ filed < MaxDeadlineCalls
  /\ filed' = filed + 1
  /\ deadlineCall' = [deadlineCall EXCEPT ![c] = r]
  /\ UNCHANGED <<due, extension, escalated, notices, overdueEvents, day, job, jobFailures>>

\* transitionStatus, and updateTask with a new deadline, which leaves the
\* overdue flag as it is.
TransitionDue(c, target) ==
  /\ target \in TaskTransitions(due.status)
  /\ Call(c, [pc |-> "save", row |-> [due EXCEPT !.status = target]])

UpdateDeadline(c, d) == Call(c, [pc |-> "save", row |-> [due EXCEPT !.deadline = d]])

\* requestDeadlineExtension: a later deadline, and no pending request.
RequestExtension(c, d) ==
  /\ d > due.deadline
  /\ \A n \in 1..MaxRequests : extension[n].status # "pending"
  /\ Call(c, [pc |-> "file", until |-> d])

\* reviewDeadlineExtension loads the task, then the pending request.
ReviewExtension(c, n, decision) ==
  /\ extension[n].status = "pending"
  /\ Call(c, [pc |-> "decide", n |-> n, decision |-> decision, row |-> due])

SaveDue(c) ==
  /\ deadlineCall[c].pc = "save"
  /\ due' = deadlineCall[c].row
  /\ deadlineCall' = [deadlineCall EXCEPT ![c] = DeadlineIdle]
  /\ UNCHANGED <<extension, escalated, notices, overdueEvents, day, job, filed, jobFailures>>

FileExtension(c) ==
  /\ deadlineCall[c].pc = "file"
  /\ \E n \in 1..MaxRequests :
       /\ extension[n].status = "absent"
       /\ \A k \in 1..(n - 1) : extension[k].status # "absent"
       /\ extension' = [extension EXCEPT ![n] = [status |-> "pending", until |-> deadlineCall[c].until]]
  /\ deadlineCall' = [deadlineCall EXCEPT ![c] = DeadlineIdle]
  /\ UNCHANGED <<due, escalated, notices, overdueEvents, day, job, filed, jobFailures>>

\* The decision is saved; an approval then saves the copy of the task with the
\* new deadline and without the overdue flag.
DecideExtension(c) ==
  /\ deadlineCall[c].pc = "decide"
  /\ LET call == deadlineCall[c]
     IN  /\ extension' = [extension EXCEPT ![call.n].status = call.decision]
         /\ deadlineCall' = [deadlineCall EXCEPT ![c] =
              IF call.decision = "approved"
                THEN [pc |-> "save", row |-> [call.row EXCEPT !.deadline = extension[call.n].until,
                                                             !.overdue = FALSE, !.since = 0]]
                ELSE DeadlineIdle]
  /\ UNCHANGED <<due, escalated, notices, overdueEvents, day, job, filed, jobFailures>>

AbortDeadlineCall(c) ==
  /\ deadlineCall[c] # DeadlineIdle
  /\ deadlineCall' = [deadlineCall EXCEPT ![c] = DeadlineIdle]
  /\ UNCHANGED <<due, extension, escalated, notices, overdueEvents, day, job, filed, jobFailures>>

-----------------------------------------------------------------------------
\* The query of each job.
OverdueCandidate == due.deadline < day /\ ~due.overdue /\ due.status \in ActiveStatuses

TierCandidate(tier) ==
  /\ due.overdue /\ due.status \in ActiveStatuses
  /\ due.since + (IF tier = "tier3" THEN Tier3Days ELSE Tier4Days) <= day

StartJob(r, k) ==
  /\ job[<<r, k>>] = DeadlineIdle
  /\ IF k = "overdue" THEN OverdueCandidate ELSE TierCandidate(k) /\ k \notin escalated
  /\ job' = [job EXCEPT ![<<r, k>>] = [pc |-> IF k = "overdue" THEN "save" ELSE "send", row |-> due]]
  /\ UNCHANGED <<due, extension, escalated, notices, overdueEvents, day, deadlineCall, filed, jobFailures>>

\* notification.requested for the executor and his superiors.
Notified(kind) == notices \cup {kind}

Flagged(row) == [row EXCEPT !.overdue = TRUE, !.since = day]

\* runOverdueDetection saves the copy it has loaded and announces it ...
SaveOverdue(r) ==
  /\ job[<<r, "overdue">>].pc = "save"
  /\ due' = Flagged(job[<<r, "overdue">>].row)
  /\ overdueEvents' = TRUE
  /\ job' = [job EXCEPT ![<<r, "overdue">>] = DeadlineIdle]
  /\ UNCHANGED <<extension, escalated, notices, day, deadlineCall, filed, jobFailures>>

\* ... to onTaskOverdue, which notifies supervisor, assigner and executor.
OnTaskOverdue ==
  /\ overdueEvents
  /\ overdueEvents' = FALSE
  /\ notices' = Notified("overdue")
  /\ UNCHANGED <<due, extension, escalated, day, deadlineCall, job, filed, jobFailures>>

\* runExtendedOverdueCheck and runChronicOverdueCheck notify a superior and
\* write the history entry, whose failure is only logged.
SendEscalation(r, k) ==
  /\ job[<<r, k>>].pc = "send"
  /\ notices' = Notified(k)
  /\ job' = [job EXCEPT ![<<r, k>>].pc = "record"]
  /\ UNCHANGED <<due, extension, escalated, overdueEvents, day, deadlineCall, filed, jobFailures>>

RecordEscalation(r, k) ==
  /\ job[<<r, k>>].pc = "record"
  /\ escalated' = escalated \cup {k}
  /\ job' = [job EXCEPT ![<<r, k>>] = DeadlineIdle]
  /\ UNCHANGED <<due, extension, notices, overdueEvents, day, deadlineCall, filed, jobFailures>>

\* A cron run fails: the error is caught and the next run starts over.
FailJob(r, k) ==
  /\ job[<<r, k>>] # DeadlineIdle
  /\ jobFailures < MaxJobFailures
  /\ jobFailures' = jobFailures + 1
  /\ job' = [job EXCEPT ![<<r, k>>] = DeadlineIdle]
  /\ UNCHANGED <<due, extension, escalated, notices, overdueEvents, day, deadlineCall, filed>>

\* runApproachingDeadlineCheck and onDeadlineApproaching keep no state but the
\* notification itself.
WarnApproaching ==
  /\ due.status \in ActiveStatuses /\ ~due.overdue
  /\ due.deadline >= day /\ due.deadline <= day + WarningDays
  /\ notices' = Notified("approaching")
  /\ UNCHANGED <<due, extension, escalated, overdueEvents, day, deadlineCall, job, filed, jobFailures>>

NextDay ==
  /\ day < MaxDay
  /\ day' = day + 1
  /\ UNCHANGED <<due, extension, escalated, notices, overdueEvents, deadlineCall, job, filed, jobFailures>>

JobStep(r, k) ==
  \/ StartJob(r, k)
  \/ k = "overdue" /\ SaveOverdue(r)
  \/ k # "overdue" /\ (SendEscalation(r, k) \/ RecordEscalation(r, k))

TaskDeadlinesNext ==
  \/ \E c \in DeadlineCalls :
       \/ \E s \in TaskStatuses : TransitionDue(c, s)
       \/ \E d \in 1..(MaxDay + 1) : UpdateDeadline(c, d) \/ RequestExtension(c, d)
       \/ \E n \in 1..MaxRequests, s \in {"approved", "denied"} : ReviewExtension(c, n, s)
       \/ SaveDue(c) \/ FileExtension(c) \/ DecideExtension(c) \/ AbortDeadlineCall(c)
  \/ \E r \in Replicas, k \in Jobs : JobStep(r, k) \/ FailJob(r, k)
  \/ OnTaskOverdue \/ WarnApproaching \/ NextDay

\* The cron jobs run again and again, and the event bus delivers.
TaskDeadlinesFairness ==
  /\ \A r \in Replicas, k \in Jobs : WF_deadlineVars(JobStep(r, k))
  /\ WF_deadlineVars(OnTaskOverdue)

TaskDeadlinesSpec ==
  TaskDeadlinesInit /\ [][TaskDeadlinesNext]_deadlineVars /\ TaskDeadlinesFairness

-----------------------------------------------------------------------------
\* A task that is not finished is found out once its deadline has passed
\* (tasks-scheduler.service.ts:51-82), however calls and the jobs of other
\* replicas overwrite each other.
PastDeadlineIsFlagged ==
  due.deadline < day => due.overdue \/ due.status \in DoneStatuses \cup {"draft", "returned"}

\* A task that stays overdue is escalated to the top of the command chain, and
\* a failed run or a lost history entry does not stop that
\* (tasks-scheduler.service.ts:212-258).
ChronicOverdueIsEscalated ==
  (due.overdue /\ due.since + Tier4Days <= day) => "tier4" \in notices \/ due.status \notin ActiveStatuses

\* No deadline is left unattended.  It is while a job has yet to run; it must
\* hold again and again.
DeadlinesAttended == PastDeadlineIsFlagged /\ ChronicOverdueIsEscalated
=============================================================================
