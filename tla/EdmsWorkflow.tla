---------------------------- MODULE EdmsWorkflow ----------------------------
(***************************************************************************)
(* The approval workflow of one EDMS document                              *)
(* (src/apps/backend/src/modules/edms/services/workflow.service.ts).  A    *)
(* template lists step definitions by order; an instance runs through      *)
(* them, one row of workflow_steps per activated step.  Officials act on   *)
(* rows, the author resumes after a return, a cron job marks rows overdue. *)
(*                                                                         *)
(* No call uses a transaction: each database round trip is a step of its   *)
(* own, and save() writes back a copy loaded at the start of the call.     *)
(* current_step_order and workflow_history are written and never read;     *)
(* who may act (position, delegate, supervisor) is left out.               *)
(***************************************************************************)
EXTENDS Naturals, FiniteSets, Lifecycles

CONSTANTS
  Instances, \* workflow_instances of the document
  Rows,      \* bound: workflow_steps
  Calls,     \* concurrent calls: requests, listeners, cron runs
  Steps,     \* step_order values of the template
  TypeOf,    \* step order -> step_type
  Skips,     \* steps whose condition the document does not meet
  Parallel,  \* steps with is_parallel
  Threshold, \* step order -> parallel_threshold, 0 for NULL
  Timed,     \* steps with timeout_hours
  ReturnTo,  \* step order -> return_to_step, 1 for NULL
  MaxAborts  \* bound: calls cut short, and steps without a target position

StepTypes == {"review", "endorsement", "approval", "signing", "resolution",
              "distribution", "execution", "acknowledgement"}

\* The columns of a step definition, per step order.
StepDefinitions ==
  /\ TypeOf \in [Steps -> StepTypes]
  /\ Skips \subseteq Steps /\ Parallel \subseteq Steps /\ Timed \subseteq Steps
  /\ Threshold \in [Steps -> Nat]
  /\ ReturnTo \in [Steps -> Nat \ {0}]

\* Nothing makes createTemplate refuse a return target later than the step; the
\* design asks for "which earlier step" (3.EDMS-and-Workflow-Architecture.md).
ASSUME EdmsWorkflowAssumption ==
  /\ Steps \subseteq Nat \ {0}
  /\ StepDefinitions
  /\ \A o \in Steps : ReturnTo[o] <= o
  /\ MaxAborts \in Nat

VARIABLES
  document, \* status of the document
  inst,     \* workflow_instances: instance -> status, "absent" when there is no row
  step,     \* workflow_steps
  call,     \* call -> what it does next
  approved, \* <<instance, order>> with a recorded advancing action
  closed,   \* instances that have been saved as rejected
  aborts    \* calls cut short and steps without a target so far

vars == <<document, inst, step, call, approved, closed, aborts>>

InstanceStatuses == {"absent", "active", "suspended", "completed", "rejected"}

Absent == [status |-> "absent"]

StepRow == [status: {"pending", "active", "overdue", "completed", "returned"},
            inst: Instances, order: Steps]

Idle == [pc |-> "idle"]

\* actOnStep before its first write; the flow of an instance; the cron job; the
\* author's change of the document status.
Call ==
  {Idle}
    \cup [pc: {"instance", "step"}, row: Rows, action: {"advance", "reject", "return"}]
    \cup [pc: {"create", "count", "insert", "activate", "complete", "document", "reject",
               "cancel", "pend", "suspend", "returned", "resume"},
          inst: Instances, order: Nat]
    \cup [pc: {"overdue"}, row: Rows]
    \cup [pc: {"update"}, target: DocumentStatuses]

TypeOK ==
  /\ document \in DocumentStatuses
  /\ inst \in [Instances -> InstanceStatuses]
  /\ step \in [Rows -> StepRow \cup {Absent}]
  /\ call \in [Calls -> Call]
  /\ approved \subseteq Instances \X Steps
  /\ closed \subseteq Instances
  /\ aborts \in 0..MaxAborts

\* The document has just been registered.
Init ==
  /\ document = "registered"
  /\ inst = [i \in Instances |-> "absent"]
  /\ step = [r \in Rows |-> Absent]
  /\ call = [c \in Calls |-> Idle]
  /\ approved = {}
  /\ closed = {}
  /\ aborts = 0

-----------------------------------------------------------------------------
Return(c) == call' = [call EXCEPT ![c] = Idle]

Flow(c, pc, i, o) == call' = [call EXCEPT ![c] = [pc |-> pc, inst |-> i, order |-> o]]

\* The steps the document has to pass: activateStep skips the others.
Required == Steps \ Skips

\* getNextStepDef together with the skipping of activateStep: n is the first
\* required step after o; at the end there is none.
IsNext(o, n) ==
  /\ n \in Required
  /\ n > o
  /\ \A m \in Required : m > o => n <= m

IsLast(o) == \A m \in Required : m <= o

\* Activate the first required step after o, or complete the instance.
GoOnSkipsAhead(c, i, o) ==
  \/ \E n \in Required : n > o /\ Flow(c, "insert", i, n)
  \/ IsLast(o) /\ Flow(c, "complete", i, o)

GoOn(c, i, o) ==
  \/ \E n \in Steps : IsNext(o, n) /\ Flow(c, "insert", i, n)
  \/ IsLast(o) /\ Flow(c, "complete", i, o)

\* uq_workflow_instances_active_document: one active instance of the document.
OthersInactive(i) == \A j \in Instances \ {i} : inst[j] # "active"

\* assertActionCompatibility, with the advancing actions taken together.
Allowed(type) ==
  CASE type = "approval" -> {"advance", "reject", "return"}
    [] type \in {"review", "endorsement", "signing", "resolution"} -> {"advance", "return"}
    [] OTHER -> {"advance"}

\* The row actOnStep looks for.
Actionable(r) == step[r].status = "active"

-----------------------------------------------------------------------------
\* startWorkflow looks for an active instance ...
StartWorkflow(c, i) ==
  /\ call[c] = Idle
  /\ inst[i] = "absent"
  /\ \A j \in Instances : inst[j] # "active"
  /\ Flow(c, "create", i, 0)
  /\ UNCHANGED <<document, inst, step, approved, closed, aborts>>

\* ... and inserts its own, unless the unique index refuses it.
CreateInstance(c) ==
  /\ call[c].pc = "create"
  /\ LET i == call[c].inst
     IN  IF inst[i] = "absent" /\ OthersInactive(i)
           THEN inst' = [inst EXCEPT ![i] = "active"] /\ GoOn(c, i, 0)
           ELSE inst' = inst /\ Return(c)
  /\ UNCHANGED <<document, step, approved, closed, aborts>>

\* actOnStep loads the step ...
LoadStep(c, r, a) ==
  /\ call[c] = Idle
  /\ Actionable(r)
  /\ a \in Allowed(TypeOf[step[r].order])
  /\ call' = [call EXCEPT ![c] = [pc |-> "instance", row |-> r, action |-> a]]
  /\ UNCHANGED <<document, inst, step, approved, closed, aborts>>

\* ... then the instance, which must be active ...
LoadInstance(c) ==
  /\ call[c].pc = "instance"
  /\ IF inst[step[call[c].row].inst] = "active"
       THEN call' = [call EXCEPT ![c].pc = "step"]
       ELSE Return(c)
  /\ UNCHANGED <<document, inst, step, approved, closed, aborts>>

\* ... and saves the step with the action taken.
SaveStep(c) ==
  /\ call[c].pc = "step"
  /\ LET r == call[c].row
         i == step[r].inst
         o == step[r].order
     IN  /\ step' = [step EXCEPT ![r].status =
                       IF call[c].action = "return" THEN "returned" ELSE "completed"]
         /\ CASE call[c].action = "advance" ->
                   Flow(c, "count", i, o) /\ approved' = approved \cup {<<i, o>>}
              [] call[c].action = "reject" ->
                   Flow(c, "reject", i, o) /\ approved' = approved
              [] OTHER ->
                   Flow(c, "pend", i, o) /\ approved' = approved
  /\ UNCHANGED <<document, inst, closed, aborts>>

\* advanceWorkflow: a parallel step waits until enough of its rows are complete.
SiblingRows(i, o) == {r \in Rows : step[r] # Absent /\ step[r].inst = i /\ step[r].order = o}

EnoughCompleted(i, o) ==
  o \in Parallel =>
    Cardinality({r \in SiblingRows(i, o) : step[r].status = "completed"}) >=
      IF Threshold[o] = 0 THEN Cardinality(SiblingRows(i, o)) ELSE Threshold[o]

Advance(c) ==
  /\ call[c].pc = "count"
  /\ IF EnoughCompleted(call[c].inst, call[c].order)
       THEN GoOn(c, call[c].inst, call[c].order)
       ELSE Return(c)
  /\ UNCHANGED <<document, inst, step, approved, closed, aborts>>

\* activateStep inserts the row ...
InsertStepOffByOne(c, r) ==
  /\ call[c].pc = "insert"
  /\ step[r] = Absent
  /\ step' = [step EXCEPT ![r] =
       [status |-> "active", inst |-> call[c].inst, order |-> call[c].order + 1]]
  /\ Flow(c, "activate", call[c].inst, call[c].order)
  /\ UNCHANGED <<document, inst, approved, closed, aborts>>

InsertStep(c, r) ==
  /\ call[c].pc = "insert"
  /\ step[r] = Absent
  /\ step' = [step EXCEPT ![r] =
       [status |-> "active", inst |-> call[c].inst, order |-> call[c].order]]
  /\ Flow(c, "activate", call[c].inst, call[c].order)
  /\ UNCHANGED <<document, inst, approved, closed, aborts>>

\* ... and saves the instance, whose copy says 'active'; the unique index may
\* refuse that.
SaveActivated(c) ==
  /\ call[c].pc = "activate"
  /\ inst' = IF OthersInactive(call[c].inst)
               THEN [inst EXCEPT ![call[c].inst] = "active"] ELSE inst
  /\ Return(c)
  /\ UNCHANGED <<document, step, approved, closed, aborts>>

\* completeInstance: the instance, then the document.
CompleteInstance(c) ==
  /\ call[c].pc = "complete"
  /\ inst' = [inst EXCEPT ![call[c].inst] = "completed"]
  /\ Flow(c, "document", call[c].inst, call[c].order)
  /\ UNCHANGED <<document, step, approved, closed, aborts>>

CompleteDocument(c) ==
  /\ call[c].pc = "document"
  /\ document' = "in_workflow"
  /\ Return(c)
  /\ UNCHANGED <<inst, step, approved, closed, aborts>>

\* rejectInstance: the instance, then the document.
RejectInstance(c) ==
  /\ call[c].pc = "reject"
  /\ inst' = [inst EXCEPT ![call[c].inst] = "rejected"]
  /\ closed' = closed \cup {call[c].inst}
  /\ Flow(c, "cancel", call[c].inst, call[c].order)
  /\ UNCHANGED <<document, step, approved, aborts>>

CancelDocument(c) ==
  /\ call[c].pc = "cancel"
  /\ document' = "cancelled"
  /\ Return(c)
  /\ UNCHANGED <<inst, step, approved, closed, aborts>>

\* returnForRevision: the active rows of the instance, then the instance.
PendSteps(c) ==
  /\ call[c].pc = "pend"
  /\ step' = [r \in Rows |->
       IF step[r].status = "active" /\ step[r].inst = call[c].inst
         THEN [step[r] EXCEPT !.status = "pending"] ELSE step[r]]
  /\ Flow(c, "suspend", call[c].inst, call[c].order)
  /\ UNCHANGED <<document, inst, approved, closed, aborts>>

SuspendInstance(c) ==
  /\ call[c].pc = "suspend"
  /\ inst' = [inst EXCEPT ![call[c].inst] = "suspended"]
  /\ Return(c)
  /\ UNCHANGED <<document, step, approved, closed, aborts>>

\* resumeWorkflow finds the suspended instance ...
ResumeWorkflow(c, i) ==
  /\ call[c] = Idle
  /\ inst[i] = "suspended"
  /\ Flow(c, "returned", i, 0)
  /\ UNCHANGED <<document, inst, step, approved, closed, aborts>>

\* ... and the step to resume from: the return target of the returned row with
\* the highest order, or 1 when there is none ...
ReturnedRows(i) == {r \in Rows : step[r].status = "returned" /\ step[r].inst = i}

ResumeOrderAfter(i, o) ==
  \/ ReturnedRows(i) = {} /\ o = 1
  \/ \E r \in ReturnedRows(i) :
       /\ \A q \in ReturnedRows(i) : step[q].order <= step[r].order
       /\ o = step[r].order + 1

ResumeOrder(i, o) ==
  \/ ReturnedRows(i) = {} /\ o = 1
  \/ \E r \in ReturnedRows(i) :
       /\ \A q \in ReturnedRows(i) : step[q].order <= step[r].order
       /\ o = ReturnTo[step[r].order]

FindReturned(c) ==
  /\ call[c].pc = "returned"
  /\ \E o \in Steps \cup {1} \cup {ReturnTo[s] : s \in Steps} :
       ResumeOrder(call[c].inst, o) /\ Flow(c, "resume", call[c].inst, o)
  /\ UNCHANGED <<document, inst, step, approved, closed, aborts>>

\* ... saves it as active, and activates that step if the template has it.
ResumeInstanceOnly(c) ==
  /\ call[c].pc = "resume"
  /\ inst' = IF OthersInactive(call[c].inst)
               THEN [inst EXCEPT ![call[c].inst] = "active"] ELSE inst
  /\ Return(c)
  /\ UNCHANGED <<document, step, approved, closed, aborts>>

ResumeInstance(c) ==
  /\ call[c].pc = "resume"
  /\ LET i == call[c].inst
         o == call[c].order
     IN  IF OthersInactive(i)
           THEN /\ inst' = [inst EXCEPT ![i] = "active"]
                /\ IF o \in Steps THEN GoOn(c, i, o - 1) ELSE Return(c)
           ELSE inst' = inst /\ Return(c)
  /\ UNCHANGED <<document, step, approved, closed, aborts>>

\* resolveTargetPosition finds no position for the step: activateStep logs
\* "Workflow stalled" and returns (or the insert of 'unresolved' is rejected).
ActivationStalls(c) ==
  /\ call[c].pc = "insert"
  /\ aborts < MaxAborts
  /\ aborts' = aborts + 1
  /\ Return(c)
  /\ UNCHANGED <<document, inst, step, approved, closed>>

\* markOverdueSteps loads an active row past its deadline ...
LoadOverdue(c, r) ==
  /\ call[c] = Idle
  /\ step[r].status = "active"
  /\ step[r].order \in Timed
  /\ call' = [call EXCEPT ![c] = [pc |-> "overdue", row |-> r]]
  /\ UNCHANGED <<document, inst, step, approved, closed, aborts>>

\* ... and saves it as overdue.
SaveOverdue(c) ==
  /\ call[c].pc = "overdue"
  /\ step' = [step EXCEPT ![call[c].row].status = "overdue"]
  /\ Return(c)
  /\ UNCHANGED <<document, inst, approved, closed, aborts>>

\* EdmsService.transitionStatus: the author changes the document ...
LoadForTransition(c, target) ==
  /\ call[c] = Idle
  /\ target \in Transitions(document)
  /\ call' = [call EXCEPT ![c] = [pc |-> "update", target |-> target]]
  /\ UNCHANGED <<document, inst, step, approved, closed, aborts>>

\* ... whatever its workflow does.
UpdateStatus(c) ==
  /\ call[c].pc = "update"
  /\ document' = call[c].target
  /\ Return(c)
  /\ UNCHANGED <<inst, step, approved, closed, aborts>>

\* The process stops or a query is rejected: the rest of the call is lost.
Abort(c) ==
  /\ call[c] # Idle
  /\ aborts < MaxAborts
  /\ aborts' = aborts + 1
  /\ Return(c)
  /\ UNCHANGED <<document, inst, step, approved, closed>>

Next ==
  \/ \E c \in Calls, i \in Instances : StartWorkflow(c, i) \/ ResumeWorkflow(c, i)
  \/ \E c \in Calls, r \in Rows :
       \/ LoadOverdue(c, r) \/ InsertStep(c, r)
       \/ \E a \in {"advance", "reject", "return"} : LoadStep(c, r, a)
  \/ \E c \in Calls, t \in DocumentStatuses : LoadForTransition(c, t)
  \/ \E c \in Calls :
       \/ CreateInstance(c) \/ LoadInstance(c) \/ SaveStep(c) \/ Advance(c)
       \/ SaveActivated(c) \/ CompleteInstance(c) \/ CompleteDocument(c)
       \/ RejectInstance(c) \/ CancelDocument(c) \/ PendSteps(c)
       \/ SuspendInstance(c) \/ FindReturned(c) \/ ResumeInstance(c)
       \/ ActivationStalls(c) \/ SaveOverdue(c) \/ UpdateStatus(c) \/ Abort(c)

Spec == Init /\ [][Next]_vars

-----------------------------------------------------------------------------
Passed(i, o) == \A p \in Required : p < o => <<i, p>> \in approved

\* No step is activated before every required earlier step of the instance has
\* been approved, whatever approvals, returns and resumptions race and wherever
\* a call is cut short (advanceWorkflow, resumeWorkflow; workflow.service.ts:413
\* and 519).
NoStepBypassed ==
  \A r \in Rows : step[r] # Absent => Passed(step[r].inst, step[r].order)

\* An instance is recorded as completed only if every required step has been
\* approved (completeInstance, workflow.service.ts:448).
CompletedPassedAllSteps ==
  \A i \in Instances :
    inst[i] = "completed" => \A p \in Required : <<i, p>> \in approved

\* An active instance waits for somebody: one of its rows can be acted on, or a
\* call is at work on it.  Otherwise nobody can ever move it again, neither
\* actOnStep nor resumeWorkflow (workflow.service.ts:234 and 525).
AtWorkOn(c, i) ==
  \/ call[c].pc \in {"instance", "step"} /\ step[call[c].row].inst = i
  \/ call[c].pc \notin {"idle", "instance", "step", "overdue", "update"} /\ call[c].inst = i

ActiveInstanceCanProceed ==
  \A i \in Instances :
    inst[i] = "active" =>
      \/ \E r \in Rows : Actionable(r) /\ step[r].inst = i
      \/ \E c \in Calls : AtWorkOn(c, i)

\* "A rejection is final" (3.EDMS-and-Workflow-Architecture.md:452): an
\* instance that has been rejected stays rejected.
RejectionIsFinal == \A i \in closed : inst[i] = "rejected"
=============================================================================
