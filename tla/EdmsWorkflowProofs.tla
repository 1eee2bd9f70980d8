------------------------- MODULE EdmsWorkflowProofs -------------------------
(***************************************************************************)
(* The order of approvals of EdmsWorkflow for every template, any number   *)
(* of racing calls, rows and instances.  The invariants on rows and        *)
(* instances are not inductive: what a call is about to write rests on     *)
(* what it has read, so IInv adds for each call what its next write needs. *)
(* The second half shows that an active instance can proceed when calls    *)
(* come one after the other; ProceedInv adds the row or the call that will *)
(* take it on.                                                             *)
(***************************************************************************)
EXTENDS EdmsWorkflow, TLAPS

AllPassed(i) == \A p \in Required : <<i, p>> \in approved

\* Rows are only written for steps the document has to pass.
RowsAreRequired == \A r \in Rows : step[r] # Absent => step[r].order \in Required

\* What a call has established for its next write.
CallOK(c) ==
  /\ call[c].pc \in {"instance", "step", "overdue"} => step[call[c].row] # Absent
  /\ call[c].pc = "count" =>
       /\ call[c].order \in Required
       /\ Passed(call[c].inst, call[c].order)
       /\ <<call[c].inst, call[c].order>> \in approved
  /\ call[c].pc = "insert" =>
       call[c].order \in Required /\ Passed(call[c].inst, call[c].order)
  /\ call[c].pc = "resume" =>
       call[c].order > 0 /\ Passed(call[c].inst, call[c].order)
  /\ call[c].pc = "complete" => AllPassed(call[c].inst)

\* The inductive invariant.
IInv == /\ TypeOK
        /\ RowsAreRequired
        /\ NoStepBypassed
        /\ CompletedPassedAllSteps
        /\ \A c \in Calls : CallOK(c)

\* The flow of an instance, from startWorkflow, actOnStep or resumeWorkflow on.
FlowPCs == {"create", "count", "insert", "activate", "complete", "document", "reject",
            "cancel", "pend", "suspend", "returned", "resume"}

\* A call in the flow of an instance knows the instance and an order.
LEMMA FlowCall ==
  ASSUME TypeOK, NEW c \in Calls, call[c].pc \in FlowPCs
  PROVE  call[c].inst \in Instances /\ call[c].order \in Nat
BY DEF TypeOK, Call, Idle, FlowPCs

\* A call on a row knows the row.
LEMMA RowCall ==
  ASSUME TypeOK, NEW c \in Calls, call[c].pc \in {"instance", "step", "overdue"}
  PROVE  call[c].row \in Rows
BY DEF TypeOK, Call, Idle

\* actOnStep knows the row and the action before it writes.
LEMMA ActCall ==
  ASSUME TypeOK, NEW c \in Calls, call[c].pc \in {"instance", "step"}
  PROVE  /\ call[c].row \in Rows
         /\ call[c].action \in {"advance", "reject", "return"}
         /\ call[c] = [pc |-> call[c].pc, row |-> call[c].row, action |-> call[c].action]
BY DEF TypeOK, Call, Idle

\* A stored row belongs to an instance and to a step of the template.
LEMMA RowType ==
  ASSUME TypeOK, NEW r \in Rows, step[r] # Absent
  PROVE  step[r] \in StepRow /\ step[r].inst \in Instances /\ step[r].order \in Steps
BY DEF TypeOK, StepRow

\* Orders of required steps are positive.
LEMMA RequiredPositive == \A p \in Required : p \in Steps /\ p \in Nat /\ p > 0
BY EdmsWorkflowAssumption DEF StepDefinitions, Required

\* Going on after o, once every required step up to o is approved, leads to a
\* step whose predecessors are all approved, or to completion with nothing open.
LEMMA GoingOn ==
  ASSUME NEW c \in Calls, NEW i \in Instances, NEW o \in Nat,
         \A p \in Required : p <= o => <<i, p>> \in approved,
         GoOn(c, i, o)
  PROVE  \/ \E n \in Required :
              /\ Passed(i, n)
              /\ call' = [call EXCEPT ![c] = [pc |-> "insert", inst |-> i, order |-> n]]
         \/ /\ AllPassed(i)
            /\ call' = [call EXCEPT ![c] = [pc |-> "complete", inst |-> i, order |-> o]]
<1>1. CASE \E n \in Steps : IsNext(o, n) /\ Flow(c, "insert", i, n)
  <2>1. PICK n \in Steps : IsNext(o, n) /\ Flow(c, "insert", i, n)
    BY <1>1
  <2>2. n \in Required /\ Passed(i, n)
    BY <2>1, RequiredPositive DEF IsNext, Passed
  <2> QED BY <2>1, <2>2 DEF Flow
<1>2. CASE IsLast(o) /\ Flow(c, "complete", i, o)
  BY <1>2, RequiredPositive DEF IsLast, AllPassed, Flow
<1> QED BY <1>1, <1>2 DEF GoOn

\* A step preserves IInv if it keeps the identity of the rows, justifies what it
\* inserts or completes, and leaves its own call justified.
LEMMA Preserved ==
  ASSUME IInv, TypeOK', NEW c \in Calls,
         \A d \in Calls : d # c => call'[d] = call[d],
         approved \subseteq approved',
         \A r \in Rows : step[r] # Absent =>
           step'[r] # Absent /\ step'[r].inst = step[r].inst /\ step'[r].order = step[r].order,
         \A r \in Rows : step'[r] # Absent /\ step[r] = Absent =>
           step'[r].order \in Required /\ Passed(step'[r].inst, step'[r].order),
         \A i \in Instances : inst'[i] = "completed" =>
           inst[i] = "completed" \/ AllPassed(i),
         CallOK(c)'
  PROVE  IInv'
<1>1. RowsAreRequired'
  BY DEF IInv, RowsAreRequired
<1>2. NoStepBypassed'
  BY DEF IInv, NoStepBypassed, Passed
<1>3. CompletedPassedAllSteps'
  BY DEF IInv, CompletedPassedAllSteps, AllPassed
<1>4. ASSUME NEW d \in Calls PROVE CallOK(d)'
  <2>1. CASE d = c
    BY <2>1
  <2>2. CASE d # c
    <3>1. call'[d] = call[d] /\ CallOK(d)
      BY <2>2 DEF IInv
    <3>2. call[d].pc \in {"instance", "step", "overdue"} => call[d].row \in Rows
      BY RowCall DEF IInv
    <3> QED BY <3>1, <3>2 DEF CallOK, Passed, AllPassed
  <2> QED BY <2>1, <2>2
<1> QED BY <1>1, <1>2, <1>3, <1>4 DEF IInv

\* The initial state satisfies the inductive invariant.
LEMMA InitIInv == Init => IInv
<1> SUFFICES ASSUME Init PROVE IInv
  OBVIOUS
<1>1. TypeOK
  BY EdmsWorkflowAssumption DEF StepDefinitions, Init, TypeOK, Call, InstanceStatuses, DocumentStatuses
<1>2. RowsAreRequired /\ NoStepBypassed /\ CompletedPassedAllSteps
  BY DEF Init, RowsAreRequired, NoStepBypassed, CompletedPassedAllSteps
<1>3. \A c \in Calls : CallOK(c)
  BY DEF Init, CallOK, Idle
<1> QED BY <1>1, <1>2, <1>3 DEF IInv

\* Every step preserves it.
LEMMA NextIInv == IInv /\ [Next]_vars => IInv'
<1> SUFFICES ASSUME IInv, [Next]_vars PROVE IInv'
  OBVIOUS
<1> USE EdmsWorkflowAssumption DEF StepDefinitions
<1>0. TypeOK
  BY DEF IInv
<1>1. CASE UNCHANGED vars
  BY <1>1 DEF vars, IInv, TypeOK, RowsAreRequired, NoStepBypassed, Passed, AllPassed,
     CompletedPassedAllSteps, CallOK
<1>2. ASSUME NEW c \in Calls, NEW i \in Instances, StartWorkflow(c, i) \/ ResumeWorkflow(c, i)
      PROVE IInv'
  <2>1. TypeOK'
    BY <1>0, <1>2 DEF StartWorkflow, ResumeWorkflow, Flow, TypeOK, Call
  <2>2. CallOK(c)'
    BY <1>0, <1>2 DEF StartWorkflow, ResumeWorkflow, Flow, TypeOK, CallOK
  <2> QED BY <1>2, <2>1, <2>2, Preserved DEF StartWorkflow, ResumeWorkflow, Flow, TypeOK
<1>3. ASSUME NEW c \in Calls, CreateInstance(c) PROVE IInv'
  <2> DEFINE i == call[c].inst
  <2>1. i \in Instances
    BY <1>0, <1>3, FlowCall DEF CreateInstance, FlowPCs
  <2>2. CASE inst' = [inst EXCEPT ![i] = "active"] /\ GoOn(c, i, 0)
    <3>1. \A p \in Required : p <= 0 => <<i, p>> \in approved
      BY RequiredPositive
    <3>2. PICK n \in Nat : \/ /\ n \in Required /\ Passed(i, n)
                              /\ call' = [call EXCEPT ![c] = [pc |-> "insert", inst |-> i, order |-> n]]
                           \/ /\ AllPassed(i)
                              /\ call' = [call EXCEPT ![c] = [pc |-> "complete", inst |-> i, order |-> n]]
      BY <2>1, <2>2, <3>1, GoingOn, RequiredPositive
    <3>3. TypeOK'
      BY <1>0, <1>3, <2>1, <2>2, <3>2 DEF CreateInstance, TypeOK, Call, InstanceStatuses
    <3>4. CallOK(c)'
      BY <1>0, <1>3, <2>1, <3>2 DEF CreateInstance, TypeOK, CallOK, Passed, AllPassed
    <3> QED BY <1>0, <1>3, <2>1, <2>2, <3>2, <3>3, <3>4, Preserved DEF CreateInstance, TypeOK
  <2>3. CASE inst' = inst /\ Return(c)
    <3>1. TypeOK' /\ CallOK(c)'
      BY <1>0, <1>3, <2>3 DEF CreateInstance, Return, TypeOK, Call, CallOK, Idle
    <3> QED BY <1>0, <1>3, <2>3, <3>1, Preserved DEF CreateInstance, Return, TypeOK
  <2> QED BY <1>3, <2>2, <2>3 DEF CreateInstance
<1>4. ASSUME NEW c \in Calls, NEW r \in Rows, NEW a \in {"advance", "reject", "return"},
             LoadStep(c, r, a)
      PROVE IInv'
  <2>1. step[r] # Absent
    BY <1>4 DEF LoadStep, Actionable, Absent
  <2>2. TypeOK'
    BY <1>0, <1>4 DEF LoadStep, TypeOK, Call
  <2>3. CallOK(c)'
    BY <1>0, <1>4, <2>1 DEF LoadStep, TypeOK, CallOK
  <2> QED BY <1>0, <1>4, <2>2, <2>3, Preserved DEF LoadStep, TypeOK
<1>5. ASSUME NEW c \in Calls, LoadInstance(c) PROVE IInv'
  <2>1. /\ call[c].row \in Rows /\ step[call[c].row] # Absent
        /\ call[c].action \in {"advance", "reject", "return"}
        /\ call[c] = [pc |-> "instance", row |-> call[c].row, action |-> call[c].action]
    BY <1>0, <1>5, ActCall DEF LoadInstance, IInv, CallOK
  <2>2. \/ call' = [call EXCEPT ![c] =
                     [pc |-> "step", row |-> call[c].row, action |-> call[c].action]]
        \/ call' = [call EXCEPT ![c] = Idle]
    BY <1>0, <1>5, <2>1 DEF LoadInstance, Return, TypeOK
  <2>3. TypeOK'
    BY <1>0, <1>5, <2>1, <2>2 DEF LoadInstance, TypeOK, Call
  <2>4. CallOK(c)'
    BY <1>0, <1>5, <2>1, <2>2 DEF LoadInstance, TypeOK, CallOK, Idle
  <2> QED BY <1>0, <1>5, <2>2, <2>3, <2>4, Preserved DEF LoadInstance, TypeOK
<1>6. ASSUME NEW c \in Calls, SaveStep(c) PROVE IInv'
  <2> DEFINE r == call[c].row
             i == step[r].inst
             o == step[r].order
  <2>1. /\ r \in Rows /\ step[r] # Absent /\ step[r] \in StepRow
        /\ i \in Instances /\ o \in Required /\ o \in Nat /\ Passed(i, o)
    BY <1>0, <1>6, ActCall, RowType, RequiredPositive
       DEF SaveStep, IInv, CallOK, RowsAreRequired, NoStepBypassed
  <2>2. PICK s \in {"returned", "completed"} : step' = [step EXCEPT ![r].status = s]
    BY <1>6 DEF SaveStep
  <2>3. \/ /\ call' = [call EXCEPT ![c] = [pc |-> "count", inst |-> i, order |-> o]]
           /\ approved' = approved \cup {<<i, o>>}
        \/ /\ \E pc \in {"reject", "pend"} :
                call' = [call EXCEPT ![c] = [pc |-> pc, inst |-> i, order |-> o]]
           /\ approved' = approved
    BY <1>6 DEF SaveStep, Flow
  <2>4. TypeOK'
    <3>1. step' \in [Rows -> StepRow \cup {Absent}]
      BY <1>0, <2>1, <2>2 DEF TypeOK, StepRow
    <3>2. call' \in [Calls -> Call] /\ approved' \subseteq Instances \X Steps
      BY <1>0, <2>1, <2>3 DEF TypeOK, Call, Required
    <3> QED BY <1>0, <1>6, <3>1, <3>2 DEF SaveStep, TypeOK
  <2>5. CallOK(c)'
    BY <1>0, <2>1, <2>3 DEF TypeOK, CallOK, Passed
  <2>6. \A q \in Rows : /\ step[q] # Absent => /\ step'[q] # Absent
                                                /\ step'[q].inst = step[q].inst
                                                /\ step'[q].order = step[q].order
                        /\ step[q] = Absent => step'[q] = Absent
    BY <1>0, <2>1, <2>2 DEF TypeOK, StepRow, Absent
  <2> QED BY <1>0, <1>6, <2>3, <2>4, <2>5, <2>6, Preserved DEF SaveStep, TypeOK
<1>7. ASSUME NEW c \in Calls, Advance(c) PROVE IInv'
  <2> DEFINE i == call[c].inst
             o == call[c].order
  <2>0. call[c].pc = "count"
    BY <1>7 DEF Advance
  <2>01. i \in Instances /\ o \in Nat
    BY <1>0, <2>0, FlowCall DEF FlowPCs
  <2>02. Passed(i, o) /\ <<i, o>> \in approved
    BY <2>0 DEF IInv, CallOK
  <2>1. /\ i \in Instances /\ o \in Nat
        /\ \A p \in Required : p <= o => <<i, p>> \in approved
    BY <2>01, <2>02, RequiredPositive DEF Passed
  <2>2. CASE GoOn(c, i, o)
    <3>1. PICK n \in Nat : \/ /\ n \in Required /\ Passed(i, n)
                              /\ call' = [call EXCEPT ![c] = [pc |-> "insert", inst |-> i, order |-> n]]
                           \/ /\ AllPassed(i)
                              /\ call' = [call EXCEPT ![c] = [pc |-> "complete", inst |-> i, order |-> n]]
      BY <2>1, <2>2, GoingOn, RequiredPositive
    <3>2. TypeOK'
      BY <1>0, <1>7, <2>1, <3>1 DEF Advance, TypeOK, Call
    <3>3. CallOK(c)'
      BY <1>0, <1>7, <2>1, <3>1 DEF Advance, TypeOK, CallOK, Passed, AllPassed
    <3> QED BY <1>0, <1>7, <3>1, <3>2, <3>3, Preserved DEF Advance, TypeOK
  <2>3. CASE Return(c)
    <3>1. TypeOK' /\ CallOK(c)'
      BY <1>0, <1>7, <2>3 DEF Advance, Return, TypeOK, Call, CallOK, Idle
    <3> QED BY <1>0, <1>7, <2>3, <3>1, Preserved DEF Advance, Return, TypeOK
  <2> QED BY <1>7, <2>2, <2>3 DEF Advance
<1>8. ASSUME NEW c \in Calls, NEW r \in Rows, InsertStep(c, r) PROVE IInv'
  <2>1. /\ call[c].inst \in Instances /\ call[c].order \in Required /\ call[c].order \in Steps
        /\ call[c].order \in Nat /\ Passed(call[c].inst, call[c].order)
    BY <1>0, <1>8, FlowCall DEF InsertStep, FlowPCs, IInv, CallOK, Required
  <2>2. /\ step[r] = Absent
        /\ step' = [step EXCEPT ![r] =
             [status |-> "active", inst |-> call[c].inst, order |-> call[c].order]]
        /\ call' = [call EXCEPT ![c] =
             [pc |-> "activate", inst |-> call[c].inst, order |-> call[c].order]]
        /\ UNCHANGED <<document, inst, approved, closed, aborts>>
    BY <1>8 DEF InsertStep, Flow
  <2>3. TypeOK'
    BY <1>0, <2>1, <2>2 DEF TypeOK, StepRow, Call
  <2>4. CallOK(c)'
    BY <1>0, <2>2 DEF TypeOK, CallOK
  <2> QED BY <1>0, <2>1, <2>2, <2>3, <2>4, Preserved DEF TypeOK
<1>9. ASSUME NEW c \in Calls, SaveActivated(c) PROVE IInv'
  <2>1. TypeOK' /\ CallOK(c)'
    BY <1>0, <1>9, FlowCall DEF SaveActivated, Return, TypeOK, Call, CallOK, Idle, InstanceStatuses, FlowPCs
  <2> QED BY <1>0, <1>9, <2>1, Preserved DEF SaveActivated, Return, TypeOK
<1>10. ASSUME NEW c \in Calls, CompleteInstance(c) PROVE IInv'
  <2>1. call[c].inst \in Instances /\ call[c].order \in Nat /\ AllPassed(call[c].inst)
    BY <1>0, <1>10, FlowCall DEF CompleteInstance, FlowPCs, IInv, CallOK
  <2>2. TypeOK' /\ CallOK(c)'
    BY <1>0, <1>10, <2>1 DEF CompleteInstance, Flow, TypeOK, Call, CallOK, InstanceStatuses
  <2> QED BY <1>0, <1>10, <2>1, <2>2, Preserved DEF CompleteInstance, Flow, TypeOK
<1>11. ASSUME NEW c \in Calls, CompleteDocument(c) \/ CancelDocument(c) \/ UpdateStatus(c)
       PROVE IInv'
  <2>1. document' \in DocumentStatuses
    BY <1>0, <1>11 DEF CompleteDocument, CancelDocument, UpdateStatus, TypeOK, Call, Idle,
       DocumentStatuses
  <2>2. call' = [call EXCEPT ![c] = Idle] /\ UNCHANGED <<inst, step, approved, closed, aborts>>
    BY <1>11 DEF CompleteDocument, CancelDocument, UpdateStatus, Return
  <2>3. TypeOK' /\ CallOK(c)'
    BY <1>0, <2>1, <2>2 DEF TypeOK, Call, CallOK, Idle
  <2> QED BY <1>0, <2>2, <2>3, Preserved DEF TypeOK
<1>12. ASSUME NEW c \in Calls, RejectInstance(c) \/ SuspendInstance(c) PROVE IInv'
  <2>1. call[c].inst \in Instances /\ call[c].order \in Nat
    BY <1>0, <1>12, FlowCall DEF RejectInstance, SuspendInstance, FlowPCs
  <2>2. TypeOK' /\ CallOK(c)'
    BY <1>0, <1>12, <2>1 DEF RejectInstance, SuspendInstance, Flow, Return, TypeOK, Call,
       CallOK, Idle, InstanceStatuses
  <2> QED BY <1>0, <1>12, <2>1, <2>2, Preserved
          DEF RejectInstance, SuspendInstance, Flow, Return, TypeOK
<1>13. ASSUME NEW c \in Calls, PendSteps(c) PROVE IInv'
  <2>1. call[c].inst \in Instances /\ call[c].order \in Nat
    BY <1>0, <1>13, FlowCall DEF PendSteps, FlowPCs
  <2>2. \A r \in Rows :
          \/ step'[r] = step[r]
          \/ /\ step[r] # Absent /\ step[r] \in StepRow
             /\ step'[r] = [step[r] EXCEPT !.status = "pending"]
    BY <1>0, <1>13, RowType DEF PendSteps, Absent
  <2>3. \A r \in Rows : /\ step'[r] \in StepRow \cup {Absent}
                        /\ step[r] # Absent => /\ step'[r] # Absent
                                                /\ step'[r].inst = step[r].inst
                                                /\ step'[r].order = step[r].order
                        /\ step[r] = Absent => step'[r] = Absent
    <3> SUFFICES ASSUME NEW r \in Rows
                 PROVE  /\ step'[r] \in StepRow \cup {Absent}
                        /\ step[r] # Absent => /\ step'[r] # Absent
                                                /\ step'[r].inst = step[r].inst
                                                /\ step'[r].order = step[r].order
                        /\ step[r] = Absent => step'[r] = Absent
      OBVIOUS
    <3>1. CASE step'[r] = step[r]
      BY <1>0, <3>1 DEF TypeOK
    <3>2. CASE step'[r] # step[r]
      <4>1. /\ step[r] # Absent /\ step[r] \in StepRow
            /\ step'[r] = [step[r] EXCEPT !.status = "pending"]
        BY <2>2, <3>2
      <4>2. /\ step'[r] \in StepRow /\ step'[r].inst = step[r].inst
            /\ step'[r].order = step[r].order /\ step'[r].status = "pending"
        BY <4>1 DEF StepRow
      <4> QED BY <4>1, <4>2 DEF Absent
    <3> QED BY <3>1, <3>2
  <2>4. TypeOK'
    <3>1. step' \in [Rows -> StepRow \cup {Absent}]
      BY <1>13, <2>3 DEF PendSteps
    <3>2. call' \in [Calls -> Call]
      BY <1>0, <1>13, <2>1 DEF PendSteps, Flow, TypeOK, Call
    <3> QED BY <1>0, <1>13, <3>1, <3>2 DEF PendSteps, TypeOK
  <2>5. CallOK(c)'
    BY <1>0, <1>13 DEF PendSteps, Flow, TypeOK, CallOK
  <2> QED BY <1>0, <1>13, <2>3, <2>4, <2>5, Preserved DEF PendSteps, Flow, TypeOK
<1>14. ASSUME NEW c \in Calls, FindReturned(c) PROVE IInv'
  <2> DEFINE i == call[c].inst
  <2>1. i \in Instances
    BY <1>0, <1>14, FlowCall DEF FindReturned, FlowPCs
  <2>2. PICK o \in Nat \ {0} :
          ResumeOrder(i, o) /\ call' = [call EXCEPT ![c] = [pc |-> "resume", inst |-> i, order |-> o]]
    <3>1. PICK o \in Steps \cup {1} \cup {ReturnTo[t] : t \in Steps} :
            ResumeOrder(i, o) /\ Flow(c, "resume", i, o)
      BY <1>14 DEF FindReturned
    <3>2. o \in Nat \ {0}
      BY <3>1
    <3> QED BY <3>1, <3>2 DEF Flow
  <2>3. Passed(i, o)
    <3>1. CASE o = 1
      BY <3>1, RequiredPositive DEF Passed
    <3>2. CASE \E r \in ReturnedRows(i) : o = ReturnTo[step[r].order]
      <4>1. PICK r \in Rows : /\ step[r].status = "returned" /\ step[r].inst = i
                              /\ o = ReturnTo[step[r].order]
        BY <3>2 DEF ReturnedRows
      <4>a. step[r] # Absent
        BY <4>1 DEF Absent
      <4>2. step[r] # Absent /\ step[r].order \in Steps /\ step[r].order \in Nat
        BY <1>0, <4>a, RowType
      <4>3. Passed(i, step[r].order) /\ o <= step[r].order
        BY <4>1, <4>2 DEF IInv, NoStepBypassed
      <4> QED BY <4>2, <4>3, RequiredPositive DEF Passed
    <3> QED BY <2>2, <3>1, <3>2 DEF ResumeOrder
  <2>4. TypeOK'
    BY <1>0, <1>14, <2>1, <2>2 DEF FindReturned, TypeOK, Call
  <2>5. CallOK(c)'
    BY <1>0, <1>14, <2>2, <2>3 DEF FindReturned, TypeOK, CallOK, Passed
  <2> QED BY <1>0, <1>14, <2>2, <2>4, <2>5, Preserved DEF FindReturned, TypeOK
<1>15. ASSUME NEW c \in Calls, ResumeInstance(c) PROVE IInv'
  <2> DEFINE i == call[c].inst
             o == call[c].order
  <2>1. i \in Instances /\ o \in Nat \ {0} /\ Passed(i, o)
    <3>1. call[c].pc = "resume"
      BY <1>15 DEF ResumeInstance
    <3>2. i \in Instances /\ o \in Nat
      BY <1>0, <3>1, FlowCall DEF FlowPCs
    <3>3. o > 0 /\ Passed(i, o)
      BY <3>1 DEF IInv, CallOK
    <3> QED BY <3>2, <3>3
  <2>2. CASE inst' = [inst EXCEPT ![i] = "active"] /\ GoOn(c, i, o - 1)
    <3>1. o - 1 \in Nat /\ \A p \in Required : p <= o - 1 => <<i, p>> \in approved
      BY <2>1, RequiredPositive DEF Passed
    <3>2. PICK n \in Nat : \/ /\ n \in Required /\ Passed(i, n)
                              /\ call' = [call EXCEPT ![c] = [pc |-> "insert", inst |-> i, order |-> n]]
                           \/ /\ AllPassed(i)
                              /\ call' = [call EXCEPT ![c] = [pc |-> "complete", inst |-> i, order |-> n]]
      BY <2>1, <2>2, <3>1, GoingOn, RequiredPositive
    <3>3. TypeOK'
      BY <1>0, <1>15, <2>1, <2>2, <3>2 DEF ResumeInstance, TypeOK, Call, InstanceStatuses
    <3>4. CallOK(c)'
      BY <1>0, <1>15, <2>1, <3>2 DEF ResumeInstance, TypeOK, CallOK, Passed, AllPassed
    <3> QED BY <1>0, <1>15, <2>1, <2>2, <3>2, <3>3, <3>4, Preserved DEF ResumeInstance, TypeOK
  <2>3. CASE inst' \in {inst, [inst EXCEPT ![i] = "active"]} /\ Return(c)
    <3>1. TypeOK' /\ CallOK(c)'
      BY <1>0, <1>15, <2>1, <2>3 DEF ResumeInstance, Return, TypeOK, Call, CallOK, Idle,
         InstanceStatuses
    <3> QED BY <1>0, <1>15, <2>1, <2>3, <3>1, Preserved DEF ResumeInstance, Return, TypeOK
  <2> QED BY <1>15, <2>2, <2>3 DEF ResumeInstance
<1>16. ASSUME NEW c \in Calls, ActivationStalls(c) \/ Abort(c) PROVE IInv'
  <2>1. TypeOK' /\ CallOK(c)'
    BY <1>0, <1>16 DEF ActivationStalls, Abort, Return, TypeOK, Call, CallOK, Idle
  <2> QED BY <1>0, <1>16, <2>1, Preserved DEF ActivationStalls, Abort, Return, TypeOK
<1>17. ASSUME NEW c \in Calls, NEW r \in Rows, LoadOverdue(c, r) PROVE IInv'
  <2>1. TypeOK' /\ CallOK(c)'
    BY <1>0, <1>17 DEF LoadOverdue, TypeOK, Call, CallOK, Absent
  <2> QED BY <1>0, <1>17, <2>1, Preserved DEF LoadOverdue, TypeOK
<1>18. ASSUME NEW c \in Calls, SaveOverdue(c) PROVE IInv'
  <2> DEFINE r == call[c].row
  <2>1. r \in Rows /\ step[r] # Absent /\ step[r] \in StepRow
    BY <1>0, <1>18, RowCall, RowType DEF SaveOverdue, IInv, CallOK
  <2>2. /\ step' = [step EXCEPT ![r].status = "overdue"]
        /\ call' = [call EXCEPT ![c] = Idle]
        /\ UNCHANGED <<document, inst, approved, closed, aborts>>
    BY <1>18 DEF SaveOverdue, Return
  <2>3. \A q \in Rows : /\ step[q] # Absent => /\ step'[q] # Absent
                                                /\ step'[q].inst = step[q].inst
                                                /\ step'[q].order = step[q].order
                        /\ step[q] = Absent => step'[q] = Absent
    BY <1>0, <2>1, <2>2 DEF TypeOK, StepRow, Absent
  <2>4. TypeOK' /\ CallOK(c)'
    BY <1>0, <2>1, <2>2 DEF TypeOK, StepRow, Call, CallOK, Idle
  <2> QED BY <1>0, <2>2, <2>3, <2>4, Preserved DEF TypeOK
<1>19. ASSUME NEW c \in Calls, NEW t \in DocumentStatuses, LoadForTransition(c, t) PROVE IInv'
  <2>1. TypeOK' /\ CallOK(c)'
    BY <1>0, <1>19 DEF LoadForTransition, TypeOK, Call, CallOK
  <2> QED BY <1>0, <1>19, <2>1, Preserved DEF LoadForTransition, TypeOK
<1> QED
  BY <1>1, <1>2, <1>3, <1>4, <1>5, <1>6, <1>7, <1>8, <1>9, <1>10, <1>11, <1>12, <1>13,
     <1>14, <1>15, <1>16, <1>17, <1>18, <1>19 DEF Next

\* The inductive invariant holds in every reachable state.
THEOREM WorkflowInvariant == Spec => []IInv
BY InitIInv, NextIInv, PTL DEF Spec

\* Type correctness for every template and any number of calls.
THEOREM WorkflowTypeOK == Spec => []TypeOK
<1>1. IInv => TypeOK
  BY DEF IInv
<1> QED BY <1>1, WorkflowInvariant, PTL

\* Whatever calls race or are cut short, no step is activated before every
\* earlier required step has been approved (advanceWorkflow, resumeWorkflow).
THEOREM WorkflowNoStepBypassed == Spec => []NoStepBypassed
<1>1. IInv => NoStepBypassed
  BY DEF IInv
<1> QED BY <1>1, WorkflowInvariant, PTL

\* A completed instance has the approval of every required step
\* (completeInstance).
THEOREM WorkflowCompletedPassedAllSteps == Spec => []CompletedPassedAllSteps
<1>1. IInv => CompletedPassedAllSteps
  BY DEF IInv
<1> QED BY <1>1, WorkflowInvariant, PTL

-----------------------------------------------------------------------------
\* That an active instance waits for somebody.
\* It does so as long as calls come one after the other, no step is parallel or has a
\* deadline, nothing is cut short and return targets are steps of the template: a second
\* call, a threshold no row reaches, the cron job (see RejectionIsFinal and the overdue
\* run) or a crash can strand it.
OneAtATime ==
  /\ \A c, d \in Calls : c = d
  /\ Parallel = {} /\ Timed = {} /\ MaxAborts = 0
  /\ \A o \in Steps : ReturnTo[o] \in Steps

HasActive(i) == \E r \in Rows : Actionable(r) /\ step[r].inst = i

\* What the sole call has established for its next write: the row it acts on is still
\* active, an instance that was returned has the row that was, and one that was just
\* completed or rejected is not active.
CallIsOn(c) ==
  /\ call[c].pc # "overdue"
  /\ call[c].pc \in {"instance", "step"} => step[call[c].row].status = "active"
  /\ call[c].pc = "create" => inst[call[c].inst] = "absent"
  /\ call[c].pc = "activate" => HasActive(call[c].inst)
  /\ call[c].pc \in {"document", "cancel"} => inst[call[c].inst] \in {"completed", "rejected"}
  /\ call[c].pc \in {"pend", "suspend"} => ReturnedRows(call[c].inst) # {}
  /\ call[c].pc \in {"returned", "resume"} => inst[call[c].inst] = "suspended"
  /\ call[c].pc = "resume" => call[c].order \in Steps

\* The inductive invariant: beside IInv, a suspended instance has a row that was returned.
ProceedInv ==
  /\ IInv
  /\ ActiveInstanceCanProceed
  /\ \A i \in Instances : inst[i] = "suspended" => ReturnedRows(i) # {}
  /\ \A c \in Calls : CallIsOn(c)

\* Going on takes the call to the insertion of a row or to the completion.
LEMMA GoesOn ==
  ASSUME NEW c \in Calls, NEW i \in Instances, NEW o \in Nat, call \in [Calls -> Call], GoOn(c, i, o)
  PROVE  call'[c].pc \in {"insert", "complete"} /\ call'[c].inst = i
BY DEF GoOn, Flow

\* A step of the sole call that leaves the rows alone.
LEMMA CallGoesOn ==
  ASSUME OneAtATime, ProceedInv, IInv', NEW c \in Calls, UNCHANGED step,
         \A i \in Instances : inst'[i] = "active" =>
           AtWorkOn(c, i)' \/ HasActive(i) \/ (inst[i] = "active" /\ ~AtWorkOn(c, i)),
         \A i \in Instances : inst'[i] = "suspended" => inst[i] = "suspended" \/ ReturnedRows(i) # {},
         CallIsOn(c)'
  PROVE  ProceedInv'
<1>1. \A d \in Calls : d = c
  BY DEF OneAtATime
<1>2. \A i \in Instances : (HasActive(i) <=> HasActive(i)') /\ ReturnedRows(i)' = ReturnedRows(i)
  BY DEF HasActive, Actionable, ReturnedRows
<1>3. \A i \in Instances : inst[i] = "active" => HasActive(i) \/ AtWorkOn(c, i)
  BY <1>1 DEF ProceedInv, ActiveInstanceCanProceed, HasActive
<1>4. ActiveInstanceCanProceed'
  <2> SUFFICES ASSUME NEW i \in Instances, inst'[i] = "active"
               PROVE  HasActive(i)' \/ \E d \in Calls : AtWorkOn(d, i)'
    BY DEF ActiveInstanceCanProceed, HasActive
  <2> QED BY <1>2, <1>3
<1>5. \A i \in Instances : inst'[i] = "suspended" => ReturnedRows(i)' # {}
  BY <1>2 DEF ProceedInv
<1> QED BY <1>1, <1>4, <1>5 DEF ProceedInv

\* A step of the sole call on rows of the instance it works on.
LEMMA RowsGoOn ==
  ASSUME OneAtATime, ProceedInv, IInv', NEW c \in Calls, NEW i \in Instances, UNCHANGED inst,
         \A j \in Instances : AtWorkOn(c, j) => j = i, AtWorkOn(c, i)',
         \A r \in Rows : step'[r] = step[r] \/ step[r].inst = i \/ step[r] = Absent,
         \A r \in Rows : step[r].status = "returned" => step'[r] = step[r],
         CallIsOn(c)'
  PROVE  ProceedInv'
<1>1. \A d \in Calls : d = c
  BY DEF OneAtATime
<1>2. ASSUME NEW j \in Instances, inst'[j] = "active" PROVE HasActive(j)' \/ \E d \in Calls : AtWorkOn(d, j)'
  <2>1. CASE j = i
    BY <2>1
  <2>2. CASE j # i
    <3>1. HasActive(j)
      BY <1>1, <1>2, <2>2 DEF ProceedInv, ActiveInstanceCanProceed, HasActive
    <3>2. PICK r \in Rows : Actionable(r) /\ step[r].inst = j
      BY <3>1 DEF HasActive
    <3>3. step'[r] = step[r]
      BY <2>2, <3>2 DEF Actionable, Absent
    <3> QED BY <3>2, <3>3 DEF HasActive, Actionable
  <2> QED BY <2>1, <2>2
<1>3. ASSUME NEW j \in Instances, inst'[j] = "suspended" PROVE ReturnedRows(j)' # {}
  <2>1. PICK r \in Rows : step[r].status = "returned" /\ step[r].inst = j
    BY <1>3 DEF ProceedInv, ReturnedRows
  <2>2. step'[r].status = "returned" /\ step'[r].inst = j
    BY <2>1
  <2> QED BY <2>2 DEF ReturnedRows
<1>4. ActiveInstanceCanProceed'
  BY <1>2 DEF ActiveInstanceCanProceed, HasActive
<1> QED BY <1>1, <1>3, <1>4 DEF ProceedInv

\* It holds at the start.
LEMMA InitProceedInv == Init => ProceedInv
<1> SUFFICES ASSUME Init PROVE ProceedInv
  OBVIOUS
<1>1. IInv
  BY InitIInv
<1>2. ActiveInstanceCanProceed /\ (\A i \in Instances : inst[i] # "suspended") /\ \A c \in Calls : CallIsOn(c)
  BY DEF Init, ActiveInstanceCanProceed, CallIsOn, Idle
<1> QED BY <1>1, <1>2 DEF ProceedInv

\* Every step preserves it.
LEMMA NextProceedInv ==
  ASSUME OneAtATime PROVE ProceedInv /\ [Next]_vars => ProceedInv'
<1> SUFFICES ASSUME ProceedInv, [Next]_vars PROVE ProceedInv'
  OBVIOUS
<1>0. IInv /\ IInv' /\ TypeOK /\ (\A c \in Calls : CallIsOn(c)) /\ call \in [Calls -> Call] /\ inst \in [Instances -> InstanceStatuses]
  BY NextIInv DEF ProceedInv, IInv, TypeOK
<1>1. CASE UNCHANGED vars
  <2>1. /\ UNCHANGED <<inst, step, call>>
        /\ \A i \in Instances, c \in Calls : AtWorkOn(c, i)' <=> AtWorkOn(c, i)
    BY <1>1 DEF vars, AtWorkOn
  <2> QED BY <1>0, <2>1 DEF ProceedInv, ActiveInstanceCanProceed, Actionable, ReturnedRows, CallIsOn, HasActive
<1>2. ASSUME NEW c \in Calls, NEW i \in Instances, StartWorkflow(c, i) \/ ResumeWorkflow(c, i) PROVE ProceedInv'
  <2>1. call'[c].pc \in {"create", "returned"} /\ call'[c].inst = i /\ UNCHANGED <<inst, step>> /\ call[c].pc = "idle"
        /\ (call'[c].pc = "create" => inst[i] = "absent") /\ (call'[c].pc = "returned" => inst[i] = "suspended")
    BY <1>0, <1>2 DEF StartWorkflow, ResumeWorkflow, Flow, Idle
  <2>2. CallIsOn(c)' /\ \A j \in Instances : ~AtWorkOn(c, j)
    BY <2>1 DEF CallIsOn, AtWorkOn
  <2> QED BY <1>0, <2>1, <2>2, CallGoesOn
<1>3. ASSUME NEW c \in Calls, CreateInstance(c) \/ ResumeInstance(c) PROVE ProceedInv'
  <2>0. call[c].pc \in {"create", "resume"} /\ call[c].inst \in Instances /\ call[c].order \in Nat
    BY <1>0, <1>3, FlowCall DEF CreateInstance, ResumeInstance, FlowPCs
  <2>p. PICK i \in Instances : i = call[c].inst
    BY <2>0
  <2>1. /\ UNCHANGED step /\ inst[i] \in {"absent", "suspended"}
        /\ call[c].pc = "resume" => call[c].order \in Steps
    BY <1>0, <1>3, <2>p DEF CreateInstance, ResumeInstance, CallIsOn
  <2>2. \A j \in Instances : AtWorkOn(c, j) => j = i
    BY <2>0, <2>p DEF AtWorkOn
  <2>3. CASE inst' = [inst EXCEPT ![i] = "active"] /\ \E o \in Nat : GoOn(c, i, o)
    <3>1. call'[c].pc \in {"insert", "complete"} /\ call'[c].inst = i
      BY <1>0, <2>3, GoesOn
    <3>2. CallIsOn(c)' /\ AtWorkOn(c, i)'
      BY <3>1 DEF CallIsOn, AtWorkOn
    <3>3. \A j \in Instances : j # i => inst'[j] = inst[j]
      BY <1>0, <2>3
    <3>4. inst'[i] = "active"
      BY <1>0, <2>3
    <3>5. /\ \A j \in Instances : inst'[j] = "active" => AtWorkOn(c, j)' \/ (inst[j] = "active" /\ ~AtWorkOn(c, j))
          /\ \A j \in Instances : inst'[j] = "suspended" => inst[j] = "suspended"
      BY <2>2, <3>2, <3>3, <3>4
    <3> QED BY <1>0, <2>1, <3>2, <3>5, CallGoesOn
  <2>4. CASE inst' = inst /\ Return(c)
    <3>1. call'[c].pc = "idle"
      BY <1>0, <2>4 DEF Return, Idle
    <3>2. CallIsOn(c)'
      BY <3>1 DEF CallIsOn
    <3> QED BY <1>0, <2>1, <2>2, <2>4, <3>2, CallGoesOn
  <2>5. ASSUME call[c].order \in Steps PROVE call[c].order - 1 \in Nat
    <3>1. call[c].order \in Nat \ {0}
      BY <2>5, EdmsWorkflowAssumption
    <3> QED BY <3>1
  <2>6. CASE CreateInstance(c)
    <3>1. \/ inst' = [inst EXCEPT ![i] = "active"] /\ GoOn(c, i, 0)
          \/ inst' = inst /\ Return(c)
      BY <2>6, <2>p DEF CreateInstance
    <3> QED BY <2>3, <2>4, <3>1
  <2>7. CASE ResumeInstance(c)
    <3>1. \/ inst' = [inst EXCEPT ![i] = "active"] /\ GoOn(c, i, call[c].order - 1)
          \/ inst' = inst /\ Return(c)
      BY <2>1, <2>7, <2>p DEF ResumeInstance
    <3>2. call[c].order - 1 \in Nat
      BY <2>1, <2>5, <2>7 DEF ResumeInstance
    <3> QED BY <2>3, <2>4, <3>1, <3>2
  <2> QED BY <1>3, <2>6, <2>7
<1>4. ASSUME NEW c \in Calls, NEW r \in Rows, NEW a \in {"advance", "reject", "return"}, LoadStep(c, r, a) PROVE ProceedInv'
  <2>1. call'[c].pc = "instance" /\ call'[c].row = r /\ step[r].status = "active" /\ UNCHANGED <<inst, step>> /\ call[c].pc = "idle"
    BY <1>0, <1>4 DEF LoadStep, Actionable, Idle
  <2>2. CallIsOn(c)' /\ \A j \in Instances : ~AtWorkOn(c, j)
    BY <2>1 DEF CallIsOn, AtWorkOn
  <2> QED BY <1>0, <2>1, <2>2, CallGoesOn
<1>5. ASSUME NEW c \in Calls, LoadInstance(c) PROVE ProceedInv'
  <2>1. /\ call[c].pc = "instance" /\ UNCHANGED <<inst, step>> /\ step[call[c].row].status = "active"
        /\ call[c] = [pc |-> "instance", row |-> call[c].row, action |-> call[c].action]
    BY <1>0, <1>5, ActCall DEF LoadInstance, CallIsOn
  <2>2. CASE call' = [call EXCEPT ![c].pc = "step"]
    <3>1. call'[c].pc = "step" /\ call'[c].row = call[c].row
      BY <1>0, <2>1, <2>2
    <3>2. CallIsOn(c)' /\ \A j \in Instances : AtWorkOn(c, j) => AtWorkOn(c, j)'
      BY <2>1, <3>1 DEF CallIsOn, AtWorkOn
    <3> QED BY <1>0, <2>1, <3>2, CallGoesOn
  <2>3. CASE Return(c) /\ inst[step[call[c].row].inst] # "active"
    <3>1. call'[c].pc = "idle"
      BY <1>0, <2>3 DEF Return, Idle
    <3>2. CallIsOn(c)' /\ \A j \in Instances : AtWorkOn(c, j) => inst[j] # "active"
      BY <2>1, <2>3, <3>1 DEF CallIsOn, AtWorkOn
    <3> QED BY <1>0, <2>1, <3>2, CallGoesOn
  <2> QED BY <1>5, <2>2, <2>3 DEF LoadInstance
<1>6. ASSUME NEW c \in Calls, SaveStep(c) PROVE ProceedInv'
  <2> DEFINE r == call[c].row
  <2>1. /\ call[c].pc = "step" /\ r \in Rows /\ step[r].status = "active" /\ step[r] # Absent
        /\ UNCHANGED inst
        /\ step' = [step EXCEPT ![r].status = IF call[c].action = "return" THEN "returned" ELSE "completed"]
    BY <1>0, <1>6, RowCall DEF SaveStep, CallIsOn, IInv, CallOK
  <2>2. step[r].inst \in Instances /\ step[r] \in StepRow
    BY <1>0, <2>1, RowType
  <2>p. PICK i \in Instances : i = step[r].inst
    BY <2>2
  <2>3. call'[c].pc \in {"count", "reject", "pend"} /\ call'[c].inst = i /\ (call'[c].pc = "pend" => call[c].action = "return")
    <3>1. call[c].action \in {"advance", "reject", "return"}
      BY <1>0, <2>1, ActCall
    <3> QED BY <1>0, <1>6, <2>p, <3>1 DEF SaveStep, Flow
  <2>4. (\A q \in Rows : q # r => step'[q] = step[q]) /\ step'[r].inst = i
        /\ (call[c].action = "return" => step'[r].status = "returned")
    BY <1>0, <2>1, <2>2, <2>p DEF TypeOK, StepRow
  <2>5. AtWorkOn(c, i)' /\ \A j \in Instances : AtWorkOn(c, j) => j = i
    BY <2>1, <2>p, <2>3 DEF AtWorkOn
  <2>6. CallIsOn(c)'
    BY <2>1, <2>3, <2>4 DEF CallIsOn, ReturnedRows
  <2>7. /\ \A q \in Rows : step'[q] = step[q] \/ step[q].inst = i
        /\ \A q \in Rows : step[q].status = "returned" => step'[q] = step[q]
    BY <2>1, <2>p, <2>4
  <2> QED BY <1>0, <2>1, <2>5, <2>6, <2>7, RowsGoOn
<1>7. ASSUME NEW c \in Calls, Advance(c) PROVE ProceedInv'
  <2> DEFINE i == call[c].inst
  <2>1. call[c].pc = "count" /\ UNCHANGED <<inst, step>> /\ i \in Instances /\ call[c].order \in Nat
    BY <1>0, <1>7, FlowCall DEF Advance, FlowPCs
  <2>2. GoOn(c, i, call[c].order)
    BY <1>7 DEF Advance, EnoughCompleted, OneAtATime
  <2>3. call'[c].pc \in {"insert", "complete"} /\ call'[c].inst = i
    BY <1>0, <2>1, <2>2, GoesOn
  <2>4. CallIsOn(c)' /\ \A j \in Instances : AtWorkOn(c, j) => AtWorkOn(c, j)'
    BY <2>1, <2>3 DEF CallIsOn, AtWorkOn
  <2> QED BY <1>0, <2>1, <2>4, CallGoesOn
<1>8. ASSUME NEW c \in Calls, NEW r \in Rows, InsertStep(c, r) PROVE ProceedInv'
  <2>p. PICK i \in Instances : i = call[c].inst
    BY <1>0, <1>8, FlowCall DEF InsertStep, FlowPCs
  <2>1. call[c].pc = "insert" /\ UNCHANGED inst /\ step[r] = Absent
        /\ step' = [step EXCEPT ![r] = [status |-> "active", inst |-> i, order |-> call[c].order]]
    BY <1>8, <2>p DEF InsertStep
  <2>2. call'[c].pc = "activate" /\ call'[c].inst = i
    BY <1>0, <1>8, <2>p DEF InsertStep, Flow
  <2>3. (\A q \in Rows : q # r => step'[q] = step[q]) /\ step'[r].inst = i /\ step'[r].status = "active"
    BY <1>0, <2>1 DEF TypeOK
  <2>4. CallIsOn(c)' /\ AtWorkOn(c, i)' /\ \A j \in Instances : AtWorkOn(c, j) => j = i
    BY <2>1, <2>p, <2>2, <2>3 DEF CallIsOn, AtWorkOn, HasActive, Actionable
  <2>5. /\ \A q \in Rows : step'[q] = step[q] \/ step[q] = Absent
        /\ \A q \in Rows : step[q].status = "returned" => step'[q] = step[q]
    BY <2>1, <2>3 DEF Absent
  <2> QED BY <1>0, <2>1, <2>4, <2>5, RowsGoOn
<1>9. ASSUME NEW c \in Calls, PendSteps(c) PROVE ProceedInv'
  <2>p. PICK i \in Instances : i = call[c].inst
    BY <1>0, <1>9, FlowCall DEF PendSteps, FlowPCs
  <2>1. /\ call[c].pc = "pend" /\ UNCHANGED inst /\ ReturnedRows(i) # {}
        /\ call'[c].pc = "suspend" /\ call'[c].inst = i
    BY <1>0, <1>9, <2>p DEF PendSteps, Flow, CallIsOn
  <2>2. \A r \in Rows : step'[r] = step[r] \/ (step[r].inst = i /\ step[r].status = "active")
    BY <1>9, <2>p DEF PendSteps
  <2>3. ReturnedRows(i)' # {}
    BY <2>1, <2>2 DEF ReturnedRows
  <2>4. CallIsOn(c)' /\ AtWorkOn(c, i)' /\ \A j \in Instances : AtWorkOn(c, j) => j = i
    BY <2>1, <2>p, <2>3 DEF CallIsOn, AtWorkOn
  <2> QED BY <1>0, <2>1, <2>2, <2>4, RowsGoOn
<1>10. ASSUME NEW c \in Calls, SaveActivated(c) \/ SuspendInstance(c) \/ CompleteInstance(c) \/ RejectInstance(c)
                               \/ CompleteDocument(c) \/ CancelDocument(c)
       PROVE ProceedInv'
  <2> DEFINE i == call[c].inst
  <2>1. /\ call[c].pc \in {"activate", "suspend", "complete", "reject", "document", "cancel"} /\ UNCHANGED step
        /\ i \in Instances /\ \A j \in Instances : AtWorkOn(c, j) => j = i
    BY <1>0, <1>10, FlowCall
       DEF SaveActivated, SuspendInstance, CompleteInstance, RejectInstance, CompleteDocument, CancelDocument, FlowPCs, AtWorkOn
  <2>2. /\ \A j \in Instances : j # i => inst'[j] = inst[j]
        /\ call[c].pc = "suspend" => inst'[i] = "suspended" /\ ReturnedRows(i) # {}
        /\ call[c].pc = "activate" => HasActive(i) /\ inst'[i] \in {"active", inst[i]}
        /\ call[c].pc \in {"complete", "reject", "document", "cancel"} => inst'[i] \in {"completed", "rejected"}
        /\ \/ call'[c].pc = "idle"
           \/ call'[c].pc \in {"document", "cancel"} /\ call'[c].inst = i /\ call[c].pc \in {"complete", "reject"}
    BY <1>0, <1>10, <2>1
       DEF SaveActivated, SuspendInstance, CompleteInstance, RejectInstance, CompleteDocument, CancelDocument,
           CallIsOn, Return, Flow, Idle
  <2>3. CallIsOn(c)'
    BY <2>2 DEF CallIsOn
  <2> QED BY <1>0, <2>1, <2>2, <2>3, CallGoesOn
<1>11. ASSUME NEW c \in Calls, FindReturned(c) PROVE ProceedInv'
  <2> DEFINE i == call[c].inst
  <2>1. call[c].pc = "returned" /\ UNCHANGED <<inst, step>> /\ i \in Instances /\ inst[i] = "suspended" /\ ReturnedRows(i) # {}
    BY <1>0, <1>11, FlowCall DEF FindReturned, FlowPCs, CallIsOn, ProceedInv
  <2>2. PICK o : ResumeOrder(i, o) /\ Flow(c, "resume", i, o)
    BY <1>11 DEF FindReturned
  <2>3. PICK r \in ReturnedRows(i) : o = ReturnTo[step[r].order]
    BY <2>1, <2>2 DEF ResumeOrder
  <2>4. step[r].order \in Steps
    BY <1>0, <2>3, RowType DEF ReturnedRows, Absent
  <2>5. call'[c].pc = "resume" /\ call'[c].inst = i /\ call'[c].order \in Steps
    BY <1>0, <2>2, <2>3, <2>4 DEF Flow, OneAtATime
  <2>6. CallIsOn(c)' /\ \A j \in Instances : AtWorkOn(c, j) => AtWorkOn(c, j)'
    BY <2>1, <2>5 DEF CallIsOn, AtWorkOn
  <2> QED BY <1>0, <2>1, <2>6, CallGoesOn
<1>12. ASSUME NEW c \in Calls, UpdateStatus(c) \/ \E t \in DocumentStatuses : LoadForTransition(c, t) PROVE ProceedInv'
  <2>1. UNCHANGED <<inst, step>> /\ call[c].pc \in {"idle", "update"} /\ call'[c].pc \in {"idle", "update"}
    BY <1>0, <1>12 DEF UpdateStatus, LoadForTransition, Return, Idle
  <2>2. CallIsOn(c)' /\ \A j \in Instances : ~AtWorkOn(c, j)
    BY <2>1 DEF CallIsOn, AtWorkOn
  <2> QED BY <1>0, <2>1, <2>2, CallGoesOn
<1>13. \A c \in Calls : ~ActivationStalls(c) /\ ~Abort(c) /\ ~SaveOverdue(c) /\ \A r \in Rows : ~LoadOverdue(c, r)
  BY <1>0 DEF ActivationStalls, Abort, SaveOverdue, LoadOverdue, CallIsOn, OneAtATime, TypeOK
<1> QED BY <1>1, <1>2, <1>3, <1>4, <1>5, <1>6, <1>7, <1>8, <1>9, <1>10, <1>11, <1>12, <1>13 DEF Next

\* With calls one after the other, sequential steps without deadlines and nothing cut
\* short, an active instance always has a row somebody can act on or a call at work on it,
\* for every template whose return targets are its steps, through any number of returns,
\* rejections and restarts (workflow.service.ts:234 and 525).
THEOREM WorkflowProceeds == ASSUME OneAtATime PROVE Spec => []ActiveInstanceCanProceed
<1>1. Init => ProceedInv
  BY InitProceedInv
<1>2. ProceedInv /\ [Next]_vars => ProceedInv'
  BY NextProceedInv
<1>3. ProceedInv => ActiveInstanceCanProceed
  BY DEF ProceedInv
<1> QED BY <1>1, <1>2, <1>3, PTL DEF Spec
=============================================================================
