---------------------------- MODULE PeopleProofs ----------------------------
(***************************************************************************)
(* The safety of the work of people, of what gives them authority and of   *)
(* what their clients show: assignments and subtasks of tasks (TaskWork),  *)
(* the assignments of a resolution and their deadlines (EdmsExecution),    *)
(* sessions and second factors (Sessions), positions, departments and the  *)
(* command chain (Organisation), the maps (MapClient), the thread and the  *)
(* session of the portal (PortalClient) and the streams of a call          *)
(* (MediaStreams), whatever the constants.                                 *)
(*                                                                         *)
(* What makes these invariants hard is that a call works on copies, and a  *)
(* client on what is still on its way to it: each inductive invariant      *)
(* therefore says, besides the property, what the copy of every call may   *)
(* still write back, and what every message, answer or timer under way     *)
(* will do when it arrives.                                                *)
(***************************************************************************)
EXTENDS MCPeople, SequenceTheorems, FiniteSetTheorems, WellFoundedInduction, TLAPS

-----------------------------------------------------------------------------
\* Assignments of a task.
\* The call will install somebody as the primary executor.
Installs(c) == assignmentCall[c].new.type = "primary"

\* What a call under way holds: a task that exists, a record that exists and keeps
\* its type, and the record it is going to insert.
CopyIsSound(call) ==
  /\ call.row.status # "absent"
  /\ call.todo[1] = "write" =>
       /\ call.n \in 1..MaxRecords
       /\ record[call.n].status # "absent" /\ call.old.status # "absent"
       /\ call.old.type = record[call.n].type
  /\ call.new.type = "primary" =>
       /\ call.new.status = "active"
       /\ call.todo \in {<<"task", "insert">>, <<"insert">>, <<"write", "task", "insert">>}
  /\ call.new.type # "primary" =>
       /\ work.status # "absent"
       /\ call.todo \in {<<"insert">>, <<"write">>, <<"write", "task">>, <<"task">>}
  /\ call.todo[Len(call.todo)] = "insert" => call.new.status = "active"

\* Record n makes somebody accountable, and no call is about to take it away.
Accountable(n) ==
  /\ record[n].status = "active" /\ record[n].type = "primary"
  /\ \A c \in AssignmentCalls :
       ~ (Busy(c) /\ Query(c) = "write" /\ assignmentCall[c].n = n /\ assignmentCall[c].old.status = "removed")

\* The inductive invariant: unless a call failed, either a call is under way that will
\* install a primary executor, or some primary record is out of every call's reach.
AssignmentsInv ==
  /\ TaskAssignmentsTypeOK
  /\ \A c \in AssignmentCalls : Busy(c) => CopyIsSound(assignmentCall[c])
  /\ \/ failed
     \/ work.status = "absent"
     \/ \E c \in AssignmentCalls : Busy(c) /\ Installs(c)
     \/ \E n \in 1..MaxRecords : Accountable(n)

\* It implies the property.
LEMMA AccountableSuffices == AssignmentsInv => SomeoneAccountable
  BY DEF AssignmentsInv, SomeoneAccountable, Accountable, Active, Installs

\* It holds at the start.
LEMMA AssignmentsInitInv == TaskAssignmentsInit => AssignmentsInv
<1> SUFFICES ASSUME TaskAssignmentsInit PROVE AssignmentsInv
  OBVIOUS
<1> USE TaskAssignmentsAssumption DEF TaskAssignmentsInit
<1>1. TaskAssignmentsTypeOK
  <2>1. NoRecord \in RecordRow
    BY DEF RecordRow, NoRecord
  <2>2. record \in [1..MaxRecords -> RecordRow]
    BY <2>1
  <2>3. assignmentCall \in [AssignmentCalls -> AssignmentBusy \cup {AssignmentIdle}]
    OBVIOUS
  <2>4. asked \in 0..MaxAssignmentCalls
    OBVIOUS
  <2>5. failed \in BOOLEAN
    BY Zenon
  <2>6. work \in WorkRow
    BY DEF WorkRow
  <2> QED BY <2>2, <2>3, <2>4, <2>5, <2>6, Zenon DEF TaskAssignmentsTypeOK
<1> QED BY <1>1 DEF AssignmentsInv, Busy

\* One query less.
LEMMA TodoGetsShorter ==
  ASSUME NEW todo \in AssignmentQueries
  PROVE  /\ Len(todo) \in {1, 2, 3}
         /\ Head(todo) = todo[1]
         /\ Len(todo) = 1 => todo \in {<<"insert">>, <<"write">>, <<"task">>}
         /\ Len(todo) # 1 => /\ todo = <<"task", "insert">> => Tail(todo) = <<"insert">>
                             /\ todo = <<"write", "task", "insert">> => Tail(todo) = <<"task", "insert">>
                             /\ todo = <<"write", "task">> => Tail(todo) = <<"task">>
                             /\ todo \in {<<"task", "insert">>, <<"write", "task", "insert">>, <<"write", "task">>}
<1>1. CASE todo \in {<<"insert">>, <<"write">>, <<"task">>}
  BY <1>1
<1>2. CASE todo = <<"task", "insert">>
  <2>1. Tail(todo) = <<"insert">>
    BY <1>2
  <2> QED BY <1>2, <2>1
<1>3. CASE todo = <<"write", "task", "insert">>
  <2>1. Tail(todo) = <<"task", "insert">>
    BY <1>3
  <2> QED BY <1>3, <2>1
<1>4. CASE todo = <<"write", "task">>
  <2>1. Tail(todo) = <<"task">>
    BY <1>4
  <2> QED BY <1>4, <2>1
<1> QED BY <1>1, <1>2, <1>3, <1>4 DEF AssignmentQueries

\* A call that starts with sound copies keeps the invariant, provided the record it
\* removes is not an active primary one, or it installs another.
LEMMA AskKeeps ==
  ASSUME AssignmentsInv, NEW c \in AssignmentCalls, NEW todo \in AssignmentQueries, NEW n \in 0..MaxRecords,
         NEW old \in RecordRow, NEW row \in WorkRow, NEW new \in RecordRow,
         Ask(c, todo, n, old, row, new),
         CopyIsSound([todo |-> todo, n |-> n, old |-> old, row |-> row, new |-> new]),
         new.type # "primary" /\ todo[1] = "write" =>
           old.status # "removed" \/ record[n].type # "primary" \/ record[n].status # "active"
  PROVE  AssignmentsInv'
<1> DEFINE call == [todo |-> todo, n |-> n, old |-> old, row |-> row, new |-> new]
<1>0. call \in AssignmentBusy /\ call.new = new /\ call.todo = todo /\ call.n = n /\ call.old = old /\ CopyIsSound(call)
  BY DEF AssignmentBusy
<1>1. /\ assignmentCall[c] = AssignmentIdle /\ asked' = asked + 1 /\ asked < MaxAssignmentCalls
      /\ assignmentCall' = [assignmentCall EXCEPT ![c] = call]
      /\ work' = work /\ record' = record /\ failed' = failed
  BY DEF Ask
<1>2. assignmentCall \in [AssignmentCalls -> AssignmentBusy \cup {AssignmentIdle}] /\ asked \in 0..MaxAssignmentCalls
  BY DEF AssignmentsInv, TaskAssignmentsTypeOK
<1> HIDE DEF call
<1>3. /\ assignmentCall' \in [AssignmentCalls -> AssignmentBusy \cup {AssignmentIdle}]
      /\ assignmentCall'[c] = call
      /\ \A d \in AssignmentCalls : d # c => assignmentCall'[d] = assignmentCall[d]
  BY <1>0, <1>1, <1>2
<1>4. TaskAssignmentsTypeOK'
  BY <1>1, <1>2, <1>3, TaskAssignmentsAssumption DEF AssignmentsInv, TaskAssignmentsTypeOK
<1>5. ASSUME NEW d \in AssignmentCalls, Busy(d)' PROVE CopyIsSound(assignmentCall[d])'
  <2>1. CASE d = c
    BY <1>0, <1>1, <1>3, <2>1 DEF CopyIsSound
  <2>2. CASE d # c
    BY <1>1, <1>3, <1>5, <2>2 DEF AssignmentsInv, CopyIsSound, Busy
  <2> QED BY <2>1, <2>2
<1>6. call # AssignmentIdle
  <2>1. todo # <<>>
    BY TodoGetsShorter
  <2> QED BY <1>0, <2>1 DEF AssignmentIdle
<1>7. CASE new.type = "primary"
  <2>1. Busy(c)' /\ Installs(c)'
    BY <1>0, <1>3, <1>6, <1>7 DEF Busy, Installs
  <2> QED BY <1>4, <1>5, <2>1 DEF AssignmentsInv
<1>8. CASE new.type # "primary"
  <2>1. ASSUME NEW d \in AssignmentCalls, Busy(d), Installs(d) PROVE Busy(d)' /\ Installs(d)'
    BY <1>1, <1>3, <2>1 DEF Busy, Installs
  <2>2. ASSUME NEW m \in 1..MaxRecords, Accountable(m) PROVE Accountable(m)'
    <3>1. ASSUME NEW d \in AssignmentCalls,
                 Busy(d)', Query(d)' = "write", assignmentCall'[d].n = m, assignmentCall'[d].old.status = "removed"
          PROVE  FALSE
      <4>1. CASE d = c
        <5>1. todo[1] = "write"
          BY <1>0, <1>3, <3>1, <4>1, TodoGetsShorter DEF Query
        <5> QED BY <1>0, <1>3, <1>8, <2>2, <3>1, <4>1, <5>1 DEF Accountable
      <4>2. CASE d # c
        BY <1>3, <2>2, <3>1, <4>2 DEF Accountable, Busy, Query
      <4> QED BY <4>1, <4>2
    <3> QED BY <1>1, <2>2, <3>1 DEF Accountable
  <2> QED BY <1>1, <1>4, <1>5, <2>1, <2>2 DEF AssignmentsInv
<1> QED BY <1>7, <1>8

\* The creation of the task keeps the invariant.
LEMMA CreateWorkKeeps ==
  ASSUME AssignmentsInv, NEW c \in AssignmentCalls, NEW p \in TaskPositions, NEW s \in TaskStatuses, CreateAssignedTask(c, p, s)
  PROVE  AssignmentsInv'
<1> DEFINE new == ActiveRecord(p, "primary")
           row == [status |-> s, responsible |-> p]
<1>1. new \in RecordRow /\ NoRecord \in RecordRow /\ row \in WorkRow /\ new.type = "primary" /\ new.status = "active"
  BY TaskAssignmentsAssumption DEF ActiveRecord, NoRecord, RecordRow, WorkRow
<1>2. Ask(c, <<"task", "insert">>, 0, NoRecord, row, new) /\ row.status # "absent"
  BY DEF CreateAssignedTask
<1>3. <<"task", "insert">> \in AssignmentQueries /\ 0 \in 0..MaxRecords
  BY TaskAssignmentsAssumption DEF AssignmentQueries
<1> HIDE DEF new, row
<1>4. CopyIsSound([todo |-> <<"task", "insert">>, n |-> 0, old |-> NoRecord, row |-> row, new |-> new])
  BY <1>1, <1>2 DEF CopyIsSound
<1> QED BY <1>1, <1>2, <1>3, <1>4, AskKeeps

\* So does adding an executor,
LEMMA AddExecutorKeeps ==
  ASSUME AssignmentsInv, NEW c \in AssignmentCalls, NEW a \in TaskPositions, NEW p \in TaskPositions,
         NEW k \in {"co_executor", "primary"}, AddExecutor(c, a, p, k)
  PROVE  AssignmentsInv'
<1> DEFINE new == ActiveRecord(p, k)
<1>1. new \in RecordRow /\ NoRecord \in RecordRow /\ work \in WorkRow /\ new.status = "active"
  BY TaskAssignmentsAssumption DEF ActiveRecord, NoRecord, RecordRow, AssignmentsInv, TaskAssignmentsTypeOK
<1>2. Ask(c, <<"insert">>, 0, NoRecord, work, new) /\ work.status # "absent"
  BY DEF AddExecutor
<1>3. <<"insert">> \in AssignmentQueries /\ 0 \in 0..MaxRecords
  BY TaskAssignmentsAssumption DEF AssignmentQueries
<1> HIDE DEF new
<1>4. CopyIsSound([todo |-> <<"insert">>, n |-> 0, old |-> NoRecord, row |-> work, new |-> new])
  BY <1>1, <1>2 DEF CopyIsSound
<1> QED BY <1>1, <1>2, <1>3, <1>4, AskKeeps

\* removing one,
LEMMA RemoveExecutorKeeps ==
  ASSUME AssignmentsInv, NEW c \in AssignmentCalls, NEW a \in TaskPositions, NEW n \in 1..MaxRecords, RemoveExecutor(c, a, n)
  PROVE  AssignmentsInv'
<1> DEFINE old == [record[n] EXCEPT !.status = "removed"]
<1>1. /\ old \in RecordRow /\ old.status = "removed" /\ old.type = record[n].type
      /\ NoRecord \in RecordRow /\ NoRecord.type # "primary" /\ work \in WorkRow
  BY TaskAssignmentsAssumption DEF NoRecord, RecordRow, AssignmentsInv, TaskAssignmentsTypeOK
<1>2. Ask(c, <<"write">>, n, old, work, NoRecord) /\ work.status # "absent" /\ record[n].status = "active" /\ record[n].type # "primary"
  BY DEF RemoveExecutor
<1>3. <<"write">> \in AssignmentQueries /\ n \in 0..MaxRecords
  BY TaskAssignmentsAssumption DEF AssignmentQueries
<1> HIDE DEF old
<1>4. CopyIsSound([todo |-> <<"write">>, n |-> n, old |-> old, row |-> work, new |-> NoRecord])
  BY <1>1, <1>2 DEF CopyIsSound
<1> QED BY <1>1, <1>2, <1>3, <1>4, AskKeeps

\* a reassignment,
LEMMA ReassignKeeps ==
  ASSUME AssignmentsInv, NEW c \in AssignmentCalls, NEW a \in TaskPositions, NEW p \in TaskPositions, ReassignTask(c, a, p)
  PROVE  AssignmentsInv'
<1> DEFINE new == ActiveRecord(p, "primary")
           row == [work EXCEPT !.responsible = p]
<1>1. /\ new \in RecordRow /\ NoRecord \in RecordRow /\ row \in WorkRow /\ new.type = "primary" /\ new.status = "active"
      /\ row.status = work.status
  BY TaskAssignmentsAssumption DEF ActiveRecord, NoRecord, RecordRow, WorkRow, AssignmentsInv, TaskAssignmentsTypeOK
<1>2. /\ work.status # "absent"
      /\ \/ Ask(c, <<"task", "insert">>, 0, NoRecord, row, new)
         \/ \E n \in Active("primary") :
              Ask(c, <<"write", "task", "insert">>, n, [record[n] EXCEPT !.status = "removed"], row, new)
  BY DEF ReassignTask
<1>3. /\ <<"task", "insert">> \in AssignmentQueries /\ <<"write", "task", "insert">> \in AssignmentQueries
      /\ 0 \in 0..MaxRecords
  BY TaskAssignmentsAssumption DEF AssignmentQueries
<1> HIDE DEF new, row
<1>4. CASE Ask(c, <<"task", "insert">>, 0, NoRecord, row, new)
  <2>1. CopyIsSound([todo |-> <<"task", "insert">>, n |-> 0, old |-> NoRecord, row |-> row, new |-> new])
    BY <1>1, <1>2 DEF CopyIsSound
  <2> QED BY <1>1, <1>3, <1>4, <2>1, AskKeeps
<1>5. ASSUME NEW n \in Active("primary"),
             Ask(c, <<"write", "task", "insert">>, n, [record[n] EXCEPT !.status = "removed"], row, new)
      PROVE  AssignmentsInv'
  <2> DEFINE old == [record[n] EXCEPT !.status = "removed"]
  <2>1. /\ old \in RecordRow /\ old.status = "removed" /\ old.type = record[n].type
        /\ n \in 1..MaxRecords /\ record[n].status = "active"
    BY DEF RecordRow, AssignmentsInv, TaskAssignmentsTypeOK, Active
  <2> HIDE DEF old
  <2>2. CopyIsSound([todo |-> <<"write", "task", "insert">>, n |-> n, old |-> old, row |-> row, new |-> new])
    BY <1>1, <1>2, <2>1 DEF CopyIsSound
  <2>3. Ask(c, <<"write", "task", "insert">>, n, old, row, new) /\ n \in 0..MaxRecords
    BY <1>5, <2>1, TaskAssignmentsAssumption DEF old
  <2> QED BY <1>1, <1>3, <2>1, <2>2, <2>3, AskKeeps
<1> QED BY <1>2, <1>4, <1>5

\* a transition,
LEMMA TransitionWorkKeeps ==
  ASSUME AssignmentsInv, NEW c \in AssignmentCalls, NEW a \in TaskPositions, NEW s \in TaskStatuses, TransitionWork(c, a, s)
  PROVE  AssignmentsInv'
<1> DEFINE row == [work EXCEPT !.status = s]
<1>0. work \in WorkRow /\ record \in [1..MaxRecords -> RecordRow]
  BY DEF AssignmentsInv, TaskAssignmentsTypeOK
<1>1. /\ row \in WorkRow /\ row.status = s
      /\ NoRecord \in RecordRow /\ NoRecord.type # "primary"
  BY <1>0, TaskAssignmentsAssumption DEF NoRecord, RecordRow, WorkRow
<1>2. s \in TaskTransitions(work.status)
  BY DEF TransitionWork
<1>3. work.status # "absent" /\ s # "absent"
  BY <1>2 DEF TaskTransitions, TaskStatuses
<1>4. /\ <<"write", "task">> \in AssignmentQueries /\ <<"task">> \in AssignmentQueries
      /\ 0 \in 0..MaxRecords
  BY TaskAssignmentsAssumption DEF AssignmentQueries
<1>5. \/ Ask(c, <<"task">>, 0, NoRecord, row, NoRecord)
      \/ \E n \in {m \in 1..MaxRecords : record[m].status # "absent" /\ record[m].type = "primary" /\ record[m].position = a} :
           Ask(c, <<"write", "task">>, n, record[n], row, NoRecord)
  BY DEF TransitionWork
<1> HIDE DEF row
<1>6. CASE Ask(c, <<"task">>, 0, NoRecord, row, NoRecord)
  <2>1. CopyIsSound([todo |-> <<"task">>, n |-> 0, old |-> NoRecord, row |-> row, new |-> NoRecord])
    BY <1>1, <1>3 DEF CopyIsSound
  <2> QED BY <1>1, <1>4, <1>6, <2>1, AskKeeps
<1>7. ASSUME NEW n \in 1..MaxRecords, record[n].status # "absent", record[n].type = "primary",
             Ask(c, <<"write", "task">>, n, record[n], row, NoRecord)
      PROVE  AssignmentsInv'
  <2>1. CopyIsSound([todo |-> <<"write", "task">>, n |-> n, old |-> record[n], row |-> row, new |-> NoRecord])
    BY <1>1, <1>3, <1>7 DEF CopyIsSound
  <2>2. record[n] \in RecordRow /\ n \in 0..MaxRecords
    BY <1>0, TaskAssignmentsAssumption
  <2> QED BY <1>1, <1>4, <1>7, <2>1, <2>2, AskKeeps
<1> QED BY <1>5, <1>6, <1>7

\* and an update.
LEMMA UpdateWorkKeeps ==
  ASSUME AssignmentsInv, NEW c \in AssignmentCalls, NEW a \in TaskPositions, UpdateWork(c, a)
  PROVE  AssignmentsInv'
<1>1. NoRecord \in RecordRow /\ NoRecord.type # "primary" /\ work \in WorkRow
  BY TaskAssignmentsAssumption DEF NoRecord, RecordRow, AssignmentsInv, TaskAssignmentsTypeOK
<1>2. Ask(c, <<"task">>, 0, NoRecord, work, NoRecord) /\ work.status # "absent"
  BY DEF UpdateWork
<1>3. <<"task">> \in AssignmentQueries /\ 0 \in 0..MaxRecords
  BY TaskAssignmentsAssumption DEF AssignmentQueries
<1>4. CopyIsSound([todo |-> <<"task">>, n |-> 0, old |-> NoRecord, row |-> work, new |-> NoRecord])
  BY <1>1, <1>2 DEF CopyIsSound
<1> QED BY <1>1, <1>2, <1>3, <1>4, AskKeeps

\* After a query a call is over or holds the rest of its queries.
LEMMA CallProceeds ==
  ASSUME TaskAssignmentsTypeOK, NEW c \in AssignmentCalls, Busy(c), Proceed(c)
  PROVE  /\ assignmentCall' \in [AssignmentCalls -> AssignmentBusy \cup {AssignmentIdle}]
         /\ \A d \in AssignmentCalls : d # c => assignmentCall'[d] = assignmentCall[d]
         /\ \/ /\ assignmentCall'[c] = AssignmentIdle
               /\ assignmentCall[c].todo \in {<<"insert">>, <<"write">>, <<"task">>}
            \/ /\ assignmentCall'[c] = [assignmentCall[c] EXCEPT !.todo = Tail(assignmentCall[c].todo)]
               /\ \/ assignmentCall[c].todo = <<"task", "insert">> /\ Tail(assignmentCall[c].todo) = <<"insert">>
                  \/ assignmentCall[c].todo = <<"write", "task", "insert">> /\ Tail(assignmentCall[c].todo) = <<"task", "insert">>
                  \/ assignmentCall[c].todo = <<"write", "task">> /\ Tail(assignmentCall[c].todo) = <<"task">>
<1> DEFINE todo == assignmentCall[c].todo
<1>1. assignmentCall \in [AssignmentCalls -> AssignmentBusy \cup {AssignmentIdle}] /\ assignmentCall[c] \in AssignmentBusy
  BY DEF TaskAssignmentsTypeOK, Busy
<1>2. todo \in AssignmentQueries
  BY <1>1 DEF AssignmentBusy
<1>3. CASE Len(todo) = 1
  BY <1>1, <1>2, <1>3, TodoGetsShorter DEF Proceed
<1>4. CASE Len(todo) # 1
  <2>1. assignmentCall' = [assignmentCall EXCEPT ![c].todo = Tail(@)]
    BY <1>4 DEF Proceed
  <2>2. /\ todo \in {<<"task", "insert">>, <<"write", "task", "insert">>, <<"write", "task">>}
        /\ Tail(todo) \in {<<"insert">>, <<"task", "insert">>, <<"task">>}
    BY <1>2, <1>4, TodoGetsShorter
  <2>3. Tail(todo) \in AssignmentQueries
    BY <2>2 DEF AssignmentQueries
  <2>4. [assignmentCall[c] EXCEPT !.todo = Tail(todo)] \in AssignmentBusy
    BY <1>1, <2>3 DEF AssignmentBusy
  <2>5. assignmentCall' = [assignmentCall EXCEPT ![c] = [assignmentCall[c] EXCEPT !.todo = Tail(todo)]]
    BY <2>1
  <2> QED BY <1>1, <1>2, <1>4, <2>4, <2>5, TodoGetsShorter
<1> QED BY <1>3, <1>4

\* What a query of call c leaves to prove: that the copies of the calls still
\* fit the records it has changed.
LEMMA QueryKeeps ==
  ASSUME AssignmentsInv, NEW c \in AssignmentCalls, Busy(c), Proceed(c), UNCHANGED <<asked, failed>>,
         work' \in WorkRow, work.status # "absent" => work'.status # "absent",
         work'.status = "absent" \/ work' = work \/ work' = assignmentCall[c].row,
         record' \in [1..MaxRecords -> RecordRow],
         \A n \in 1..MaxRecords : record[n].status # "absent" => record'[n].status # "absent" /\ record'[n].type = record[n].type,
         \A n \in 1..MaxRecords : Accountable(n) => record'[n].status = "active",
         Installs(c) /\ assignmentCall[c].todo = <<"insert">> =>
           \E n \in 1..MaxRecords : record[n].status = "absent" /\ record'[n].status = "active" /\ record'[n].type = "primary"
  PROVE  AssignmentsInv'
<1> DEFINE call == assignmentCall[c]
<1>1. /\ TaskAssignmentsTypeOK
      /\ assignmentCall \in [AssignmentCalls -> AssignmentBusy \cup {AssignmentIdle}] /\ call \in AssignmentBusy
      /\ CopyIsSound(call) /\ record \in [1..MaxRecords -> RecordRow]
  BY DEF AssignmentsInv, TaskAssignmentsTypeOK, Busy
<1>2. /\ assignmentCall' \in [AssignmentCalls -> AssignmentBusy \cup {AssignmentIdle}]
      /\ \A d \in AssignmentCalls : d # c => assignmentCall'[d] = assignmentCall[d]
  BY <1>1, CallProceeds
<1>3. TaskAssignmentsTypeOK'
  BY <1>1, <1>2 DEF TaskAssignmentsTypeOK
<1>4. ASSUME NEW next \in {<<"insert">>, <<"task", "insert">>, <<"task">>},
             assignmentCall'[c] = [call EXCEPT !.todo = next]
      PROVE  /\ assignmentCall'[c].todo = next /\ assignmentCall'[c].row = call.row /\ assignmentCall'[c].new = call.new
             /\ assignmentCall'[c] # AssignmentIdle /\ next[1] # "write"
  BY <1>1, <1>4 DEF AssignmentBusy, AssignmentIdle
<1>5. ASSUME NEW d \in AssignmentCalls, Busy(d)' PROVE CopyIsSound(assignmentCall[d])'
  <2>1. CASE d # c
    BY <1>1, <1>2, <1>5, <2>1 DEF AssignmentsInv, CopyIsSound, Busy, TaskAssignmentsTypeOK, AssignmentBusy
  <2>2. CASE d = c
    <3>1. /\ assignmentCall'[c] = [call EXCEPT !.todo = Tail(call.todo)]
          /\ \/ call.todo = <<"task", "insert">> /\ Tail(call.todo) = <<"insert">>
             \/ call.todo = <<"write", "task", "insert">> /\ Tail(call.todo) = <<"task", "insert">>
             \/ call.todo = <<"write", "task">> /\ Tail(call.todo) = <<"task">>
      BY <1>1, <1>5, <2>2, CallProceeds DEF Busy
    <3>2. CASE call.todo = <<"task", "insert">> /\ Tail(call.todo) = <<"insert">>
      BY <1>1, <1>4, <2>2, <3>1, <3>2 DEF CopyIsSound
    <3>3. CASE call.todo = <<"write", "task", "insert">> /\ Tail(call.todo) = <<"task", "insert">>
      BY <1>1, <1>4, <2>2, <3>1, <3>3 DEF CopyIsSound
    <3>4. CASE call.todo = <<"write", "task">> /\ Tail(call.todo) = <<"task">>
      BY <1>1, <1>4, <2>2, <3>1, <3>4 DEF CopyIsSound
    <3> QED BY <3>1, <3>2, <3>3, <3>4
  <2> QED BY <2>1, <2>2
<1>6. ASSUME NEW n \in 1..MaxRecords, Accountable(n) PROVE Accountable(n)'
  <2>1. record'[n].status = "active" /\ record'[n].type = "primary"
    BY <1>6 DEF Accountable
  <2>2. ASSUME NEW d \in AssignmentCalls,
               Busy(d)', Query(d)' = "write", assignmentCall'[d].n = n, assignmentCall'[d].old.status = "removed"
        PROVE  FALSE
    <3>1. CASE d # c
      BY <1>2, <1>6, <2>2, <3>1 DEF Accountable, Busy, Query
    <3>2. CASE d = c
      <4>0. assignmentCall'[c] # AssignmentIdle
        BY <2>2, <3>2 DEF Busy
      <4>a. /\ assignmentCall'[c] = [call EXCEPT !.todo = Tail(call.todo)]
            /\ Tail(call.todo) \in {<<"insert">>, <<"task", "insert">>, <<"task">>}
        BY <1>1, <4>0, CallProceeds
      <4>1. \E next \in {<<"insert">>, <<"task", "insert">>, <<"task">>} : assignmentCall'[c] = [call EXCEPT !.todo = next]
        BY <4>a
      <4>2. PICK next \in {<<"insert">>, <<"task", "insert">>, <<"task">>} : assignmentCall'[c] = [call EXCEPT !.todo = next]
        BY <4>1
      <4>3. Query(c)' = Head(next) /\ next[1] # "write"
        BY <1>4, <4>2 DEF Query
      <4> QED BY <2>2, <3>2, <4>3
    <3> QED BY <3>1, <3>2
  <2> QED BY <2>1, <2>2 DEF Accountable
<1>7. ASSUME Installs(c) PROVE \/ Busy(c)' /\ Installs(c)'
                               \/ \E n \in 1..MaxRecords : Accountable(n)'
  <2>1. CASE call.todo = <<"insert">>
    <3>1. PICK n \in 1..MaxRecords : record[n].status = "absent" /\ record'[n].status = "active" /\ record'[n].type = "primary"
      BY <1>7, <2>1
    <3>2. ASSUME NEW d \in AssignmentCalls, Busy(d)', Query(d)' = "write", assignmentCall'[d].n = n PROVE FALSE
      <4>1. CASE d # c
        <5>1. assignmentCall[d].todo \in AssignmentQueries /\ Busy(d) /\ Query(d) = "write" /\ assignmentCall[d].n = n
          BY <1>1, <1>2, <3>2, <4>1 DEF Busy, Query, AssignmentBusy
        <5>2. assignmentCall[d].todo[1] = "write"
          BY <5>1, TodoGetsShorter DEF Query
        <5> QED BY <3>1, <5>1, <5>2 DEF AssignmentsInv, CopyIsSound
      <4>2. CASE d = c
        <5>1. Len(call.todo) = 1
          BY <2>1
        <5> QED BY <1>1, <3>2, <4>2, <5>1 DEF Proceed, Busy
      <4> QED BY <4>1, <4>2
    <3> QED BY <3>1, <3>2 DEF Accountable
  <2>2. CASE call.todo \in {<<"task", "insert">>, <<"write", "task", "insert">>}
    <3>1. Len(call.todo) # 1
      BY <2>2
    <3>a. call.todo \notin {<<"insert">>, <<"write">>, <<"task">>}
      BY <2>2
    <3>b. /\ assignmentCall'[c] = [call EXCEPT !.todo = Tail(call.todo)]
          /\ Tail(call.todo) \in {<<"insert">>, <<"task", "insert">>, <<"task">>}
      BY <1>1, <3>a, CallProceeds
    <3>2. \E next \in {<<"insert">>, <<"task", "insert">>, <<"task">>} : assignmentCall'[c] = [call EXCEPT !.todo = next]
      BY <3>b
    <3> QED BY <1>4, <1>7, <3>2 DEF Busy, Installs
  <2> QED BY <1>1, <1>7, <2>1, <2>2 DEF CopyIsSound, Installs
<1>8. ASSUME NEW d \in AssignmentCalls, d # c, Busy(d), Installs(d) PROVE Busy(d)' /\ Installs(d)'
  BY <1>2, <1>8 DEF Busy, Installs
<1>9. work.status = "absent" => Installs(c)
  BY <1>1 DEF CopyIsSound, Installs
<1>10. CASE Installs(c)
  BY <1>3, <1>5, <1>7, <1>10 DEF AssignmentsInv
<1>11. CASE ~ Installs(c)
  BY <1>3, <1>5, <1>6, <1>8, <1>9, <1>11 DEF AssignmentsInv
<1> QED BY <1>10, <1>11

\* Saving the copy of a record keeps the invariant,
LEMMA WriteRecordKeeps ==
  ASSUME AssignmentsInv, NEW c \in AssignmentCalls, WriteRecord(c)
  PROVE  AssignmentsInv'
<1> DEFINE call == assignmentCall[c]
<1>1. /\ call \in AssignmentBusy /\ CopyIsSound(call) /\ record \in [1..MaxRecords -> RecordRow] /\ work \in WorkRow
      /\ Busy(c) /\ Query(c) = "write" /\ call.todo \in AssignmentQueries
  BY DEF WriteRecord, AssignmentsInv, TaskAssignmentsTypeOK, Busy, AssignmentBusy
<1>2. call.todo[1] = "write"
  BY <1>1, TodoGetsShorter DEF Query
<1>3. /\ call.n \in 1..MaxRecords /\ call.old \in RecordRow
      /\ record[call.n].status # "absent" /\ call.old.status # "absent" /\ call.old.type = record[call.n].type
  BY <1>1, <1>2 DEF CopyIsSound, AssignmentBusy
<1>4. record' = [record EXCEPT ![call.n] = call.old] /\ Proceed(c) /\ work' = work /\ UNCHANGED <<asked, failed>>
  BY DEF WriteRecord
<1>5. record' \in [1..MaxRecords -> RecordRow]
  BY <1>1, <1>3, <1>4
<1>6. \A n \in 1..MaxRecords : record[n].status # "absent" => record'[n].status # "absent" /\ record'[n].type = record[n].type
  BY <1>1, <1>3, <1>4
<1>7. ASSUME NEW n \in 1..MaxRecords, Accountable(n) PROVE record'[n].status = "active"
  BY <1>1, <1>3, <1>4, <1>7 DEF Accountable, RecordRow
<1>8. call.todo # <<"insert">>
  BY <1>2
<1> QED BY <1>1, <1>4, <1>5, <1>6, <1>7, <1>8, QueryKeeps

\* saving the copy of the task,
LEMMA SaveWorkKeeps ==
  ASSUME AssignmentsInv, NEW c \in AssignmentCalls, SaveWork(c)
  PROVE  AssignmentsInv'
<1> DEFINE call == assignmentCall[c]
<1>1. /\ call \in AssignmentBusy /\ CopyIsSound(call) /\ record \in [1..MaxRecords -> RecordRow]
      /\ Busy(c) /\ Query(c) = "task" /\ call.todo \in AssignmentQueries
  BY DEF SaveWork, AssignmentsInv, TaskAssignmentsTypeOK, Busy, AssignmentBusy
<1>2. call.todo # <<"insert">>
  BY <1>1 DEF Query
<1>3. work' = call.row /\ record' = record /\ Proceed(c) /\ UNCHANGED <<asked, failed>> /\ call.row \in WorkRow /\ call.row.status # "absent"
  BY <1>1 DEF SaveWork, CopyIsSound, AssignmentBusy
<1>4. \A n \in 1..MaxRecords : Accountable(n) => record'[n].status = "active"
  BY <1>3 DEF Accountable
<1> QED BY <1>1, <1>2, <1>3, <1>4, QueryKeeps

\* inserting the record,
LEMMA InsertRecordKeeps ==
  ASSUME AssignmentsInv, NEW c \in AssignmentCalls, InsertRecord(c)
  PROVE  AssignmentsInv'
<1> DEFINE call == assignmentCall[c]
<1>1. /\ call \in AssignmentBusy /\ CopyIsSound(call) /\ record \in [1..MaxRecords -> RecordRow] /\ work \in WorkRow
      /\ Busy(c) /\ call.new \in RecordRow
  BY DEF InsertRecord, AssignmentsInv, TaskAssignmentsTypeOK, Busy, AssignmentBusy
<1>2. PICK n \in 1..MaxRecords : record[n].status = "absent" /\ record' = [record EXCEPT ![n] = call.new]
  BY DEF InsertRecord, FreeRecord
<1>3. Proceed(c) /\ work' = work /\ UNCHANGED <<asked, failed>>
  BY DEF InsertRecord
<1>4. record' \in [1..MaxRecords -> RecordRow]
  BY <1>1, <1>2
<1>5. \A m \in 1..MaxRecords : record[m].status # "absent" => record'[m] = record[m]
  BY <1>1, <1>2
<1>6. \A m \in 1..MaxRecords : Accountable(m) => record'[m].status = "active"
  BY <1>5 DEF Accountable
<1>7. Installs(c) => record'[n].status = "active" /\ record'[n].type = "primary"
  BY <1>1, <1>2 DEF CopyIsSound, Installs
<1> QED BY <1>1, <1>2, <1>3, <1>4, <1>5, <1>6, <1>7, QueryKeeps

\* and a call cut short.
LEMMA AbortAssignmentKeeps ==
  ASSUME AssignmentsInv, NEW c \in AssignmentCalls, AbortAssignmentCall(c)
  PROVE  AssignmentsInv'
<1>1. /\ failed' = TRUE /\ assignmentCall' = [assignmentCall EXCEPT ![c] = AssignmentIdle]
      /\ work' = work /\ record' = record /\ asked' = asked
  BY DEF AbortAssignmentCall
<1>2. TaskAssignmentsTypeOK'
  BY <1>1 DEF AssignmentsInv, TaskAssignmentsTypeOK
<1>3. ASSUME NEW d \in AssignmentCalls, Busy(d)' PROVE CopyIsSound(assignmentCall[d])'
  <2>1. d # c /\ assignmentCall'[d] = assignmentCall[d]
    BY <1>1, <1>3 DEF AssignmentsInv, TaskAssignmentsTypeOK, Busy
  <2> QED BY <1>1, <1>3, <2>1 DEF AssignmentsInv, CopyIsSound, Busy
<1> QED BY <1>1, <1>2, <1>3 DEF AssignmentsInv

\* Every step of the specification keeps the inductive invariant.
LEMMA AssignmentsNextInv == AssignmentsInv /\ [TaskAssignmentsNext]_assignmentVars => AssignmentsInv'
<1> SUFFICES ASSUME AssignmentsInv, [TaskAssignmentsNext]_assignmentVars PROVE AssignmentsInv'
  OBVIOUS
<1>1. ASSUME NEW c \in AssignmentCalls, NEW p \in TaskPositions, NEW s \in TaskStatuses, CreateAssignedTask(c, p, s)
      PROVE  AssignmentsInv'
  BY <1>1, CreateWorkKeeps
<1>2. ASSUME NEW c \in AssignmentCalls, NEW a \in TaskPositions, NEW p \in TaskPositions,
             ReassignTask(c, a, p) \/ \E k \in {"co_executor", "primary"} : AddExecutor(c, a, p, k)
      PROVE  AssignmentsInv'
  BY <1>2, ReassignKeeps, AddExecutorKeeps
<1>3. ASSUME NEW c \in AssignmentCalls, NEW a \in TaskPositions,
             \/ \E n \in 1..MaxRecords : RemoveExecutor(c, a, n)
             \/ \E s \in TaskStatuses : TransitionWork(c, a, s)
             \/ UpdateWork(c, a)
      PROVE  AssignmentsInv'
  BY <1>3, RemoveExecutorKeeps, TransitionWorkKeeps, UpdateWorkKeeps
<1>4. ASSUME NEW c \in AssignmentCalls, WriteRecord(c) \/ SaveWork(c) \/ InsertRecord(c) \/ AbortAssignmentCall(c)
      PROVE  AssignmentsInv'
  BY <1>4, WriteRecordKeeps, SaveWorkKeeps, InsertRecordKeeps, AbortAssignmentKeeps
<1>5. CASE UNCHANGED assignmentVars
  <2>1. work' = work /\ record' = record /\ assignmentCall' = assignmentCall /\ asked' = asked /\ failed' = failed
    BY <1>5 DEF assignmentVars
  <2>2. TaskAssignmentsTypeOK'
    BY <2>1 DEF AssignmentsInv, TaskAssignmentsTypeOK
  <2>3. ASSUME NEW c \in AssignmentCalls, Busy(c)' PROVE CopyIsSound(assignmentCall[c])'
    BY <2>1, <2>3 DEF AssignmentsInv, CopyIsSound, Busy
  <2>4. /\ \A c \in AssignmentCalls : Busy(c) /\ Installs(c) => Busy(c)' /\ Installs(c)'
        /\ \A n \in 1..MaxRecords : Accountable(n) => Accountable(n)'
    BY <2>1 DEF Busy, Installs, Accountable, Query
  <2> QED BY <2>1, <2>2, <2>3, <2>4 DEF AssignmentsInv
<1> QED BY <1>1, <1>2, <1>3, <1>4, <1>5 DEF TaskAssignmentsNext

\* For any number of calls, records and positions, the types are kept and a task is
\* never without an accountable executor, whatever reassignments, acceptances and
\* removals race, unless a call failed half-way (tasks.service.ts:897-928, 131-138).
THEOREM AssignmentsAreAccounted ==
  TaskAssignmentsSpec => [](TaskAssignmentsTypeOK /\ SomeoneAccountable)
<1>1. AssignmentsInv => TaskAssignmentsTypeOK /\ SomeoneAccountable
  BY AccountableSuffices DEF AssignmentsInv
<1> QED BY <1>1, AssignmentsInitInv, AssignmentsNextInv, PTL DEF TaskAssignmentsSpec

-----------------------------------------------------------------------------
\* Subtasks.
\* What a call has loaded is a row of the table as far as it never changes.
SubtaskCallIsSound(r) ==
  /\ r.pc = "save" => subtask[r.task].status # "absent" /\ r.row.parent = subtask[r.task].parent
  /\ r.pc # "idle" => r.row.status # "absent"
  /\ r.pc # "idle" /\ r.row.parent # NoTask => subtask[r.row.parent].status # "absent"
  /\ r.pc \in {"parent", "children"} => r.row.parent # NoTask

\* What is owed is still to be reported.
OwedIsDue(o) == subtask[o[1]].status = "in_progress" /\ o[2] \in ToReport({subtask[u] : u \in Children(o[1])})

\* The inductive invariant: parents exist, the copies of the calls keep the columns
\* that never change, what is owed is still to be reported, and somebody will.
SubtasksInv ==
  /\ SubtasksTypeOK
  /\ ParentsExist(subtask)
  /\ \A c \in TaskCalls : SubtaskCallIsSound(subtaskCall[c])
  /\ \A o \in owed : OwedIsDue(o)
  /\ ReportIsUnderWay

\* It holds at the start.
LEMMA SubtasksInitInv == SubtasksInit => SubtasksInv
<1> SUFFICES ASSUME SubtasksInit PROVE SubtasksInv
  OBVIOUS
<1> USE SubtasksAssumption DEF SubtasksInit
<1>1. SubtasksTypeOK
  BY DEF SubtasksTypeOK
<1> QED BY <1>1 DEF SubtasksInv, SubtaskCallIsSound, SubtaskIdle, ReportIsUnderWay

\* The types of the tasks and of a call.
LEMMA SubtaskTypes ==
  ASSUME SubtasksInv, NEW c \in TaskCalls
  PROVE  /\ subtask \in [SubtaskIds -> SubtaskRow]
         /\ subtaskCall \in [TaskCalls -> SubtaskBusy \cup {SubtaskIdle}]
         /\ subtaskCall[c].pc \in {"idle", "save", "parent", "children", "channel"}
         /\ subtaskCall[c].pc = "idle" => subtaskCall[c] = SubtaskIdle
         /\ subtaskCall[c].pc # "idle" =>
              /\ subtaskCall[c] \in SubtaskBusy /\ subtaskCall[c].task \in SubtaskIds
              /\ subtaskCall[c].row \in SubtaskRow /\ subtaskCall[c].row.status \in TaskStatuses \cup {"absent"}
              /\ subtaskCall[c].row.parent \in SubtaskIds \cup {NoTask}
BY DEF SubtasksInv, SubtasksTypeOK, SubtaskBusy, SubtaskIdle, SubtaskRow

\* A report that call d is about to make.
Reporting(d, p) ==
  /\ subtaskCall[d].pc \in {"parent", "children"}
  /\ subtaskCall[d].row.parent = p
  /\ subtaskCall[d].pc = "children" => subtaskCall[d].seen = "in_progress"

OtherCalls(c) ==
  /\ subtaskCall' \in [TaskCalls -> SubtaskBusy \cup {SubtaskIdle}]
  /\ \A d \in TaskCalls : d # c => subtaskCall'[d] = subtaskCall[d]

\* What stays owed is reported by the calls other than c, or by c itself.
LEMMA ReportStaysUnderWay ==
  ASSUME SubtasksInv, NEW c, OtherCalls(c),
         \A o \in owed' : \/ o \in owed /\ (c \in TaskCalls => ~Reporting(c, o[1]))
                          \/ c \in TaskCalls /\ Reporting(c, o[1])'
  PROVE  ReportIsUnderWay'
<1> SUFFICES ASSUME NEW o \in owed' PROVE \E d \in TaskCalls : Reporting(d, o[1])'
  BY DEF ReportIsUnderWay, Reporting
<1>1. o \in owed => \E d \in TaskCalls : Reporting(d, o[1])
  BY DEF SubtasksInv, ReportIsUnderWay, Reporting
<1>2. \A d \in TaskCalls : d # c /\ Reporting(d, o[1]) => Reporting(d, o[1])'
  BY DEF OtherCalls, Reporting
<1> QED BY <1>1, <1>2

\* A step of call c that leaves the tasks alone.
LEMMA TasksUntouched ==
  ASSUME SubtasksInv, NEW c \in TaskCalls, UNCHANGED subtask, OtherCalls(c), SubtaskCallIsSound(subtaskCall[c])',
         owed' \subseteq owed, moves' \in 0..MaxTaskCalls,
         published' \subseteq SubtaskIds \X (TaskMessages \cup {"channel_requested"}),
         \A o \in owed' : ~Reporting(c, o[1]) \/ Reporting(c, o[1])'
  PROVE  SubtasksInv'
<1>1. SubtasksTypeOK'
  BY DEF SubtasksInv, SubtasksTypeOK, OtherCalls
<1>2. \A d \in TaskCalls : SubtaskCallIsSound(subtaskCall[d])'
  BY DEF SubtasksInv, OtherCalls, SubtaskCallIsSound
<1>3. \A o \in owed' : OwedIsDue(o)'
  BY DEF SubtasksInv, OwedIsDue, Children, ToReport
<1>4. ReportIsUnderWay'
  BY ReportStaysUnderWay
<1> QED BY <1>1, <1>2, <1>3, <1>4 DEF SubtasksInv, ParentsExist

\* What a call does next.
LEMMA CallContinues ==
  ASSUME SubtasksInv, NEW c \in TaskCalls, subtaskCall[c].pc # "idle",
         NEW pc \in {"idle", "parent", "children", "channel"}, SubtaskContinue(c, pc)
  PROVE  /\ OtherCalls(c)
         /\ subtaskCall'[c].pc = pc
         /\ pc # "idle" => subtaskCall'[c].row = subtaskCall[c].row /\ subtaskCall'[c].task = subtaskCall[c].task
                           /\ subtaskCall'[c].seen = subtaskCall[c].seen
<1> DEFINE next == [subtaskCall[c] EXCEPT !.pc = pc]
<1>1. /\ subtaskCall \in [TaskCalls -> SubtaskBusy \cup {SubtaskIdle}] /\ subtaskCall[c] \in SubtaskBusy
      /\ SubtaskIdle.pc = "idle"
  BY SubtaskTypes DEF SubtaskIdle
<1>2. pc # "idle" => next \in SubtaskBusy /\ next.pc = pc /\ next.row = subtaskCall[c].row
        /\ next.task = subtaskCall[c].task /\ next.seen = subtaskCall[c].seen
  BY <1>1 DEF SubtaskBusy
<1>3. subtaskCall' = [subtaskCall EXCEPT ![c] = IF pc = "idle" THEN SubtaskIdle ELSE next]
  BY DEF SubtaskContinue, SubtaskReturn, SubtaskGo
<1> HIDE DEF next
<1> QED BY <1>1, <1>2, <1>3 DEF OtherCalls

\* A call that loads a task keeps the invariant,
LEMMA LoadKeeps ==
  ASSUME SubtasksInv, NEW c \in TaskCalls, NEW t \in SubtaskIds, NEW row \in SubtaskRow, NEW transition \in BOOLEAN,
         LoadTask(c, t, row, transition), subtask[t].status # "absent", row.status # "absent",
         row.parent = subtask[t].parent
  PROVE  SubtasksInv'
<1> USE SubtasksAssumption
<1> DEFINE call == [pc |-> "save", task |-> t, row |-> row, from |-> subtask[t].status,
                    transition |-> transition, seen |-> subtask[t].status]
<1>1. subtask[t].status \in TaskStatuses
  BY DEF SubtasksInv, SubtasksTypeOK, SubtaskRow
<1>2. call \in SubtaskBusy /\ SubtaskCallIsSound(call) /\ call.pc = "save"
  BY <1>1 DEF SubtaskBusy, SubtaskCallIsSound, SubtasksInv, ParentsExist
<1>3. /\ subtaskCall[c].pc = "idle" /\ subtaskCall' = [subtaskCall EXCEPT ![c] = call]
      /\ moves < MaxTaskCalls /\ moves' = moves + 1 /\ UNCHANGED <<subtask, published, owed>>
  BY DEF LoadTask, SubtaskIdle
<1> HIDE DEF call
<1>4. OtherCalls(c) /\ subtaskCall'[c] = call
  BY <1>2, <1>3 DEF SubtasksInv, SubtasksTypeOK, OtherCalls
<1>5. SubtaskCallIsSound(subtaskCall[c])'
  BY <1>2, <1>3, <1>4 DEF SubtaskCallIsSound
<1>6. \A o \in owed' : ~Reporting(c, o[1])
  BY <1>3 DEF Reporting
<1> QED BY <1>3, <1>4, <1>5, <1>6, TasksUntouched DEF SubtasksInv, SubtasksTypeOK

\* the creation of a task,
LEMMA CreateTaskKeeps ==
  ASSUME SubtasksInv, NEW t \in SubtaskIds, NEW p \in SubtaskIds \cup {NoTask}, NEW s \in TaskStatuses, CreateTask(t, p, s)
  PROVE  SubtasksInv'
<1> USE SubtasksAssumption
<1> DEFINE row == [status |-> s, parent |-> p, depth |-> IF p = NoTask THEN 0 ELSE subtask[p].depth + 1]
<1>0. subtask \in [SubtaskIds -> SubtaskRow] /\ owed \subseteq SubtaskIds \X TaskMessages
      /\ \A u \in SubtaskIds : subtask[u].depth \in 0..MaxSubtaskDepth /\ subtask[u].parent \in SubtaskIds \cup {NoTask}
  BY DEF SubtasksInv, SubtasksTypeOK, SubtaskRow
<1>1. row \in SubtaskRow /\ row.status = s /\ row.parent = p /\ s # "absent"
  BY <1>0 DEF SubtaskRow, CreateTask, DepthAllows, TaskStatuses
<1>2. /\ subtask[t].status = "absent" /\ subtask' = [subtask EXCEPT ![t] = row]
      /\ owed' = owed \ {<<p, "all_subtasks_complete">>} /\ moves < MaxTaskCalls /\ moves' = moves + 1
      /\ UNCHANGED <<subtaskCall, published>> /\ (p # NoTask => subtask[p].status # "absent") /\ s \in {"draft", "assigned"}
  BY DEF CreateTask
<1> HIDE DEF row
<1>3. /\ subtask' \in [SubtaskIds -> SubtaskRow] /\ subtask'[t] = row
      /\ \A u \in SubtaskIds : u # t => subtask'[u] = subtask[u]
  BY <1>0, <1>1, <1>2
<1>4. SubtasksTypeOK'
  BY <1>2, <1>3 DEF SubtasksInv, SubtasksTypeOK
<1>5. ParentsExist(subtask)'
  BY <1>0, <1>1, <1>2, <1>3 DEF SubtasksInv, ParentsExist
<1>6. ASSUME NEW c \in TaskCalls PROVE SubtaskCallIsSound(subtaskCall[c])'
  <2>1. SubtaskCallIsSound(subtaskCall[c])
    BY DEF SubtasksInv
  <2>2. subtaskCall[c].pc # "idle" => subtaskCall[c].task \in SubtaskIds /\ subtaskCall[c].row.parent \in SubtaskIds \cup {NoTask}
    BY SubtaskTypes
  <2> QED BY <1>2, <1>3, <2>1, <2>2 DEF SubtaskCallIsSound
<1>7. ASSUME NEW o \in owed' PROVE OwedIsDue(o)'
  <2>1. /\ o \in owed /\ o \in SubtaskIds \X TaskMessages /\ o[1] \in SubtaskIds /\ o[2] \in TaskMessages /\ o = <<o[1], o[2]>>
    BY <1>0, <1>2, <1>7
  <2>2. subtask[o[1]].status = "in_progress" /\ o[2] \in ToReport({subtask[u] : u \in Children(o[1])})
    BY <2>1 DEF SubtasksInv, OwedIsDue
  <2>3. o[1] # t /\ subtask'[o[1]].status = "in_progress"
    BY <1>2, <1>3, <2>1, <2>2
  <2>4. CASE p # o[1]
    <3>1. \A u \in SubtaskIds : u \in Children(o[1])' <=> u \in Children(o[1])
      BY <1>1, <1>2, <1>3, <2>4 DEF Children
    <3>2. Children(o[1])' = Children(o[1]) /\ t \notin Children(o[1])
      BY <1>2, <3>1 DEF Children
    <3>3. {subtask'[u] : u \in Children(o[1])'} = {subtask[u] : u \in Children(o[1])}
      BY <1>3, <3>2 DEF Children
    <3> QED BY <2>2, <2>3, <3>3 DEF OwedIsDue, ToReport
  <2>5. CASE p = o[1]
    <3>1. o[2] = "subtask_blocked"
      BY <1>2, <1>7, <2>1, <2>5 DEF TaskMessages
    <3>2. PICK u \in Children(o[1]) : subtask[u].status \in BlockingStatuses
      BY <2>2, <3>1 DEF ToReport
    <3>3. u \in Children(o[1])' /\ subtask'[u].status \in BlockingStatuses
      BY <1>2, <1>3, <3>2 DEF Children
    <3> QED BY <2>1, <2>3, <3>1, <3>3 DEF OwedIsDue, ToReport
  <2> QED BY <2>4, <2>5
<1>8. ReportIsUnderWay'
  BY <1>2 DEF SubtasksInv, ReportIsUnderWay
<1> QED BY <1>4, <1>5, <1>6, <1>7, <1>8 DEF SubtasksInv

\* the save of a copy, which is where a report becomes due,
LEMMA SaveTaskKeeps ==
  ASSUME SubtasksInv, NEW c \in TaskCalls, SaveTask(c)
  PROVE  SubtasksInv'
<1> USE SubtasksAssumption
<1> DEFINE call == subtaskCall[c]
           rows == [subtask EXCEPT ![call.task] = call.row]
           next == IF call.transition THEN AfterSave(call) ELSE "idle"
<1>0. /\ subtask \in [SubtaskIds -> SubtaskRow] /\ owed \subseteq SubtaskIds \X TaskMessages
      /\ call.pc = "save" /\ call.task \in SubtaskIds /\ call.row \in SubtaskRow
      /\ subtask[call.task].status # "absent" /\ call.row.status # "absent" /\ call.row.parent = subtask[call.task].parent
      /\ call.row.parent \in SubtaskIds \cup {NoTask}
      /\ (call.row.parent # NoTask => subtask[call.row.parent].status # "absent")
  BY SubtaskTypes DEF SaveTask, SubtasksInv, SubtasksTypeOK, SubtaskCallIsSound
<1>1. /\ subtask' = rows
      /\ owed' = StillOwed(rows) \cup (IF call.transition THEN NewlyOwed(rows, call.task) ELSE {})
      /\ SubtaskContinue(c, next) /\ UNCHANGED <<published, moves>>
  BY DEF SaveTask
<1>2. next \in {"idle", "parent", "channel"}
  BY DEF AfterSave, AfterTransition
<1>3. /\ OtherCalls(c) /\ subtaskCall'[c].pc = next
      /\ (next # "idle" => subtaskCall'[c].row = call.row /\ subtaskCall'[c].task = call.task)
  BY <1>0, <1>1, <1>2, CallContinues
<1>4. /\ rows \in [SubtaskIds -> SubtaskRow] /\ rows[call.task] = call.row
      /\ \A u \in SubtaskIds : u # call.task => rows[u] = subtask[u]
      /\ \A u \in SubtaskIds : rows[u].parent = subtask[u].parent /\ (rows[u].status = "absent" <=> subtask[u].status = "absent")
  BY <1>0
<1>5. \A q \in SubtaskIds : Children(q)' = Children(q) /\ {subtask'[u] : u \in Children(q)'} = {rows[u] : u \in Children(q)}
  BY <1>1, <1>4 DEF Children
<1>6. owed' \subseteq SubtaskIds \X TaskMessages
  BY <1>0, <1>1 DEF StillOwed, NewlyOwed
<1>7. SubtasksTypeOK'
  BY <1>1, <1>3, <1>4, <1>6 DEF SubtasksInv, SubtasksTypeOK, OtherCalls
<1>8. ParentsExist(subtask)'
  BY <1>0, <1>1, <1>4 DEF SubtasksInv, ParentsExist
<1>9. ASSUME NEW d \in TaskCalls PROVE SubtaskCallIsSound(subtaskCall[d])'
  <2>1. CASE d = c
    <3>1. next = "parent" => call.row.parent # NoTask
      BY DEF AfterSave, AfterTransition
    <3> QED BY <1>0, <1>1, <1>2, <1>3, <1>4, <2>1, <3>1 DEF SubtaskCallIsSound
  <2>2. CASE d # c
    <3>1. subtaskCall'[d] = subtaskCall[d] /\ SubtaskCallIsSound(subtaskCall[d])
      BY <1>3, <2>2 DEF OtherCalls, SubtasksInv
    <3>2. subtaskCall[d].pc # "idle" => subtaskCall[d].task \in SubtaskIds /\ subtaskCall[d].row.parent \in SubtaskIds \cup {NoTask}
      BY SubtaskTypes
    <3> QED BY <1>1, <1>4, <3>1, <3>2 DEF SubtaskCallIsSound
  <2> QED BY <2>1, <2>2
<1>10. \A o \in owed' : rows[o[1]].status = "in_progress" /\ o[2] \in ToReport({rows[u] : u \in Children(o[1])}) /\ o[1] \in SubtaskIds
  <2>1. \A o \in StillOwed(rows) : rows[o[1]].status = "in_progress" /\ o[2] \in ToReport({rows[u] : u \in Children(o[1])})
    BY DEF StillOwed
  <2>2. \A o \in NewlyOwed(rows, call.task) : rows[o[1]].status = "in_progress" /\ o[2] \in ToReport({rows[u] : u \in Children(o[1])})
    BY DEF NewlyOwed
  <2>3. \A o \in owed' : o[1] \in SubtaskIds
    BY <1>6
  <2> QED BY <1>1, <2>1, <2>2, <2>3
<1>11. ASSUME NEW o \in owed' PROVE OwedIsDue(o)'
  <2>1. o[1] \in SubtaskIds /\ {subtask'[u] : u \in Children(o[1])'} = {rows[u] : u \in Children(o[1])}
    BY <1>5, <1>10
  <2> QED BY <1>1, <1>10, <2>1 DEF OwedIsDue, ToReport
<1>12. ReportIsUnderWay'
  <2>1. ~Reporting(c, NoTask) /\ \A q : ~Reporting(c, q)
    BY <1>0 DEF Reporting
  <2>2. ASSUME NEW o \in owed', o \notin owed PROVE Reporting(c, o[1])'
    <3>1. call.transition /\ o \in NewlyOwed(rows, call.task)
      BY <1>1, <2>2 DEF StillOwed
    <3>2. o[1] = call.row.parent /\ o[1] \in SubtaskIds
      BY <1>4, <1>10, <2>2, <3>1 DEF NewlyOwed
    <3>3. next = "parent"
      BY <3>1, <3>2 DEF AfterSave
    <3> QED BY <1>3, <3>2, <3>3 DEF Reporting
  <2> QED BY <1>3, <2>1, <2>2, ReportStaysUnderWay
<1> QED BY <1>7, <1>8, <1>9, <1>11, <1>12 DEF SubtasksInv

\* and the queries that follow the save.
LEMMA SubtaskCallKeeps ==
  ASSUME SubtasksInv, NEW c \in TaskCalls, ReadParent(c) \/ ReportToParent(c) \/ RequestChannel(c) \/ AbortTaskCall(c)
  PROVE  SubtasksInv'
<1> USE SubtasksAssumption
<1> DEFINE call == subtaskCall[c]
<1>0. /\ call.pc # "idle" /\ call \in SubtaskBusy /\ call.task \in SubtaskIds /\ call.row.parent \in SubtaskIds \cup {NoTask}
      /\ SubtaskCallIsSound(call) /\ UNCHANGED <<subtask, moves>>
      /\ subtask \in [SubtaskIds -> SubtaskRow] /\ moves \in 0..MaxTaskCalls
      /\ published \subseteq SubtaskIds \X (TaskMessages \cup {"channel_requested"})
      /\ owed \subseteq SubtaskIds \X TaskMessages
  <2>1. call.pc # "idle" /\ UNCHANGED <<subtask, moves>>
    BY SubtaskTypes DEF ReadParent, ReportToParent, RequestChannel, AbortTaskCall
  <2> QED BY <2>1, SubtaskTypes DEF SubtasksInv, SubtasksTypeOK
<1>a. ASSUME SubtaskReturn(c) PROVE OtherCalls(c) /\ SubtaskCallIsSound(subtaskCall[c])'
  <2>1. SubtaskContinue(c, "idle")
    BY <1>a DEF SubtaskContinue
  <2> QED BY <1>0, <2>1, CallContinues DEF SubtaskCallIsSound
<1>1. CASE ReadParent(c)
  <2> DEFINE next == [call EXCEPT !.pc = "children", !.seen = subtask[call.row.parent].status]
  <2>1. subtask[call.row.parent].status \in TaskStatuses /\ call.row.parent # NoTask /\ call.pc = "parent"
    BY <1>0, <1>1 DEF ReadParent, SubtaskCallIsSound, SubtaskRow
  <2>2. /\ next \in SubtaskBusy /\ next.pc = "children" /\ next.row = call.row /\ next.task = call.task
        /\ next.seen = subtask[call.row.parent].status
    BY <1>0, <2>1 DEF SubtaskBusy
  <2>3. subtaskCall' = [subtaskCall EXCEPT ![c] = next] /\ UNCHANGED <<published, owed>>
    BY <1>1 DEF ReadParent
  <2> HIDE DEF next
  <2>4. OtherCalls(c) /\ subtaskCall'[c] = next
    BY <2>2, <2>3 DEF OtherCalls, SubtasksInv, SubtasksTypeOK
  <2>5. SubtaskCallIsSound(subtaskCall[c])'
    BY <1>0, <2>1, <2>2, <2>4 DEF SubtaskCallIsSound
  <2>6. ASSUME NEW o \in owed', Reporting(c, o[1]) PROVE Reporting(c, o[1])'
    <3>1. o[1] = call.row.parent /\ subtask[o[1]].status = "in_progress"
      BY <2>3, <2>6 DEF Reporting, SubtasksInv, OwedIsDue
    <3> QED BY <2>2, <2>4, <3>1 DEF Reporting
  <2> QED BY <1>0, <2>3, <2>4, <2>5, <2>6, TasksUntouched
<1>2. CASE ReportToParent(c)
  <2> DEFINE p == call.row.parent
             reports == IF call.seen = "in_progress" THEN {p} \X ToReport({subtask[u] : u \in Children(p)}) ELSE {}
             next == AfterTransition(call)
  <2>1. /\ published' = published \cup reports /\ owed' = owed \ reports /\ SubtaskContinue(c, next) /\ call.pc = "children"
    BY <1>2 DEF ReportToParent
  <2>2. p \in SubtaskIds /\ reports \subseteq SubtaskIds \X TaskMessages
    BY <1>0, <2>1 DEF SubtaskCallIsSound, ToReport
  <2>3. next \in {"idle", "channel"}
    BY DEF AfterTransition
  <2>4. OtherCalls(c) /\ subtaskCall'[c].pc = next /\ (next # "idle" => subtaskCall'[c].row = call.row)
    BY <1>0, <2>1, <2>3, CallContinues
  <2>5. SubtaskCallIsSound(subtaskCall[c])'
    BY <1>0, <2>3, <2>4 DEF SubtaskCallIsSound
  <2>6. ASSUME NEW o \in owed', Reporting(c, o[1]) PROVE FALSE
    <3>1. o \in owed /\ o \notin reports /\ o = <<o[1], o[2]>> /\ call.seen = "in_progress" /\ o[1] = p
      BY <1>0, <2>1, <2>6 DEF Reporting
    <3>2. o[2] \in ToReport({subtask[u] : u \in Children(p)})
      BY <3>1 DEF SubtasksInv, OwedIsDue
    <3> QED BY <3>1, <3>2
  <2>7. published' \subseteq SubtaskIds \X (TaskMessages \cup {"channel_requested"})
    BY <1>0, <2>1, <2>2
  <2> QED BY <1>0, <2>1, <2>4, <2>5, <2>6, <2>7, TasksUntouched
<1>3. CASE RequestChannel(c)
  <2>1. published' = published \cup {<<call.task, "channel_requested">>} /\ SubtaskReturn(c) /\ owed' = owed /\ call.pc = "channel"
    BY <1>3 DEF RequestChannel
  <2> QED BY <1>0, <1>a, <2>1, TasksUntouched DEF Reporting
<1>4. CASE AbortTaskCall(c)
  <2>1. owed' = {o \in owed : call.pc = "save" \/ o[1] # call.row.parent} /\ SubtaskReturn(c) /\ published' = published
    BY <1>4 DEF AbortTaskCall
  <2> QED BY <1>0, <1>a, <2>1, TasksUntouched DEF Reporting
<1> QED BY <1>1, <1>2, <1>3, <1>4

\* Every step of the specification keeps the inductive invariant.
LEMMA SubtasksNextInv == SubtasksInv /\ [SubtasksNext]_subtaskVars => SubtasksInv'
<1> SUFFICES ASSUME SubtasksInv, [SubtasksNext]_subtaskVars PROVE SubtasksInv'
  OBVIOUS
<1>0. subtask \in [SubtaskIds -> SubtaskRow]
  BY DEF SubtasksInv, SubtasksTypeOK
<1>1. ASSUME NEW t \in SubtaskIds, NEW p \in SubtaskIds \cup {NoTask}, NEW s \in TaskStatuses, CreateTask(t, p, s)
      PROVE  SubtasksInv'
  BY <1>1, CreateTaskKeeps
<1>2. ASSUME NEW c \in TaskCalls, NEW t \in SubtaskIds, NEW s \in TaskStatuses, TransitionTask(c, t, s)
      PROVE  SubtasksInv'
  <2> DEFINE row == [subtask[t] EXCEPT !.status = s]
  <2>1. row \in SubtaskRow /\ row.status = s /\ row.parent = subtask[t].parent
    BY <1>0 DEF SubtaskRow
  <2>2. LoadTask(c, t, row, TRUE) /\ s \in TaskTransitions(subtask[t].status)
    BY <1>2 DEF TransitionTask
  <2> HIDE DEF row
  <2>3. subtask[t].status # "absent" /\ s # "absent"
    BY <2>2 DEF TaskTransitions, TaskStatuses
  <2> QED BY <2>1, <2>2, <2>3, LoadKeeps
<1>3. ASSUME NEW c \in TaskCalls, NEW t \in SubtaskIds, UpdateTask(c, t) PROVE SubtasksInv'
  BY <1>0, <1>3, LoadKeeps DEF UpdateTask
<1>4. ASSUME NEW c \in TaskCalls, SaveTask(c) PROVE SubtasksInv'
  BY <1>4, SaveTaskKeeps
<1>5. ASSUME NEW c \in TaskCalls, ReadParent(c) \/ ReportToParent(c) \/ RequestChannel(c) \/ AbortTaskCall(c) PROVE SubtasksInv'
  BY <1>5, SubtaskCallKeeps
<1>6. CASE UNCHANGED subtaskVars
  <2>1. subtask' = subtask /\ subtaskCall' = subtaskCall /\ published' = published /\ owed' = owed /\ moves' = moves
    BY <1>6 DEF subtaskVars
  <2>2. SubtasksTypeOK' /\ ReportIsUnderWay'
    BY <2>1 DEF SubtasksInv, SubtasksTypeOK, ReportIsUnderWay
  <2>3. ParentsExist(subtask)'
    BY <2>1 DEF SubtasksInv, ParentsExist
  <2>4. \A c \in TaskCalls : SubtaskCallIsSound(subtaskCall[c])'
    BY <2>1 DEF SubtasksInv, SubtaskCallIsSound
  <2>5. ASSUME NEW o \in owed' PROVE OwedIsDue(o)'
    <3>1. Children(o[1])' = Children(o[1])
      BY <2>1 DEF Children
    <3> QED BY <2>1, <3>1 DEF SubtasksInv, OwedIsDue
  <2> QED BY <2>2, <2>3, <2>4, <2>5 DEF SubtasksInv
<1> QED BY <1>1, <1>2, <1>3, <1>4, <1>5, <1>6 DEF SubtasksNext

\* For any number of tasks and calls, the types are kept, parents exist, and as long
\* as a report to the executor of a parent task is due, a call is on its way that
\* will make it (tasks.service.ts:398-490).
THEOREM ReportsAreMade == SubtasksSpec => [](SubtasksTypeOK /\ ParentsExist(subtask) /\ ReportIsUnderWay)
<1>1. SubtasksInv => SubtasksTypeOK /\ ParentsExist(subtask) /\ ReportIsUnderWay
  BY DEF SubtasksInv
<1> QED BY <1>1, SubtasksInitInv, SubtasksNextInv, PTL DEF SubtasksSpec

-----------------------------------------------------------------------------
\* Assignments of a resolution.
Assigned(rows) == \A e \in Executors : rows[e].status \notin {"absent", "cancelled"}

\* From the event of the resolution on, all assignments are stored.
EventFollows ==
  /\ \A e \in Executors : e \notin issue.todo => assignment[e].status # "absent"
  /\ \A e \in Executors : assignment[e].status # "cancelled"
  /\ issue.published => issue.todo = {}
  /\ creation.state # "waiting" => issue.published
  /\ \A t \in ExecutionTasks : docTask[t] # NoLink => issue.published
  /\ \A m \in bus : m.kind = "completed" => issue.published

\* What a call holds: a copy of a stored assignment, and what its completion followed.
ExecutionCallIsSound(r) ==
  /\ r.pc = "save" =>
       /\ r.row.status \notin {"absent", "cancelled"}
       /\ r.row.status = "completed" => r.then # "nothing" \/ r.who \in ever
       /\ r.then = "document" => issue.published
  /\ r.pc = "check" /\ r.then = "document" => issue.published
  /\ r.pc = "complete" => \A e \in Executors : RoleOf[e] = "primary" => e \in ever

\* The inductive invariant.
ExecutionInv ==
  /\ EdmsExecutionTypeOK
  /\ EventFollows
  /\ \A e \in Executors : assignment[e].status = "completed" => e \in ever
  /\ \A c \in ExecutionCalls : ExecutionCallIsSound(executionCall[c])
  /\ AutoCompletionAfterAll
  /\ noticeDue # {} => AllComplete(assignment)
  /\ LastCompletionIsNoticed

\* It holds at the start.
LEMMA ExecutionInitInv == EdmsExecutionInit => ExecutionInv
<1> SUFFICES ASSUME EdmsExecutionInit PROVE ExecutionInv
  OBVIOUS
<1> USE EdmsExecutionAssumption DEF EdmsExecutionInit
<1>1. EdmsExecutionTypeOK
  BY DEF EdmsExecutionTypeOK, DocumentStatuses, AssignmentRow, AssignmentStatuses
<1>2. EventFollows
  BY DEF EventFollows
<1> QED BY <1>1, <1>2 DEF ExecutionInv, ExecutionCallIsSound, ExecutionIdle, AutoCompletionAfterAll, LastCompletionIsNoticed

\* The types of the tables and of a call.
LEMMA ExecutionTypes ==
  ASSUME ExecutionInv, NEW c \in ExecutionCalls
  PROVE  /\ assignment \in [Executors -> AssignmentRow]
         /\ executionCall \in [ExecutionCalls -> ExecutionBusy \cup {ExecutionIdle}]
         /\ executionCall[c].pc \in {"idle", "save", "check", "complete", "link", "mark"}
         /\ executionCall[c].pc = "save" =>
              /\ executionCall[c].who \in Executors /\ executionCall[c].row \in AssignmentRow
              /\ executionCall[c].then \in Notices \cup {"nothing"}
         /\ executionCall[c].pc = "check" => executionCall[c].then \in Notices
         /\ executionCall[c].pc = "link" => executionCall[c].who \in Executors /\ executionCall[c].task \in ExecutionTasks
BY DEF ExecutionInv, EdmsExecutionTypeOK, ExecutionBusy, ExecutionIdle

\* A step that starts no event of its own: only call c moves, completions are
\* remembered and the event stays published.
OnlyCall(c) ==
  /\ issue.published => issue'.published
  /\ ever \subseteq ever'
  /\ \A d \in ExecutionCalls : d # c => executionCall'[d] = executionCall[d]

\* A step of call c leaves the other calls alone.
LEMMA OtherExecutionCalls ==
  ASSUME ExecutionInv, NEW c, OnlyCall(c), NEW d \in ExecutionCalls, d # c
  PROVE  ExecutionCallIsSound(executionCall[d])'
BY DEF ExecutionInv, OnlyCall, ExecutionCallIsSound

\* The notices that stay due are given by the calls other than c, or by c itself.
LEMMA NoticeIsUnderWay ==
  ASSUME ExecutionInv, NEW c, OnlyCall(c),
         \A k \in noticeDue' :
           \/ /\ k \in noticeDue
              /\ c \in ExecutionCalls => ~(executionCall[c].pc = "check" /\ executionCall[c].then = k)
              /\ c \in ExecutionCalls => ~(executionCall[c].pc = "complete" /\ k = "document")
           \/ /\ c \in ExecutionCalls
              /\ \/ executionCall'[c].pc = "check" /\ executionCall'[c].then = k
                 \/ executionCall'[c].pc = "complete" /\ k = "document"
  PROVE  LastCompletionIsNoticed'
<1> SUFFICES ASSUME NEW k \in noticeDue'
             PROVE  \E d \in ExecutionCalls : \/ executionCall'[d].pc = "check" /\ executionCall'[d].then = k
                                              \/ executionCall'[d].pc = "complete" /\ k = "document"
  BY DEF LastCompletionIsNoticed
<1> QED BY DEF ExecutionInv, LastCompletionIsNoticed, OnlyCall

\* Completeness depends on the status alone.
LEMMA SameStatus ==
  ASSUME NEW rows, NEW others, \A e \in Executors : rows[e].status = others[e].status
  PROVE  AllComplete(rows) = AllComplete(others)
BY DEF AllComplete

\* A step of the issue and of the listener that creates the tasks: no call moves.
LEMMA IssueKeeps ==
  ASSUME ExecutionInv,
         \/ \E e \in Executors : IssueAssignment(e)
         \/ PublishResolution \/ DeliverResolution
         \/ \E t \in ExecutionTasks :
              (\E e \in Executors : CreateDocumentTask(e, t)) \/ FailCreation(t) \/ AnnounceCompletion(t)
         \/ \E s \in DocumentStatuses : MoveDocument(s)
  PROVE  ExecutionInv'
<1> USE EdmsExecutionAssumption
<1>0. EdmsExecutionTypeOK
  BY DEF ExecutionInv
<1>1. ASSUME NEW e \in Executors, IssueAssignment(e) PROVE ExecutionInv'
  <2> DEFINE row == [assignment[e] EXCEPT !.status = "assigned"]
  <2>1. /\ row \in AssignmentRow /\ row.status = "assigned"
    BY <1>0 DEF EdmsExecutionTypeOK, AssignmentRow, AssignmentStatuses
  <2>2. assignment' = [assignment EXCEPT ![e] = row] /\ noticeDue' = StillDue(assignment')
        /\ UNCHANGED <<document, docTask, bus, creation, executionCall, noticed, ever, executed>> /\ e \in issue.todo
    BY <1>1 DEF IssueAssignment
  <2>a. issue' = [issue EXCEPT !.todo = @ \ {e}]
    BY <1>1 DEF IssueAssignment
  <2>b. issue' \in [todo: SUBSET Executors, published: BOOLEAN] /\ issue'.todo = issue.todo \ {e} /\ issue'.published = issue.published
    BY <1>0, <2>a DEF EdmsExecutionTypeOK
  <2> HIDE DEF row
  <2>3. /\ assignment' \in [Executors -> AssignmentRow] /\ assignment'[e] = row
        /\ \A other \in Executors : other # e => assignment'[other] = assignment[other]
    BY <1>0, <2>1, <2>2 DEF EdmsExecutionTypeOK
  <2>4. noticeDue' \subseteq noticeDue /\ (noticeDue' # {} => AllComplete(assignment'))
    BY <2>2 DEF StillDue
  <2>5. EdmsExecutionTypeOK'
    BY <1>0, <2>2, <2>b, <2>3, <2>4 DEF EdmsExecutionTypeOK
  <2>6. EventFollows'
    BY <2>1, <2>2, <2>b, <2>3 DEF ExecutionInv, EventFollows
  <2>7. \A c \in ExecutionCalls : ExecutionCallIsSound(executionCall[c])'
    BY <2>2, <2>b DEF ExecutionInv, ExecutionCallIsSound
  <2>8. \A other \in Executors : assignment'[other].status = "completed" => other \in ever'
    BY <2>1, <2>2, <2>3 DEF ExecutionInv
  <2>9. AutoCompletionAfterAll'
    BY <2>2 DEF ExecutionInv, AutoCompletionAfterAll
  <2>10. LastCompletionIsNoticed'
    BY <2>2, <2>4 DEF ExecutionInv, LastCompletionIsNoticed
  <2> QED BY <2>4, <2>5, <2>6, <2>7, <2>8, <2>9, <2>10 DEF ExecutionInv
<1>2. CASE PublishResolution
  <2>1. issue' = [issue EXCEPT !.published = TRUE] /\ issue.todo = {}
        /\ UNCHANGED <<document, assignment, docTask, bus, creation, executionCall, noticeDue, noticed, ever, executed>>
    BY <1>2 DEF PublishResolution
  <2>2. issue' \in [todo: SUBSET Executors, published: BOOLEAN] /\ issue'.published /\ issue'.todo = issue.todo
    BY <1>0, <2>1 DEF EdmsExecutionTypeOK
  <2>3. EdmsExecutionTypeOK' /\ EventFollows'
    BY <1>0, <2>1, <2>2 DEF EdmsExecutionTypeOK, ExecutionInv, EventFollows
  <2> QED BY <2>1, <2>2, <2>3 DEF ExecutionInv, ExecutionCallIsSound, AutoCompletionAfterAll, LastCompletionIsNoticed
<1>3. CASE DeliverResolution
  <2>1. EdmsExecutionTypeOK'
    BY <1>0, <1>3 DEF EdmsExecutionTypeOK, DeliverResolution
  <2>2. EventFollows'
    BY <1>3 DEF ExecutionInv, EventFollows, DeliverResolution
  <2> QED BY <1>3, <2>1, <2>2 DEF DeliverResolution, ExecutionInv, ExecutionCallIsSound, AutoCompletionAfterAll, LastCompletionIsNoticed
<1>4. ASSUME NEW t \in ExecutionTasks, NEW e \in Executors, CreateDocumentTask(e, t) PROVE ExecutionInv'
  <2> DEFINE m == [kind |-> "created", who |-> e, task |-> t]
             state == IF creation.todo = {e} THEN "done" ELSE "running"
  <2>1. m \in Event /\ m.kind = "created" /\ state \in {"running", "done"}
    BY DEF Event
  <2>2. /\ docTask' = [docTask EXCEPT ![t] = e] /\ bus' = bus \cup {m} /\ creation.state = "running"
        /\ creation' = [creation EXCEPT !.todo = @ \ {e}, !.state = state]
        /\ UNCHANGED <<document, assignment, issue, executionCall, noticeDue, noticed, ever, executed>>
    BY <1>4 DEF CreateDocumentTask
  <2> HIDE DEF m, state
  <2>3. creation' \in [todo: SUBSET Executors, state: {"waiting", "running", "failed", "done"}, deliveries: 0..MaxDeliveries]
    BY <1>0, <2>1, <2>2 DEF EdmsExecutionTypeOK
  <2>4. EdmsExecutionTypeOK'
    BY <1>0, <2>1, <2>2, <2>3 DEF EdmsExecutionTypeOK
  <2>5. EventFollows'
    BY <2>1, <2>2 DEF ExecutionInv, EventFollows
  <2> QED BY <2>2, <2>4, <2>5 DEF ExecutionInv, ExecutionCallIsSound, AutoCompletionAfterAll, LastCompletionIsNoticed
<1>5. ASSUME NEW t \in ExecutionTasks, FailCreation(t) PROVE ExecutionInv'
  <2>1. creation' \in [todo: SUBSET Executors, state: {"waiting", "running", "failed", "done"}, deliveries: 0..MaxDeliveries]
    BY <1>0, <1>5 DEF EdmsExecutionTypeOK, FailCreation
  <2>2. /\ creation.state = "running" /\ docTask' \in [ExecutionTasks -> Executors \cup {NoLink}]
        /\ UNCHANGED <<document, assignment, bus, issue, executionCall, noticeDue, noticed, ever, executed>>
    BY <1>0, <1>5 DEF FailCreation, EdmsExecutionTypeOK
  <2>3. EdmsExecutionTypeOK'
    BY <1>0, <2>1, <2>2 DEF EdmsExecutionTypeOK
  <2>4. EventFollows'
    BY <2>2 DEF ExecutionInv, EventFollows
  <2> QED BY <2>2, <2>3, <2>4 DEF ExecutionInv, ExecutionCallIsSound, AutoCompletionAfterAll, LastCompletionIsNoticed
<1>6. ASSUME NEW t \in ExecutionTasks, AnnounceCompletion(t) PROVE ExecutionInv'
  <2> DEFINE m == [kind |-> "completed", task |-> t]
  <2>1. m \in Event
    BY DEF Event
  <2>2. /\ docTask[t] # NoLink /\ bus' = bus \cup {m}
        /\ UNCHANGED <<document, assignment, docTask, issue, creation, executionCall, noticeDue, noticed, ever, executed>>
    BY <1>6 DEF AnnounceCompletion
  <2> HIDE DEF m
  <2>3. EdmsExecutionTypeOK'
    BY <1>0, <2>1, <2>2 DEF EdmsExecutionTypeOK
  <2>4. EventFollows'
    BY <2>2 DEF ExecutionInv, EventFollows
  <2> QED BY <2>2, <2>3, <2>4 DEF ExecutionInv, ExecutionCallIsSound, AutoCompletionAfterAll, LastCompletionIsNoticed
<1>7. ASSUME NEW s \in DocumentStatuses, MoveDocument(s) PROVE ExecutionInv'
  <2>1. EdmsExecutionTypeOK'
    BY <1>0, <1>7 DEF EdmsExecutionTypeOK, MoveDocument
  <2>2. EventFollows'
    BY <1>7 DEF ExecutionInv, EventFollows, MoveDocument
  <2> QED BY <1>7, <2>1, <2>2 DEF MoveDocument, ExecutionInv, ExecutionCallIsSound, AutoCompletionAfterAll, LastCompletionIsNoticed
<1> QED BY <1>1, <1>2, <1>3, <1>4, <1>5, <1>6, <1>7

\* A call that starts, or goes on without touching an assignment or a notice.
LEMMA CallMoves ==
  ASSUME ExecutionInv, NEW c \in ExecutionCalls, NEW r \in ExecutionBusy \cup {ExecutionIdle}, Run(c, r),
         ExecutionCallIsSound(r), executionCall[c].pc \notin {"check", "complete"},
         UNCHANGED <<document, assignment, docTask, issue, creation, noticeDue, noticed, ever>>,
         bus' \subseteq bus, executed' \in 0..MaxExecutionCalls
  PROVE  ExecutionInv'
<1>0. EdmsExecutionTypeOK
  BY DEF ExecutionInv
<1>1. /\ executionCall' \in [ExecutionCalls -> ExecutionBusy \cup {ExecutionIdle}] /\ executionCall'[c] = r
      /\ \A d \in ExecutionCalls : d # c => executionCall'[d] = executionCall[d]
  BY <1>0 DEF Run, EdmsExecutionTypeOK
<1>2. OnlyCall(c)
  BY <1>1 DEF OnlyCall
<1>3. EdmsExecutionTypeOK'
  BY <1>0, <1>1 DEF EdmsExecutionTypeOK
<1>4. ExecutionCallIsSound(executionCall[c])'
  BY <1>1 DEF ExecutionCallIsSound
<1>5. \A d \in ExecutionCalls : ExecutionCallIsSound(executionCall[d])'
  BY <1>2, <1>4, OtherExecutionCalls
<1>6. LastCompletionIsNoticed'
  BY <1>2, NoticeIsUnderWay
<1>7. EventFollows'
  BY DEF ExecutionInv, EventFollows
<1> QED BY <1>3, <1>5, <1>6, <1>7 DEF ExecutionInv, AutoCompletionAfterAll

\* The copies the calls make of an assignment are assignments.
LEMMA AssignmentCopy ==
  ASSUME ExecutionInv, NEW e \in Executors, NEW st \in AssignmentStatuses, NEW then \in Notices \cup {"nothing"},
         st \notin {"absent", "cancelled"},
         st = "completed" => then # "nothing" \/ assignment[e].status = "completed",
         then = "document" => issue.published
  PROVE  SaveCopy(e, st, then) \in ExecutionBusy /\ ExecutionCallIsSound(SaveCopy(e, st, then))
<1> DEFINE row == [assignment[e] EXCEPT !.status = st]
<1>1. row \in AssignmentRow /\ row.status = st
  BY DEF ExecutionInv, EdmsExecutionTypeOK, AssignmentRow
<1> HIDE DEF row
<1>2. SaveCopy(e, st, then) = [pc |-> "save", who |-> e, row |-> row, then |-> then]
  BY DEF SaveCopy, row
<1> QED BY <1>1, <1>2 DEF ExecutionBusy, ExecutionCallIsSound, ExecutionInv

\* The calls that start keep the invariant,
LEMMA ExecutionStartsKeep ==
  ASSUME ExecutionInv, NEW c \in ExecutionCalls,
         \/ \E e \in Executors : ProgressAssignment(c, e) \/ ExtendAssignment(c, e) \/ FileReport(c, e)
         \/ \E b \in SUBSET Executors : LoadLate(c, b)
         \/ \E m \in bus : OnTaskCreated(c, m) \/ OnTaskCompleted(c, m)
  PROVE  ExecutionInv'
<1> USE EdmsExecutionAssumption
<1>0. EdmsExecutionTypeOK /\ ExecutionIdle.pc = "idle"
  BY DEF ExecutionInv, ExecutionIdle
<1>a. ASSUME NEW r \in ExecutionBusy, StartCall(c, r), ExecutionCallIsSound(r) PROVE ExecutionInv'
  BY <1>0, <1>a, CallMoves DEF StartCall, EdmsExecutionTypeOK
<1>b. ASSUME NEW m \in bus, NEW r \in ExecutionBusy \cup {ExecutionIdle}, Take(c, m, r), ExecutionCallIsSound(r)
      PROVE  ExecutionInv'
  BY <1>0, <1>b, CallMoves DEF Take, EdmsExecutionTypeOK
<1>c. ExecutionCallIsSound(ExecutionIdle)
  BY <1>0 DEF ExecutionCallIsSound
<1>d. /\ "nothing" \in Notices \cup {"nothing"} /\ "event" \in Notices \cup {"nothing"} /\ "document" \in Notices \cup {"nothing"}
      /\ {"accepted", "in_progress", "completed"} \subseteq AssignmentStatuses
      /\ \A e \in Executors : assignment[e].status \in AssignmentStatuses /\ assignment[e].status # "cancelled"
  BY <1>0 DEF Notices, AssignmentStatuses, EdmsExecutionTypeOK, AssignmentRow, ExecutionInv, EventFollows
<1>1. ASSUME NEW e \in Executors, ProgressAssignment(c, e) PROVE ExecutionInv'
  <2>1. PICK st \in {"accepted", "in_progress"} : StartCall(c, SaveCopy(e, st, "nothing"))
    BY <1>1 DEF ProgressAssignment
  <2>2. SaveCopy(e, st, "nothing") \in ExecutionBusy /\ ExecutionCallIsSound(SaveCopy(e, st, "nothing"))
    BY <1>d, AssignmentCopy
  <2> QED BY <1>a, <2>1, <2>2
<1>2. ASSUME NEW e \in Executors, ExtendAssignment(c, e) PROVE ExecutionInv'
  <2>1. SaveCopy(e, assignment[e].status, "nothing") \in ExecutionBusy
        /\ ExecutionCallIsSound(SaveCopy(e, assignment[e].status, "nothing"))
    BY <1>2, <1>d, AssignmentCopy DEF ExtendAssignment
  <2> QED BY <1>2, <1>a, <2>1 DEF ExtendAssignment
<1>3. ASSUME NEW e \in Executors, FileReport(c, e) PROVE ExecutionInv'
  <2>1. SaveCopy(e, "completed", "event") \in ExecutionBusy /\ ExecutionCallIsSound(SaveCopy(e, "completed", "event"))
    BY <1>d, AssignmentCopy
  <2> QED BY <1>3, <1>a, <2>1 DEF FileReport
<1>4. ASSUME NEW b \in SUBSET Executors, LoadLate(c, b) PROVE ExecutionInv'
  <2>1. [pc |-> "mark", batch |-> b] \in ExecutionBusy /\ ExecutionCallIsSound([pc |-> "mark", batch |-> b])
    BY DEF ExecutionBusy, ExecutionCallIsSound
  <2> QED BY <1>4, <1>a, <2>1 DEF LoadLate
<1>5. ASSUME NEW m \in bus, OnTaskCreated(c, m) PROVE ExecutionInv'
  <2>1. CASE Take(c, m, ExecutionIdle)
    BY <1>b, <1>c, <2>1
  <2>2. CASE Take(c, m, [pc |-> "link", who |-> m.who, task |-> m.task])
    <3>1. m.who \in Executors /\ m.task \in ExecutionTasks
      BY <1>0, <1>5 DEF OnTaskCreated, EdmsExecutionTypeOK, Event
    <3>2. [pc |-> "link", who |-> m.who, task |-> m.task] \in ExecutionBusy
          /\ ExecutionCallIsSound([pc |-> "link", who |-> m.who, task |-> m.task])
      BY <3>1 DEF ExecutionBusy, ExecutionCallIsSound
    <3> QED BY <1>b, <2>2, <3>2
  <2> QED BY <1>5, <2>1, <2>2 DEF OnTaskCreated
<1>6. ASSUME NEW m \in bus, OnTaskCompleted(c, m) PROVE ExecutionInv'
  <2>1. CASE Take(c, m, ExecutionIdle)
    BY <1>b, <1>c, <2>1
  <2>2. ASSUME NEW e \in Executors, Take(c, m, SaveCopy(e, "completed", "document")) PROVE ExecutionInv'
    <3>1. issue.published
      BY <1>6 DEF OnTaskCompleted, ExecutionInv, EventFollows
    <3>2. SaveCopy(e, "completed", "document") \in ExecutionBusy
          /\ ExecutionCallIsSound(SaveCopy(e, "completed", "document"))
      BY <1>d, <3>1, AssignmentCopy
    <3> QED BY <1>b, <2>2, <3>2
  <2> QED BY <1>6, <2>1, <2>2 DEF OnTaskCompleted, Linked
<1> QED BY <1>1, <1>2, <1>3, <1>4, <1>5, <1>6

\* and the steps they take.
LEMMA ExecutionStepsKeep ==
  ASSUME ExecutionInv, NEW c \in ExecutionCalls,
         MarkLate(c) \/ SaveAssignment(c) \/ CheckAssignments(c) \/ CompleteDocument(c) \/ StoreLink(c) \/ AbortExecution(c)
  PROVE  ExecutionInv'
<1> USE EdmsExecutionAssumption
<1> DEFINE call == executionCall[c]
<1>0. EdmsExecutionTypeOK /\ ExecutionIdle.pc = "idle" /\ ExecutionCallIsSound(call)
  BY DEF ExecutionInv, ExecutionIdle
<1>a. ASSUME NEW r \in ExecutionBusy \cup {ExecutionIdle}, Run(c, r)
      PROVE  /\ executionCall' \in [ExecutionCalls -> ExecutionBusy \cup {ExecutionIdle}] /\ executionCall'[c] = r
             /\ \A d \in ExecutionCalls : d # c => executionCall'[d] = executionCall[d]
  BY <1>0, <1>a DEF Run, EdmsExecutionTypeOK
<1>b. /\ executionCall' \in [ExecutionCalls -> ExecutionBusy \cup {ExecutionIdle}]
      /\ \A d \in ExecutionCalls : d # c => executionCall'[d] = executionCall[d]
      /\ ever \subseteq ever' /\ issue' = issue
  <2>1. ExecutionIdle \in ExecutionBusy \cup {ExecutionIdle}
    OBVIOUS
  <2>2. CASE SaveAssignment(c)
    <3>1. call.then \in Notices \cup {"nothing"}
      BY <2>2, ExecutionTypes DEF SaveAssignment
    <3>2. (IF call.then = "nothing" THEN ExecutionIdle ELSE [pc |-> "check", then |-> call.then]) \in ExecutionBusy \cup {ExecutionIdle}
      BY <3>1 DEF ExecutionBusy
    <3> QED BY <1>a, <2>2, <3>2 DEF SaveAssignment
  <2>3. CASE CheckAssignments(c)
    <3>1. [pc |-> "complete"] \in ExecutionBusy
      BY DEF ExecutionBusy
    <3> QED BY <1>a, <2>3, <3>1 DEF CheckAssignments
  <2> QED BY <1>a, <2>1, <2>2, <2>3 DEF MarkLate, CompleteDocument, StoreLink, AbortExecution
<1>c. OnlyCall(c)
  BY <1>b DEF OnlyCall
<1>d. ExecutionCallIsSound(executionCall[c])' => \A d \in ExecutionCalls : ExecutionCallIsSound(executionCall[d])'
  BY <1>c, OtherExecutionCalls
<1>e. Run(c, ExecutionIdle) => ExecutionCallIsSound(executionCall[c])'
  <2> SUFFICES ASSUME Run(c, ExecutionIdle) PROVE ExecutionCallIsSound(executionCall[c])'
    OBVIOUS
  <2>1. executionCall'[c] = ExecutionIdle
    BY <1>a
  <2> QED BY <1>0, <2>1 DEF ExecutionCallIsSound
<1>1. CASE MarkLate(c)
  <2>1. /\ assignment' = [e \in Executors |-> IF e \in call.batch THEN Late(assignment[e]) ELSE assignment[e]]
        /\ noticeDue' = StillDue(assignment') /\ Run(c, ExecutionIdle) /\ call.pc = "mark"
        /\ UNCHANGED <<document, docTask, bus, issue, creation, noticed, ever, executed>>
    BY <1>1 DEF MarkLate
  <2>2. /\ assignment' \in [Executors -> AssignmentRow]
        /\ \A e \in Executors : assignment'[e].status \in {"overdue", assignment[e].status}
    <3>1. \A e \in Executors : Late(assignment[e]) \in AssignmentRow /\ Late(assignment[e]).status = "overdue"
      BY <1>0 DEF Late, EdmsExecutionTypeOK, AssignmentRow, AssignmentStatuses
    <3> QED BY <1>0, <2>1, <3>1 DEF EdmsExecutionTypeOK
  <2>3. noticeDue' \subseteq noticeDue /\ (noticeDue' # {} => AllComplete(assignment'))
    BY <2>1 DEF StillDue
  <2>4. EdmsExecutionTypeOK'
    BY <1>0, <1>b, <2>1, <2>2, <2>3 DEF EdmsExecutionTypeOK
  <2>5. EventFollows'
    BY <2>1, <2>2 DEF ExecutionInv, EventFollows
  <2>6. LastCompletionIsNoticed'
    BY <1>c, <2>1, <2>3, NoticeIsUnderWay
  <2> QED BY <1>d, <1>e, <2>1, <2>2, <2>3, <2>4, <2>5, <2>6 DEF ExecutionInv, AutoCompletionAfterAll
<1>2. CASE SaveAssignment(c)
  <2>1. /\ call.pc = "save" /\ call.who \in Executors /\ call.row \in AssignmentRow
        /\ call.then \in Notices \cup {"nothing"} /\ call.row.status \notin {"absent", "cancelled"}
        /\ call.then = "document" => issue.published
    BY <1>0, <1>2, ExecutionTypes DEF SaveAssignment, ExecutionCallIsSound
  <2>2. /\ assignment' = [assignment EXCEPT ![call.who] = call.row]
        /\ noticeDue' = StillDue(assignment')
             \cup (IF call.then # "nothing" /\ AllComplete(assignment') THEN {call.then} ELSE {})
        /\ Run(c, IF call.then = "nothing" THEN ExecutionIdle ELSE [pc |-> "check", then |-> call.then])
        /\ ever' = ever \cup {e \in Executors : assignment'[e].status = "completed"}
        /\ UNCHANGED <<document, docTask, bus, issue, creation, noticed, executed>>
    BY <1>2 DEF SaveAssignment
  <2>3. /\ assignment' \in [Executors -> AssignmentRow] /\ assignment'[call.who] = call.row
        /\ \A e \in Executors : e # call.who => assignment'[e] = assignment[e]
    BY <1>0, <2>1, <2>2 DEF EdmsExecutionTypeOK
  <2>4. executionCall'[c] = IF call.then = "nothing" THEN ExecutionIdle ELSE [pc |-> "check", then |-> call.then]
    <3>1. (IF call.then = "nothing" THEN ExecutionIdle ELSE [pc |-> "check", then |-> call.then]) \in ExecutionBusy \cup {ExecutionIdle}
      BY <2>1 DEF ExecutionBusy
    <3> QED BY <1>a, <2>2, <3>1
  <2>5. ExecutionCallIsSound(executionCall[c])'
    BY <1>0, <2>1, <2>2, <2>4 DEF ExecutionCallIsSound
  <2>6. noticeDue' \subseteq Notices /\ (noticeDue' # {} => AllComplete(assignment'))
    BY <1>0, <2>1, <2>2 DEF StillDue, EdmsExecutionTypeOK
  <2>7. EdmsExecutionTypeOK'
    BY <1>0, <1>b, <2>2, <2>3, <2>6 DEF EdmsExecutionTypeOK
  <2>8. EventFollows'
    BY <2>1, <2>2, <2>3 DEF ExecutionInv, EventFollows
  <2>9. LastCompletionIsNoticed'
    <3>1. \A k \in noticeDue' : k \in noticeDue \/ (executionCall'[c].pc = "check" /\ executionCall'[c].then = k)
      BY <2>2, <2>4 DEF StillDue
    <3> QED BY <1>c, <2>1, <3>1, NoticeIsUnderWay
  <2>10. AutoCompletionAfterAll' /\ \A e \in Executors : assignment'[e].status = "completed" => e \in ever'
    BY <2>2 DEF ExecutionInv, AutoCompletionAfterAll
  <2> QED BY <1>d, <2>5, <2>6, <2>7, <2>8, <2>9, <2>10 DEF ExecutionInv
<1>3. CASE CheckAssignments(c)
  <2> DEFINE given == IF AllComplete(assignment) /\ call.then = "event" THEN {"event"} ELSE {}
             next == IF AllComplete(assignment) /\ call.then = "document" THEN [pc |-> "complete"] ELSE ExecutionIdle
  <2>2. /\ noticed' = noticed \cup given /\ noticeDue' = noticeDue \ given /\ Run(c, next)
        /\ UNCHANGED <<document, assignment, docTask, bus, issue, creation, ever, executed>>
    BY <1>3 DEF CheckAssignments
  <2>3. executionCall'[c] = next
    <3>1. next \in ExecutionBusy \cup {ExecutionIdle}
      BY DEF ExecutionBusy
    <3> QED BY <1>a, <2>2, <3>1
  <2>4. call.pc = "check" /\ call.then \in Notices /\ (call.then = "document" => issue.published)
    BY <1>0, <1>3, ExecutionTypes DEF CheckAssignments, ExecutionCallIsSound
  <2>5. AllComplete(assignment) /\ call.then = "document" => \A e \in Executors : RoleOf[e] = "primary" => e \in ever
    BY <2>4 DEF ExecutionInv, EventFollows, AllComplete
  <2>6. ExecutionCallIsSound(executionCall[c])'
    BY <1>0, <2>2, <2>3, <2>5 DEF ExecutionCallIsSound
  <2>7. EdmsExecutionTypeOK'
    BY <1>0, <1>b, <2>2 DEF EdmsExecutionTypeOK, Notices
  <2>8. EventFollows'
    BY <2>2 DEF ExecutionInv, EventFollows
  <2>9. LastCompletionIsNoticed'
    <3>1. noticeDue' # {} => AllComplete(assignment)
      BY <2>2 DEF ExecutionInv
    <3>2. \A k \in noticeDue' : call.then # k \/ (executionCall'[c].pc = "complete" /\ k = "document")
      BY <2>2, <2>3, <2>4, <3>1 DEF Notices
    <3> QED BY <1>c, <2>2, <2>4, <3>2, NoticeIsUnderWay
  <2>10. AutoCompletionAfterAll'
    BY <2>2 DEF ExecutionInv, AutoCompletionAfterAll
  <2> QED BY <1>d, <2>2, <2>6, <2>7, <2>8, <2>9, <2>10 DEF ExecutionInv
<1>4. CASE CompleteDocument(c)
  <2>1. /\ call.pc = "complete" /\ document' = "completed" /\ noticed' = noticed \cup {"document"}
        /\ noticeDue' = noticeDue \ {"document"} /\ Run(c, ExecutionIdle)
        /\ UNCHANGED <<assignment, docTask, bus, issue, creation, ever, executed>>
    BY <1>4 DEF CompleteDocument
  <2>2. EdmsExecutionTypeOK'
    BY <1>0, <1>b, <2>1 DEF EdmsExecutionTypeOK, Notices, DocumentStatuses
  <2>3. EventFollows'
    BY <2>1 DEF ExecutionInv, EventFollows
  <2>4. AutoCompletionAfterAll'
    BY <1>0, <2>1 DEF ExecutionInv, AutoCompletionAfterAll, ExecutionCallIsSound
  <2>5. LastCompletionIsNoticed'
    BY <1>c, <2>1, NoticeIsUnderWay
  <2> QED BY <1>d, <1>e, <2>1, <2>2, <2>3, <2>4, <2>5 DEF ExecutionInv
<1>5. CASE StoreLink(c)
  <2>1. call.pc = "link" /\ call.who \in Executors /\ call.task \in ExecutionTasks
    BY <1>5, ExecutionTypes DEF StoreLink
  <2> DEFINE row == [assignment[call.who] EXCEPT !.link = call.task]
  <2>2. row \in AssignmentRow /\ row.status = assignment[call.who].status
    BY <1>0, <2>1 DEF EdmsExecutionTypeOK, AssignmentRow
  <2>3. /\ assignment' = [assignment EXCEPT ![call.who] = row] /\ Run(c, ExecutionIdle)
        /\ UNCHANGED <<document, docTask, bus, issue, creation, noticeDue, noticed, ever, executed>>
    BY <1>5 DEF StoreLink
  <2> HIDE DEF row
  <2>4. /\ assignment' \in [Executors -> AssignmentRow]
        /\ \A e \in Executors : assignment'[e].status = assignment[e].status
    BY <1>0, <2>1, <2>2, <2>3 DEF EdmsExecutionTypeOK
  <2>5. EdmsExecutionTypeOK'
    BY <1>0, <1>b, <2>3, <2>4 DEF EdmsExecutionTypeOK
  <2>6. EventFollows'
    BY <2>3, <2>4 DEF ExecutionInv, EventFollows
  <2>7. LastCompletionIsNoticed'
    BY <1>c, <2>1, <2>3, NoticeIsUnderWay
  <2>8. AllComplete(assignment') = AllComplete(assignment)
    BY <2>4, SameStatus
  <2> QED BY <1>d, <1>e, <2>3, <2>4, <2>5, <2>6, <2>7, <2>8 DEF ExecutionInv, AutoCompletionAfterAll
<1>6. CASE AbortExecution(c)
  <2>1. /\ noticeDue' \subseteq noticeDue /\ Run(c, ExecutionIdle)
        /\ UNCHANGED <<document, assignment, docTask, bus, issue, creation, noticed, ever, executed>>
        /\ call.pc = "check" => call.then \notin noticeDue'
        /\ call.pc = "complete" => "document" \notin noticeDue'
    BY <1>6 DEF AbortExecution
  <2>2. EdmsExecutionTypeOK'
    BY <1>0, <1>b, <2>1 DEF EdmsExecutionTypeOK
  <2>3. EventFollows'
    BY <2>1 DEF ExecutionInv, EventFollows
  <2>4. LastCompletionIsNoticed'
    BY <1>c, <2>1, NoticeIsUnderWay
  <2> QED BY <1>d, <1>e, <2>1, <2>2, <2>3, <2>4 DEF ExecutionInv, AutoCompletionAfterAll
<1> QED BY <1>1, <1>2, <1>3, <1>4, <1>5, <1>6

\* Every step of the specification keeps the inductive invariant.
LEMMA ExecutionNextInv == ExecutionInv /\ [EdmsExecutionNext]_executionVars => ExecutionInv'
<1> SUFFICES ASSUME ExecutionInv, [EdmsExecutionNext]_executionVars PROVE ExecutionInv'
  OBVIOUS
<1>1. CASE UNCHANGED executionVars
  BY <1>1 DEF executionVars, ExecutionInv, EdmsExecutionTypeOK, EventFollows, ExecutionCallIsSound,
     AutoCompletionAfterAll, LastCompletionIsNoticed
<1>2. CASE EdmsExecutionNext
  BY <1>2, IssueKeeps, ExecutionStartsKeep, ExecutionStepsKeep DEF EdmsExecutionNext
<1> QED BY <1>1, <1>2

\* For any set of executors, tasks and calls, the types are kept, the completion of
\* the last assignment is noticed by the call that made it or by one still under way,
\* and no resolution completes by itself before all its assignments are
\* (resolution.service.ts:687-745).
THEOREM CompletionIsNoticed ==
  EdmsExecutionSpec => [](EdmsExecutionTypeOK /\ LastCompletionIsNoticed /\ AutoCompletionAfterAll)
<1>1. ExecutionInv => EdmsExecutionTypeOK /\ LastCompletionIsNoticed /\ AutoCompletionAfterAll
  BY DEF ExecutionInv
<1> QED BY <1>1, ExecutionInitInv, ExecutionNextInv, PTL DEF EdmsExecutionSpec

-----------------------------------------------------------------------------
\* Deadlines of the assignments.
\* Deadline d was given to h with the assignment, or granted to h later.
Given(h, d) ==
  \/ d = origin[h]
  \/ d > origin[h] /\ \E rq \in granted : extensions[rq].who = h /\ extensions[rq].to = d

\* What a call holds was there when it loaded it: the deadline it writes back was
\* given or granted, and what it asks for is later than what was given.
TermCallIsSound(r) ==
  /\ r.pc \in {"seek", "file"} => term[r.who].state # "absent" /\ r.to > origin[r.who]
  /\ r.pc = "decide" => extensions[r.request].status # "absent" /\ r.row.state # "absent"
  /\ r.pc = "store" => term[r.who].state # "absent" /\ r.row.state # "absent" /\ Given(r.who, r.row.deadline)

\* The inductive invariant.
TermsInv ==
  /\ ExecutionTermsTypeOK
  /\ \A h \in Holders : Given(h, term[h].deadline)
  /\ \A rq \in Extensions : extensions[rq].status # "absent" =>
       term[extensions[rq].who].state # "absent" /\ extensions[rq].to > origin[extensions[rq].who]
  /\ \A rq \in granted : extensions[rq].status # "absent"
  /\ \A c \in TermCalls : TermCallIsSound(termCall[c])

\* It holds at the start.
LEMMA TermsInitInv == ExecutionTermsInit => TermsInv
<1> SUFFICES ASSUME ExecutionTermsInit PROVE TermsInv
  OBVIOUS
<1> USE TermAssumption DEF ExecutionTermsInit, Holders
<1>1. PICK d \in 0..MaxTerm : term = [h \in Holders |->
         IF h = "primary" THEN [state |-> "open", deadline |-> d] ELSE [state |-> "absent", deadline |-> 0]]
  OBVIOUS
<1>2. \A h \in Holders : term[h] \in Terms
  BY <1>1 DEF Terms
<1>3. \A h \in Holders : term[h].deadline \in 0..MaxTerm
  BY <1>2 DEF Terms
<1>4. ExecutionTermsTypeOK
  BY <1>1, <1>2, <1>3 DEF ExecutionTermsTypeOK, ExtensionRequests
<1> QED BY <1>4 DEF TermsInv, Given, TermCallIsSound, TermIdle

\* A step of call c that only adds deadlines that were granted.
OnlyGrants(c) ==
  /\ UNCHANGED origin
  /\ \A h \in Holders : term[h].state # "absent" => term'[h].state # "absent"
  /\ \A rq \in Extensions : extensions[rq].status # "absent" =>
       extensions'[rq].status # "absent" /\ extensions'[rq].who = extensions[rq].who /\ extensions'[rq].to = extensions[rq].to
  /\ granted \subseteq granted'
  /\ \A d \in TermCalls : d # c => termCall'[d] = termCall[d]

\* What was given or granted stays so.
LEMMA GivenStays ==
  ASSUME TermsInv, NEW c \in TermCalls, OnlyGrants(c), NEW h, NEW d, Given(h, d)
  PROVE  Given(h, d)'
BY DEF TermsInv, OnlyGrants, Given, ExecutionTermsTypeOK

\* The types of the tables and of a call.
LEMMA TermTypes ==
  ASSUME TermsInv, NEW c \in TermCalls
  PROVE  /\ term \in [Holders -> Terms] /\ extensions \in [Extensions -> ExtensionRequests]
         /\ origin \in [Holders -> 0..MaxTerm] /\ termCall \in [TermCalls -> TermBusy \cup {TermIdle}]
         /\ termCall[c].pc \in {"seek", "file"} =>
              /\ termCall[c].who \in Holders /\ termCall[c].from \in 0..MaxTerm /\ termCall[c].to \in 0..MaxTerm
         /\ termCall[c].pc = "decide" =>
              /\ termCall[c].request \in Extensions /\ termCall[c].row \in Terms
              /\ termCall[c].verdict \in {"approved", "denied"}
         /\ termCall[c].pc = "store" => termCall[c].who \in Holders /\ termCall[c].row \in Terms
         /\ termCall[c].pc = "insert" => termCall[c].deadline \in 0..MaxTerm
BY DEF TermsInv, ExecutionTermsTypeOK, TermBusy, TermIdle

\* The other calls stay sound.
LEMMA OtherTermCalls ==
  ASSUME TermsInv, NEW c \in TermCalls, OnlyGrants(c), NEW d \in TermCalls, d # c
  PROVE  TermCallIsSound(termCall[d])'
<1>1. termCall'[d] = termCall[d] /\ TermCallIsSound(termCall[d])
  BY DEF OnlyGrants, TermsInv
<1>2. CASE termCall[d].pc \in {"seek", "file"}
  BY <1>1, <1>2, TermTypes DEF TermCallIsSound, OnlyGrants
<1>3. CASE termCall[d].pc = "decide"
  BY <1>1, <1>3, TermTypes DEF TermCallIsSound, OnlyGrants
<1>4. CASE termCall[d].pc = "store"
  <2>1. Given(termCall[d].who, termCall[d].row.deadline)'
    BY <1>1, <1>4, GivenStays DEF TermCallIsSound, Given
  <2>2. termCall[d].who \in Holders
    BY <1>4, TermTypes
  <2> QED BY <1>1, <1>4, <2>1, <2>2 DEF TermCallIsSound, OnlyGrants, Given
<1>5. CASE termCall[d].pc \notin {"seek", "file", "decide", "store"}
  BY <1>1, <1>5 DEF TermCallIsSound
<1> QED BY <1>2, <1>3, <1>4, <1>5

\* A step that changes nothing but the call.
LEMMA OneTermCall ==
  ASSUME TermsInv, NEW c \in TermCalls, NEW r \in TermBusy \cup {TermIdle}, TermGo(c, r), TermCallIsSound(r),
         UNCHANGED <<term, extensions, origin, granted>>, termCalls' \in 0..MaxTermCalls
  PROVE  TermsInv'
<1>1. termCall \in [TermCalls -> TermBusy \cup {TermIdle}]
  BY TermTypes
<1>2. /\ termCall' \in [TermCalls -> TermBusy \cup {TermIdle}] /\ termCall'[c] = r
      /\ \A d \in TermCalls : d # c => termCall'[d] = termCall[d]
  BY <1>1 DEF TermGo
<1>3. OnlyGrants(c)
  BY <1>2 DEF OnlyGrants
<1>4. \A d \in TermCalls : d # c => TermCallIsSound(termCall[d])'
  BY <1>3, OtherTermCalls
<1>5. TermCallIsSound(termCall[c])'
  BY <1>2 DEF TermCallIsSound, Given
<1>6. ExecutionTermsTypeOK'
  BY <1>2 DEF TermsInv, ExecutionTermsTypeOK
<1> QED BY <1>4, <1>5, <1>6 DEF TermsInv, Given

\* The calls that start keep the invariant,
LEMMA TermStartsKeep ==
  ASSUME TermsInv, NEW c \in TermCalls,
         \/ \E h \in Holders, to \in 1..MaxTerm : RequestDeadlineExtension(c, h, to)
         \/ \E rq \in Extensions, verdict \in {"approved", "denied"} : ReviewDeadlineExtension(c, rq, verdict)
         \/ \E h \in Holders, state \in {"open", "finished"} : WorkOnTerm(c, h, state)
         \/ \E given \in 0..MaxTerm : CreateSubAssignment(c, given)
  PROVE  TermsInv'
<1> USE TermAssumption
<1>0. /\ term \in [Holders -> Terms] /\ extensions \in [Extensions -> ExtensionRequests]
      /\ origin \in [Holders -> 0..MaxTerm] /\ termCalls \in 0..MaxTermCalls
      /\ \A h \in Holders : term[h].deadline \in 0..MaxTerm /\ term[h].state \in {"absent", "open", "finished"}
      /\ \A h \in Holders : term[h].deadline >= origin[h]
  <2>1. /\ term \in [Holders -> Terms] /\ extensions \in [Extensions -> ExtensionRequests]
        /\ origin \in [Holders -> 0..MaxTerm] /\ termCalls \in 0..MaxTermCalls
    BY DEF TermsInv, ExecutionTermsTypeOK
  <2>2. \A h \in Holders : term[h].deadline \in 0..MaxTerm /\ term[h].state \in {"absent", "open", "finished"}
    BY <2>1 DEF Terms
  <2>3. \A h \in Holders : origin[h] \in Nat /\ term[h].deadline \in Nat /\ Given(h, term[h].deadline)
    BY <2>1, <2>2 DEF TermsInv
  <2>4. \A h \in Holders : term[h].deadline >= origin[h]
    BY <2>3 DEF Given
  <2> QED BY <2>1, <2>2, <2>4
<1>a. ASSUME NEW r \in TermBusy, StartTermCall(c, r), TermCallIsSound(r) PROVE TermsInv'
  BY <1>0, <1>a, OneTermCall DEF StartTermCall
<1>1. ASSUME NEW h \in Holders, NEW to \in 1..MaxTerm, RequestDeadlineExtension(c, h, to) PROVE TermsInv'
  <2> DEFINE r == [pc |-> "seek", who |-> h, from |-> term[h].deadline, to |-> to]
  <2>1. r \in TermBusy
    BY <1>0 DEF TermBusy
  <2>2. TermCallIsSound(r)
    BY <1>0, <1>1 DEF TermCallIsSound, RequestDeadlineExtension
  <2> QED BY <1>1, <1>a, <2>1, <2>2 DEF RequestDeadlineExtension
<1>2. ASSUME NEW rq \in Extensions, NEW verdict \in {"approved", "denied"}, ReviewDeadlineExtension(c, rq, verdict)
      PROVE  TermsInv'
  <2> DEFINE r == [pc |-> "decide", request |-> rq, verdict |-> verdict, row |-> term[extensions[rq].who]]
  <2>1. extensions[rq].who \in Holders
    BY <1>0 DEF ExtensionRequests
  <2>2. r \in TermBusy
    BY <1>0, <2>1 DEF TermBusy
  <2>3. TermCallIsSound(r)
    BY <1>2 DEF TermCallIsSound, ReviewDeadlineExtension, TermsInv
  <2> QED BY <1>2, <1>a, <2>2, <2>3 DEF ReviewDeadlineExtension
<1>3. ASSUME NEW h \in Holders, NEW state \in {"open", "finished"}, WorkOnTerm(c, h, state) PROVE TermsInv'
  <2> DEFINE row == [term[h] EXCEPT !.state = state]
             r == [pc |-> "store", who |-> h, row |-> row]
  <2>1. row \in Terms /\ row.deadline = term[h].deadline /\ row.state = state
    BY <1>0 DEF Terms
  <2> HIDE DEF row
  <2>2. r \in TermBusy
    BY <2>1 DEF TermBusy
  <2>3. TermCallIsSound(r)
    BY <1>3, <2>1 DEF TermCallIsSound, WorkOnTerm, TermsInv
  <2>4. StartTermCall(c, r)
    BY <1>3 DEF WorkOnTerm, row
  <2> QED BY <1>a, <2>2, <2>3, <2>4
<1>4. ASSUME NEW given \in 0..MaxTerm, CreateSubAssignment(c, given) PROVE TermsInv'
  <2> DEFINE d == IF given = 0 THEN term["primary"].deadline ELSE given
             r == [pc |-> "insert", deadline |-> d]
  <2>1. d \in 0..MaxTerm
    BY <1>0 DEF Holders
  <2>2. StartTermCall(c, r)
    BY <1>4 DEF CreateSubAssignment
  <2> HIDE DEF d
  <2>3. r \in TermBusy /\ TermCallIsSound(r)
    BY <2>1 DEF TermBusy, TermCallIsSound
  <2> QED BY <1>a, <2>2, <2>3
<1> QED BY <1>1, <1>2, <1>3, <1>4

\* and the steps they take.
LEMMA TermStepsKeep ==
  ASSUME TermsInv, NEW c \in TermCalls,
         \/ SeekPendingExtension(c) \/ \E rq \in Extensions : StoreExtension(c, rq)
         \/ StoreExtensionDecision(c) \/ StoreTerm(c) \/ InsertSubAssignment(c) \/ AbortTermCall(c)
  PROVE  TermsInv'
<1> USE TermAssumption
<1> DEFINE call == termCall[c]
<1>0. /\ term \in [Holders -> Terms] /\ extensions \in [Extensions -> ExtensionRequests]
      /\ origin \in [Holders -> 0..MaxTerm] /\ termCall \in [TermCalls -> TermBusy \cup {TermIdle}]
      /\ call.pc \in {"seek", "file"} => call.who \in Holders /\ call.from \in 0..MaxTerm /\ call.to \in 0..MaxTerm
      /\ call.pc = "decide" =>
           call.request \in Extensions /\ call.row \in Terms /\ call.verdict \in {"approved", "denied"}
      /\ call.pc = "store" => call.who \in Holders /\ call.row \in Terms
      /\ call.pc = "insert" => call.deadline \in 0..MaxTerm
  BY TermTypes
<1>a. termCalls \in 0..MaxTermCalls /\ granted \subseteq Extensions /\ TermCallIsSound(call)
  BY DEF TermsInv, ExecutionTermsTypeOK
<1>b. TermIdle \in TermBusy \cup {TermIdle} /\ TermCallIsSound(TermIdle)
  BY DEF TermCallIsSound, TermIdle
<1>1. CASE SeekPendingExtension(c)
  <2>1. CASE TermGo(c, TermIdle)
    BY <1>1, <1>a, <1>b, <2>1, OneTermCall DEF SeekPendingExtension
  <2>2. CASE TermGo(c, [call EXCEPT !.pc = "file"])
    <3>1. call \in TermBusy /\ call.pc = "seek"
      BY <1>0, <1>1 DEF SeekPendingExtension, TermIdle
    <3> DEFINE r == [call EXCEPT !.pc = "file"]
    <3>2. /\ call \in [pc: {"seek", "file"}, who: Holders, from: 0..MaxTerm, to: 0..MaxTerm]
      BY <3>1 DEF TermBusy
    <3>3. r \in [pc: {"seek", "file"}, who: Holders, from: 0..MaxTerm, to: 0..MaxTerm] /\ r.pc = "file" /\ r.who = call.who /\ r.to = call.to
      BY <3>2
    <3> HIDE DEF r
    <3>4. r \in TermBusy /\ TermCallIsSound(r)
      BY <1>a, <3>1, <3>3 DEF TermBusy, TermCallIsSound
    <3>5. TermGo(c, r)
      BY <2>2 DEF r
    <3> QED BY <1>1, <1>a, <3>4, <3>5, OneTermCall DEF SeekPendingExtension
  <2> QED BY <1>1, <2>1, <2>2 DEF SeekPendingExtension
<1>2. CASE AbortTermCall(c)
  BY <1>2, <1>a, <1>b, OneTermCall DEF AbortTermCall
<1>3. ASSUME NEW rq \in Extensions, StoreExtension(c, rq) PROVE TermsInv'
  <2> DEFINE new == [status |-> "pending", who |-> call.who, from |-> call.from, to |-> call.to]
  <2>1. new \in ExtensionRequests /\ call.pc = "file" /\ call.who \in Holders
    BY <1>0, <1>3 DEF ExtensionRequests, StoreExtension
  <2>2. /\ extensions' = [extensions EXCEPT ![rq] = new] /\ termCall' = [termCall EXCEPT ![c] = TermIdle]
        /\ UNCHANGED <<term, termCalls, origin, granted>> /\ extensions[rq].status = "absent"
        /\ new.status = "pending" /\ new.who = call.who /\ new.to = call.to
    BY <1>3 DEF StoreExtension, TermGo
  <2> HIDE DEF new
  <2>3. /\ extensions' \in [Extensions -> ExtensionRequests] /\ extensions'[rq] = new
        /\ \A ry \in Extensions : ry # rq => extensions'[ry] = extensions[ry]
    BY <1>0, <2>1, <2>2
  <2>4. OnlyGrants(c)
    BY <1>0, <2>2, <2>3 DEF OnlyGrants
  <2>5. \A d \in TermCalls : TermCallIsSound(termCall[d])'
    <3>1. TermCallIsSound(termCall[c])'
      BY <1>0, <2>2 DEF TermCallIsSound, TermIdle
    <3> QED BY <2>4, <3>1, OtherTermCalls
  <2>6. ExecutionTermsTypeOK'
    BY <1>0, <2>2, <2>3 DEF TermsInv, ExecutionTermsTypeOK
  <2>7. \A h \in Holders : Given(h, term[h].deadline)'
    <3>1. \A h \in Holders : Given(h, term[h].deadline)
      BY DEF TermsInv
    <3> QED BY <2>2, <2>4, <3>1, GivenStays DEF Given
  <2>8. term[call.who].state # "absent" /\ call.to > origin[call.who]
    BY <1>a, <2>1 DEF TermCallIsSound
  <2> QED BY <1>a, <2>1, <2>2, <2>3, <2>5, <2>6, <2>7, <2>8 DEF TermsInv
<1>4. CASE StoreExtensionDecision(c)
  <2> DEFINE rq == call.request
             new == [extensions[rq] EXCEPT !.status = call.verdict]
  <2>1. /\ call.pc = "decide" /\ rq \in Extensions /\ call.row \in Terms /\ call.verdict \in {"approved", "denied"}
        /\ extensions[rq].status # "absent" /\ call.row.state # "absent"
    BY <1>0, <1>4, <1>a DEF StoreExtensionDecision, TermCallIsSound
  <2>2. /\ new \in ExtensionRequests /\ new.status = call.verdict
        /\ new.who = extensions[rq].who /\ new.to = extensions[rq].to
        /\ new.who \in Holders /\ new.to \in 0..MaxTerm
    BY <1>0, <2>1 DEF ExtensionRequests
  <2>3. /\ extensions' = [extensions EXCEPT ![rq] = new] /\ UNCHANGED <<term, termCalls, origin>>
        /\ granted' = IF call.verdict = "approved" THEN granted \cup {rq} ELSE granted
        /\ TermGo(c, IF call.verdict = "approved" THEN Extended(c) ELSE TermIdle)
    BY <1>4 DEF StoreExtensionDecision
  <2> HIDE DEF new
  <2>4. /\ extensions' \in [Extensions -> ExtensionRequests] /\ extensions'[rq] = new
        /\ \A ry \in Extensions : ry # rq => extensions'[ry] = extensions[ry]
    BY <1>0, <2>1, <2>2, <2>3
  <2> DEFINE stored == [pc |-> "store", who |-> extensions[rq].who, row |-> [call.row EXCEPT !.deadline = extensions[rq].to]]
  <2>5. /\ stored \in TermBusy /\ stored.pc = "store" /\ stored.who = new.who
        /\ stored.row.state = call.row.state /\ stored.row.deadline = new.to /\ Extended(c) = stored
    <3>1. /\ [call.row EXCEPT !.deadline = extensions[rq].to] \in Terms
          /\ [call.row EXCEPT !.deadline = extensions[rq].to].state = call.row.state
          /\ [call.row EXCEPT !.deadline = extensions[rq].to].deadline = extensions[rq].to
      BY <2>1, <2>2 DEF Terms
    <3> QED BY <2>2, <3>1 DEF TermBusy, Extended
  <2> HIDE DEF stored
  <2>6. /\ \A d \in TermCalls : d # c => termCall'[d] = termCall[d]
        /\ termCall'[c] = IF call.verdict = "approved" THEN stored ELSE TermIdle
        /\ termCall' \in [TermCalls -> TermBusy \cup {TermIdle}]
    BY <1>0, <2>3, <2>5 DEF TermGo
  <2>7. OnlyGrants(c)
    BY <2>1, <2>2, <2>3, <2>4, <2>6 DEF OnlyGrants
  <2>8. TermCallIsSound(termCall[c])'
    <3>1. term[new.who].state # "absent" /\ new.to > origin[new.who]
      BY <2>1, <2>2 DEF TermsInv
    <3>2. CASE call.verdict = "approved"
      <4>1. /\ termCall'[c] = stored /\ term'[new.who].state # "absent" /\ stored.row.state # "absent"
            /\ rq \in granted' /\ rq \in Extensions /\ extensions'[rq].who = new.who /\ extensions'[rq].to = new.to
            /\ new.to > origin'[new.who]
        BY <2>1, <2>3, <2>4, <2>5, <2>6, <3>1, <3>2
      <4>2. stored.row.deadline > origin'[stored.who] /\ \E ry \in granted' : extensions'[ry].who = stored.who /\ extensions'[ry].to = stored.row.deadline
        BY <2>5, <4>1
      <4> QED BY <2>5, <4>1, <4>2 DEF TermCallIsSound, Given
    <3>3. CASE call.verdict # "approved"
      BY <2>6, <3>3 DEF TermCallIsSound, TermIdle
    <3> QED BY <3>2, <3>3
  <2>9. \A d \in TermCalls : TermCallIsSound(termCall[d])'
    BY <2>7, <2>8, OtherTermCalls
  <2>10. ExecutionTermsTypeOK'
    BY <1>a, <2>1, <2>3, <2>4, <2>6 DEF TermsInv, ExecutionTermsTypeOK
  <2>11. \A h \in Holders : Given(h, term[h].deadline)'
    <3>1. \A h \in Holders : Given(h, term[h].deadline)
      BY DEF TermsInv
    <3> QED BY <2>3, <2>7, <3>1, GivenStays DEF Given
  <2>12. \A ry \in Extensions : extensions'[ry].status # "absent" =>
           term'[extensions'[ry].who].state # "absent" /\ extensions'[ry].to > origin'[extensions'[ry].who]
    BY <2>1, <2>2, <2>3, <2>4 DEF TermsInv
  <2>13. \A ry \in granted' : extensions'[ry].status # "absent"
    BY <1>a, <2>1, <2>2, <2>3, <2>4 DEF TermsInv
  <2> QED BY <2>9, <2>10, <2>11, <2>12, <2>13 DEF TermsInv
<1>5. CASE StoreTerm(c)
  <2>1. /\ call.pc = "store" /\ call.who \in Holders /\ call.row \in Terms
        /\ call.row.state # "absent" /\ Given(call.who, call.row.deadline)
    BY <1>0, <1>5, <1>a DEF StoreTerm, TermCallIsSound
  <2>2. /\ term' = [term EXCEPT ![call.who] = call.row] /\ termCall' = [termCall EXCEPT ![c] = TermIdle]
        /\ UNCHANGED <<extensions, termCalls, origin, granted>>
    BY <1>5 DEF StoreTerm, TermGo
  <2>3. /\ term' \in [Holders -> Terms] /\ term'[call.who] = call.row
        /\ \A h \in Holders : h # call.who => term'[h] = term[h]
    BY <1>0, <2>1, <2>2
  <2>4. OnlyGrants(c)
    BY <1>0, <2>1, <2>2, <2>3 DEF OnlyGrants
  <2>5. \A d \in TermCalls : TermCallIsSound(termCall[d])'
    <3>1. TermCallIsSound(termCall[c])'
      BY <1>0, <2>2 DEF TermCallIsSound, TermIdle
    <3> QED BY <2>4, <3>1, OtherTermCalls
  <2>6. ExecutionTermsTypeOK'
    BY <1>0, <2>2, <2>3 DEF TermsInv, ExecutionTermsTypeOK
  <2>7. \A h \in Holders : Given(h, term[h].deadline)'
    BY <2>1, <2>2, <2>3 DEF TermsInv, Given
  <2>8. \A rq \in Extensions : extensions[rq].who \in Holders
    BY <1>0 DEF ExtensionRequests
  <2> QED BY <2>1, <2>2, <2>3, <2>5, <2>6, <2>7, <2>8 DEF TermsInv
<1>6. CASE InsertSubAssignment(c)
  <2> DEFINE new == [state |-> "open", deadline |-> call.deadline]
  <2>1. call.pc = "insert" /\ call.deadline \in 0..MaxTerm /\ new \in Terms /\ term["sub"].state = "absent"
        /\ new.state = "open" /\ new.deadline = call.deadline
    BY <1>0, <1>6 DEF InsertSubAssignment, Terms
  <2>2. /\ term' = [term EXCEPT !["sub"] = new] /\ termCall' = [termCall EXCEPT ![c] = TermIdle]
        /\ origin' = [origin EXCEPT !["sub"] = call.deadline] /\ UNCHANGED <<extensions, termCalls, granted>>
    BY <1>6 DEF InsertSubAssignment, TermGo
  <2> HIDE DEF new
  <2>3. /\ term' \in [Holders -> Terms] /\ term'["sub"] = new /\ origin'["sub"] = new.deadline
        /\ \A h \in Holders : h # "sub" => term'[h] = term[h] /\ origin'[h] = origin[h]
        /\ origin' \in [Holders -> 0..MaxTerm]
    BY <1>0, <2>1, <2>2 DEF Holders
  <2>4. ASSUME NEW d \in TermCalls PROVE TermCallIsSound(termCall[d])'
    <3>1. CASE d = c
      BY <1>0, <2>2, <3>1 DEF TermCallIsSound, TermIdle
    <3>2. CASE d # c
      <4>1. termCall'[d] = termCall[d] /\ TermCallIsSound(termCall[d])
        BY <1>0, <2>2, <3>2 DEF TermsInv
      <4>2. termCall[d].pc \in {"seek", "file", "store"} => termCall[d].who \in Holders /\ termCall[d].who # "sub"
        BY <2>1, <4>1, TermTypes DEF TermCallIsSound
      <4> QED BY <2>2, <2>3, <4>1, <4>2 DEF TermCallIsSound, Given
    <3> QED BY <3>1, <3>2
  <2>5. ExecutionTermsTypeOK'
    BY <1>0, <2>2, <2>3 DEF TermsInv, ExecutionTermsTypeOK
  <2>6. \A rq \in Extensions : extensions[rq].who \in Holders
    BY <1>0 DEF ExtensionRequests
  <2>7. \A h \in Holders : Given(h, term[h].deadline)'
    BY <2>2, <2>3 DEF TermsInv, Given
  <2>8. \A rq \in Extensions : extensions[rq].status # "absent" => extensions[rq].who # "sub"
    BY <2>1 DEF TermsInv
  <2> QED BY <2>2, <2>3, <2>4, <2>5, <2>6, <2>7, <2>8 DEF TermsInv
<1> QED BY <1>1, <1>2, <1>3, <1>4, <1>5, <1>6

\* Every step of the specification keeps the inductive invariant.
LEMMA TermsNextInv == TermsInv /\ [ExecutionTermsNext]_termVars => TermsInv'
<1> SUFFICES ASSUME TermsInv, [ExecutionTermsNext]_termVars PROVE TermsInv'
  OBVIOUS
<1>1. CASE UNCHANGED termVars
  BY <1>1 DEF termVars, TermsInv, ExecutionTermsTypeOK, Given, TermCallIsSound
<1>2. CASE ExecutionTermsNext
  BY <1>2, TermStartsKeep, TermStepsKeep DEF ExecutionTermsNext
<1> QED BY <1>1, <1>2

\* For any number of assignments, requests and calls, the types are kept and a
\* deadline is the one given with the assignment or one that was granted, although
\* reports and decisions write whole stale rows back (resolution.service.ts).
THEOREM DeadlinesAreGranted == ExecutionTermsSpec => [](ExecutionTermsTypeOK /\ DeadlinesWereGranted)
<1>1. TermsInv => ExecutionTermsTypeOK /\ DeadlinesWereGranted
  BY DEF TermsInv, DeadlinesWereGranted, Given
<1> QED BY <1>1, TermsInitInv, TermsNextInv, PTL DEF ExecutionTermsSpec

-----------------------------------------------------------------------------
\* The parts of the model as a whole: a step of it is a step of a part or leaves the
\* part's variables alone.
WorkSteps ==
  /\ [SubtasksNext]_subtaskVars /\ [TaskAssignmentsNext]_assignmentVars
  /\ [EdmsExecutionNext]_executionVars /\ [ExecutionTermsNext]_termVars

\* A step of the sum is a step of each part of the work, or leaves it alone.
LEMMA PeopleStepsAreWorkSteps == [MCNext]_allVars => WorkSteps
<1>1. CASE UNCHANGED allVars
  BY <1>1 DEF allVars, WorkSteps
<1>2. CASE MCNext
  BY <1>2 DEF MCNext, OthersWait, Only, WorkSteps
<1> QED BY <1>1, <1>2

\* The work of people is accounted for, whatever the constants: somebody answers for
\* a task, parents hear of their subtasks, the last completion is acted upon after all
\* the others, and deadlines are those given or granted.
THEOREM PeopleWorkIsAccounted == MCSpec => []WorkIsAccounted
<1> DEFINE Inv == SubtasksInv /\ AssignmentsInv /\ ExecutionInv /\ TermsInv
<1>1. MCInit => Inv
  BY SubtasksInitInv, AssignmentsInitInv, ExecutionInitInv, TermsInitInv DEF MCInit
<1>2. Inv /\ [MCNext]_allVars => Inv'
  BY PeopleStepsAreWorkSteps, SubtasksNextInv, AssignmentsNextInv, ExecutionNextInv, TermsNextInv DEF WorkSteps
<1>3. Inv => WorkIsAccounted
  <2>1. TermsInv => DeadlinesWereGranted
    BY DEF TermsInv, DeadlinesWereGranted, Given
  <2> QED BY <2>1, AccountableSuffices DEF SubtasksInv, ExecutionInv, WorkIsAccounted
<1> HIDE DEF Inv
<1> QED BY <1>1, <1>2, <1>3, PTL DEF MCSpec

-----------------------------------------------------------------------------
\* Sessions.
\* Tokens and ended families refer to tokens that have been inserted.
TokenRows ==
  /\ ended \subseteq 1..Len(token)
  /\ \A t \in 1..Len(token) : token[t].family <= Len(token) /\ token[t].parent <= Len(token)

\* What a call knows is still true when it acts on it: its copy of the row has
\* attempts left where it counts on that, the token it replaces is revoked, and
\* a family that was ended meanwhile is known as overtaken.
CallIsSound(c) ==
  sessionCall[c] # SessionIdle =>
    LET s == sessionCall[c]
    IN  /\ s.row.failedAttempts >= MaxFailedAttempts => s.row.status = "locked"
        /\ s.pc = "judge" => s.row.failedAttempts < MaxFailedAttempts
        /\ s.family <= Len(token) /\ s.parent <= Len(token)
        /\ s.pc \in {"unlock", "judge", "link"} => s.family = 0 /\ s.parent = 0
        /\ s.pc \in {"revoke", "burn"} => s.family # 0 /\ s.parent # 0
        /\ s.pc = "issue" /\ s.parent # 0 => token[s.parent].revoked
        /\ s.pc \in {"revoke", "issue"} /\ s.family \in ended => s.family \in overtaken

\* The inductive invariant.
SessionsInv ==
  /\ SessionsTypeOK
  /\ SessionsAreSafe
  /\ TokenRows
  /\ \A c \in SessionCalls : CallIsSound(c)

\* The rows of a token table that only has some more revoked.
MoreRevoked ==
  /\ token' \in Seq(RefreshToken) /\ Len(token') = Len(token)
  /\ \A t \in 1..Len(token) :
       /\ token'[t].family = token[t].family /\ token'[t].parent = token[t].parent
       /\ token[t].revoked => token'[t].revoked

\* It holds at the start.
LEMMA SessionsInitInv == SessionsInit => SessionsInv
<1> SUFFICES ASSUME SessionsInit PROVE SessionsInv
  OBVIOUS
<1> USE SessionsAssumption DEF SessionsInit
<1>1. SessionsTypeOK
  BY DEF SessionsTypeOK, CredentialRow
<1>2. SessionsAreSafe
  BY DEF SessionsAreSafe, ReplacedIsRevoked, EndedFamilyStaysEnded, SpentAttemptsLock
<1>3. TokenRows /\ \A c \in SessionCalls : CallIsSound(c)
  BY DEF TokenRows, CallIsSound
<1> QED BY <1>1, <1>2, <1>3 DEF SessionsInv

\* The types of a call that is under way.
LEMMA BusySession ==
  ASSUME SessionsTypeOK, NEW c \in SessionCalls, sessionCall[c] # SessionIdle
  PROVE  /\ sessionCall[c] \in SessionBusy /\ sessionCall[c].row \in CredentialRow
         /\ sessionCall[c].family \in 0..MaxTokens /\ sessionCall[c].parent \in 0..MaxTokens
         /\ sessionCall[c].pc \in {"unlock", "judge", "issue", "revoke", "burn", "link"}
         /\ Len(token) \in Nat /\ DOMAIN token = 1..Len(token)
BY DEF SessionsTypeOK, SessionBusy

\* A step that changes neither tokens nor endings is sound if its call is.
LEMMA OneCallMoves ==
  ASSUME SessionsInv, NEW c \in SessionCalls, SessionsTypeOK', SpentAttemptsLock', CallIsSound(c)',
         UNCHANGED <<token, ended, overtaken>>,
         \A d \in SessionCalls : d # c => sessionCall'[d] = sessionCall[d]
  PROVE  SessionsInv'
<1>1. TokenRows' /\ ReplacedIsRevoked' /\ EndedFamilyStaysEnded'
  BY DEF SessionsInv, TokenRows, SessionsAreSafe, ReplacedIsRevoked, EndedFamilyStaysEnded
<1>2. \A d \in SessionCalls : CallIsSound(d)'
  BY DEF SessionsInv, CallIsSound
<1> QED BY <1>1, <1>2 DEF SessionsInv, SessionsAreSafe

\* A call that starts has a fresh copy of the row.
LEMMA StartIsSound ==
  ASSUME SessionsInv, NEW c \in SessionCalls, NEW pc \in {"unlock", "judge", "issue", "revoke", "burn", "link"},
         NEW v \in BOOLEAN, NEW f \in 0..MaxTokens, NEW p \in 0..MaxTokens, SessionStart(c, pc, v, f, p),
         pc = "judge" => credential.status = "active",
         f <= Len(token) /\ p <= Len(token),
         pc \in {"unlock", "judge", "link"} => f = 0 /\ p = 0,
         pc \in {"revoke", "burn"} => f # 0 /\ p # 0,
         pc = "issue" => p = 0,
         pc \in {"revoke", "issue"} /\ f \in ended => f \in overtaken
  PROVE  SessionsInv'
<1> DEFINE new == [pc |-> pc, valid |-> v, row |-> credential, family |-> f, parent |-> p]
<1>1. new \in SessionBusy
  BY DEF SessionsInv, SessionsTypeOK, SessionBusy
<1>2. /\ sessionCall' = [sessionCall EXCEPT ![c] = new]
      /\ sessionCalls' = sessionCalls + 1 /\ sessionCalls < MaxSessionCalls
      /\ UNCHANGED <<ticks, credential, token, ended, overtaken>>
  BY DEF SessionStart
<1> HIDE DEF new
<1>3. SessionsTypeOK'
  BY <1>1, <1>2, SessionsAssumption DEF SessionsInv, SessionsTypeOK
<1>4. sessionCall'[c] = new
  BY <1>2 DEF SessionsInv, SessionsTypeOK
<1>5. CallIsSound(c)'
  <2>1. credential.failedAttempts \in Nat /\ MaxFailedAttempts \in Nat
    BY SessionsAssumption DEF SessionsInv, SessionsTypeOK, CredentialRow
  <2> QED BY <1>2, <1>4, <2>1 DEF new, CallIsSound, SessionsInv, SessionsAreSafe, SpentAttemptsLock
<1>6. SpentAttemptsLock'
  BY <1>2 DEF SessionsInv, SessionsAreSafe, SpentAttemptsLock
<1> QED BY <1>2, <1>3, <1>5, <1>6, OneCallMoves

\* The calls that start keep the invariant,
LEMMA StartsKeepSessions ==
  ASSUME SessionsInv, NEW c \in SessionCalls,
         \/ \E v \in BOOLEAN : Login(c, v)
         \/ IssueTokensForCredential(c)
         \/ \E t \in DOMAIN token : RefreshTokens(c, t)
         \/ SsoLogin(c)
  PROVE  SessionsInv'
<1>1. 0 \in 0..MaxTokens /\ Len(token) \in Nat /\ 0 <= Len(token)
  BY SessionsAssumption DEF SessionsInv, SessionsTypeOK
<1>2. 0 \notin ended
  BY DEF SessionsInv, SessionsTypeOK
<1>3. ASSUME NEW v \in BOOLEAN, Login(c, v) PROVE SessionsInv'
  BY <1>1, <1>3, StartIsSound DEF Login
<1>4. CASE IssueTokensForCredential(c)
  BY <1>1, <1>2, <1>4, StartIsSound DEF IssueTokensForCredential
<1>5. CASE SsoLogin(c)
  BY <1>1, <1>5, StartIsSound DEF SsoLogin
<1>6. ASSUME NEW t \in DOMAIN token, RefreshTokens(c, t) PROVE SessionsInv'
  <2>1. /\ t \in 1..Len(token) /\ Len(token) <= MaxTokens
        /\ token[t] \in RefreshToken
    BY <1>6 DEF SessionsInv, SessionsTypeOK
  <2>2. /\ token[t].family \in 1..MaxTokens /\ token[t].family <= Len(token)
        /\ t \in 0..MaxTokens /\ t # 0 /\ t <= Len(token)
    BY <2>1, SessionsAssumption DEF SessionsInv, TokenRows, RefreshToken
  <2>3. ~token[t].revoked /\ token[t].family \in ended => token[t].family \in overtaken
    BY <1>6 DEF SessionsInv, SessionsAreSafe, EndedFamilyStaysEnded
  <2>4. token[t].family \in 0..MaxTokens /\ token[t].family # 0
    BY <2>2
  <2>5. CASE token[t].revoked /\ SessionStart(c, "burn", TRUE, token[t].family, t)
    BY <2>2, <2>4, <2>5, StartIsSound
  <2>6. CASE ~token[t].revoked /\ SessionStart(c, "revoke", TRUE, token[t].family, t)
    BY <2>2, <2>3, <2>4, <2>6, StartIsSound
  <2> QED BY <1>6, <2>5, <2>6 DEF RefreshTokens
<1> QED BY <1>3, <1>4, <1>5, <1>6

\* The columns a call sets leave a row a row.
LEMMA RowIsKept ==
  ASSUME NEW r \in CredentialRow
  PROVE  /\ r.failedAttempts \in 0..MaxFailedAttempts
         /\ [r EXCEPT !.status = "active", !.failedAttempts = 0] \in CredentialRow
         /\ [r EXCEPT !.status = "active", !.failedAttempts = 0].failedAttempts = 0
<1>1. 0 \in 0..MaxFailedAttempts
  BY SessionsAssumption
<1> QED BY <1>1 DEF CredentialRow

\* A step of a call under way that keeps tokens and endings, and the account sound.
LEMMA JudgementKeepsSessions ==
  ASSUME SessionsInv, NEW c \in SessionCalls,
         Unlock(c) \/ RecordFailedAttempt(c) \/ PasswordAccepted(c) \/ SaveSsoProfile(c) \/ AbortSessionCall(c)
  PROVE  SessionsInv'
<1> USE SessionsAssumption
<1>0. SessionsTypeOK
  BY DEF SessionsInv
<1>1. sessionCall[c] # SessionIdle
  BY DEF Unlock, RecordFailedAttempt, PasswordAccepted, SaveSsoProfile, AbortSessionCall, SessionAt, SessionIdle
<1> DEFINE s == sessionCall[c]
<1>2. /\ s \in SessionBusy /\ s.row \in CredentialRow
      /\ s.row.failedAttempts >= MaxFailedAttempts => s.row.status = "locked"
      /\ s.pc = "judge" => s.row.failedAttempts < MaxFailedAttempts
      /\ s.family <= Len(token) /\ s.parent <= Len(token)
      /\ s.pc \in {"unlock", "judge", "link"} => s.family = 0 /\ s.parent = 0
  BY <1>0, <1>1, BusySession DEF SessionsInv, CallIsSound
<1>3. /\ UNCHANGED <<ticks, token, sessionCalls, ended, overtaken>>
      /\ \A d \in SessionCalls : d # c => sessionCall'[d] = sessionCall[d]
  BY <1>0 DEF Unlock, RecordFailedAttempt, PasswordAccepted, SaveSsoProfile, AbortSessionCall,
     SessionGo, SessionEnd, SessionsTypeOK
<1>4. credential \in CredentialRow /\ 0 \notin ended
  BY <1>0 DEF SessionsTypeOK
<1>5. /\ credential' \in CredentialRow
      /\ SpentAttemptsLock'
  <2>1. CASE Unlock(c)
    BY <2>1 DEF Unlock, CredentialRow, SpentAttemptsLock
  <2>2. CASE RecordFailedAttempt(c)
    <3> DEFINE count == s.row.failedAttempts + 1
    <3>1. /\ count \in 0..MaxFailedAttempts
          /\ ticks + LockoutTicks \in 0..(MaxTicks + LockoutTicks)
      <4>1. s.row.failedAttempts \in 0..MaxFailedAttempts /\ s.row.failedAttempts < MaxFailedAttempts
        BY <1>2, <2>2, RowIsKept DEF RecordFailedAttempt, SessionAt
      <4>2. ticks \in 0..MaxTicks
        BY <1>0 DEF SessionsTypeOK
      <4> QED BY <4>1, <4>2
    <3>2. credential' = IF count >= MaxFailedAttempts
                          THEN [status |-> "locked", failedAttempts |-> count, lockedUntil |-> ticks + LockoutTicks]
                          ELSE [credential EXCEPT !.failedAttempts = count]
      BY <2>2 DEF RecordFailedAttempt, LockoutDue
    <3> HIDE DEF count
    <3>3. CASE count >= MaxFailedAttempts
      BY <3>1, <3>2, <3>3 DEF CredentialRow, SpentAttemptsLock
    <3>4. CASE ~(count >= MaxFailedAttempts)
      BY <1>4, <3>1, <3>2, <3>4 DEF CredentialRow, SpentAttemptsLock
    <3> QED BY <3>3, <3>4
  <2>3. CASE PasswordAccepted(c)
    BY <1>4, <2>3 DEF PasswordAccepted, CredentialRow, SpentAttemptsLock
  <2>4. CASE SaveSsoProfile(c)
    BY <1>2, <2>4 DEF SaveSsoProfile, SpentAttemptsLock
  <2>5. CASE AbortSessionCall(c)
    BY <1>4, <2>5 DEF AbortSessionCall, SessionsInv, SessionsAreSafe, SpentAttemptsLock
  <2> QED BY <2>1, <2>2, <2>3, <2>4, <2>5
<1>6. /\ sessionCall' \in [SessionCalls -> SessionBusy \cup {SessionIdle}]
      /\ CallIsSound(c)'
  <2>1. CASE Unlock(c)
    <3>1. sessionCall'[c] = [s EXCEPT !.pc = "judge", !.row.status = "active", !.row.failedAttempts = 0]
      BY <1>0, <2>1 DEF Unlock, SessionsTypeOK
    <3> DEFINE row == [s.row EXCEPT !.status = "active", !.failedAttempts = 0]
    <3>a. row \in CredentialRow /\ row.failedAttempts = 0
      BY <1>2, RowIsKept
    <3>b. sessionCall'[c] = [s EXCEPT !.pc = "judge", !.row = row]
      BY <1>2, <3>1 DEF SessionBusy, CredentialRow
    <3>c. s.family = 0 /\ s.parent = 0
      BY <1>2, <2>1 DEF Unlock, SessionAt
    <3> HIDE DEF row
    <3>2. /\ sessionCall'[c] \in SessionBusy
          /\ sessionCall'[c].row.failedAttempts = 0 /\ sessionCall'[c].pc = "judge"
          /\ sessionCall'[c].family = 0 /\ sessionCall'[c].parent = 0
      BY <1>2, <3>a, <3>b, <3>c DEF SessionBusy
    <3>3. sessionCall' \in [SessionCalls -> SessionBusy \cup {SessionIdle}]
      BY <1>0, <1>3, <2>1, <3>2 DEF Unlock, SessionsTypeOK
    <3> QED BY <1>0, <1>3, <3>2, <3>3 DEF CallIsSound, SessionsTypeOK
  <2>2. CASE sessionCall' = [sessionCall EXCEPT ![c] = SessionIdle]
    BY <1>0, <2>2 DEF CallIsSound, SessionsTypeOK
  <2>3. CASE /\ sessionCall' = [sessionCall EXCEPT ![c].pc = "issue"]
             /\ s.pc \in {"judge", "link"}
    <3>1. sessionCall'[c] = [s EXCEPT !.pc = "issue"]
      BY <1>0, <2>3 DEF SessionsTypeOK
    <3>2. /\ sessionCall'[c] \in SessionBusy /\ sessionCall'[c].row = s.row
          /\ sessionCall'[c].pc = "issue"
          /\ sessionCall'[c].family = 0 /\ sessionCall'[c].parent = 0
      BY <1>2, <2>3, <3>1 DEF SessionBusy
    <3>3. sessionCall' \in [SessionCalls -> SessionBusy \cup {SessionIdle}]
      BY <1>0, <2>3, <3>2 DEF SessionsTypeOK
    <3> QED BY <1>0, <1>2, <1>3, <1>4, <3>2, <3>3 DEF CallIsSound, SessionsTypeOK
  <2> QED BY <2>1, <2>2, <2>3 DEF RecordFailedAttempt, PasswordAccepted, SaveSsoProfile, AbortSessionCall,
             SessionGo, SessionEnd, SessionAt
<1>7. SessionsTypeOK'
  BY <1>0, <1>3, <1>5, <1>6 DEF SessionsTypeOK
<1> QED BY <1>3, <1>5, <1>6, <1>7, OneCallMoves

\* A successor has a parent that is revoked, and belongs to no ended family but
\* an overtaken one.
LEMMA IssueKeepsSessions ==
  ASSUME SessionsInv, NEW c \in SessionCalls, IssueTokenPair(c)
  PROVE  SessionsInv'
<1> USE SessionsAssumption
<1>0. SessionsTypeOK /\ sessionCall[c] # SessionIdle
  BY DEF SessionsInv, IssueTokenPair, SessionAt, SessionIdle
<1> DEFINE s == sessionCall[c]
           n == Len(token) + 1
           row == [family |-> IF s.family = 0 THEN n ELSE s.family, parent |-> s.parent, revoked |-> FALSE]
<1>1. /\ s \in SessionBusy /\ s.pc = "issue" /\ s.family \in 0..MaxTokens /\ s.parent \in 0..MaxTokens
      /\ s.family <= Len(token) /\ s.parent <= Len(token)
      /\ s.parent # 0 => token[s.parent].revoked
      /\ s.family \in ended => s.family \in overtaken
  BY <1>0, BusySession DEF SessionsInv, CallIsSound, IssueTokenPair, SessionAt
<1>2. /\ token \in Seq(RefreshToken) /\ Len(token) \in Nat /\ Len(token) < MaxTokens /\ DOMAIN token = 1..Len(token)
      /\ n \in 1..MaxTokens
  BY <1>0 DEF SessionsTypeOK, IssueTokenPair
<1>3. row \in RefreshToken
  BY <1>1, <1>2 DEF RefreshToken
<1>4. /\ token' = Append(token, row)
      /\ sessionCall' = [sessionCall EXCEPT ![c] = SessionIdle]
      /\ UNCHANGED <<ticks, credential, sessionCalls, ended, overtaken>>
  BY DEF IssueTokenPair, SessionEnd
<1>5. /\ token' \in Seq(RefreshToken) /\ Len(token') = n /\ DOMAIN token' = 1..n
      /\ token'[n] = row /\ \A t \in 1..Len(token) : token'[t] = token[t]
      /\ \A t \in 1..n : t = n \/ t \in 1..Len(token)
  BY <1>2, <1>3, <1>4
<1>6. /\ row.revoked = FALSE /\ row.parent = s.parent
      /\ row.family = IF s.family = 0 THEN n ELSE s.family
  OBVIOUS
<1> HIDE DEF row
<1>7. SessionsTypeOK'
  BY <1>0, <1>2, <1>4, <1>5 DEF SessionsTypeOK
<1>8. TokenRows'
  <2>1. \A t \in 1..Len(token) : token[t] \in RefreshToken
    BY <1>2
  <2>2. ended' \subseteq 1..Len(token)'
    BY <1>2, <1>4, <1>5 DEF SessionsInv, TokenRows
  <2>3. row.family <= n /\ row.parent <= n
    BY <1>1, <1>2, <1>6
  <2>4. ASSUME NEW t \in 1..Len(token) PROVE token[t].family <= n /\ token[t].parent <= n
    <3>1. token[t].family <= Len(token) /\ token[t].parent <= Len(token)
      BY DEF SessionsInv, TokenRows
    <3>2. token[t].family \in Nat /\ token[t].parent \in Nat
      BY <2>1 DEF RefreshToken
    <3> QED BY <1>2, <3>1, <3>2
  <2> QED BY <1>5, <2>2, <2>3, <2>4 DEF TokenRows
<1>9. ReplacedIsRevoked'
  <2> SUFFICES ASSUME NEW t \in 1..n, token'[t].parent # 0 PROVE token'[token'[t].parent].revoked
    BY <1>5 DEF ReplacedIsRevoked
  <2>1. CASE t = n
    <3>1. s.parent # 0 /\ s.parent \in 1..Len(token)
      BY <1>1, <1>2, <1>5, <1>6, <2>1
    <3> QED BY <1>1, <1>5, <1>6, <2>1, <3>1
  <2>2. CASE t \in 1..Len(token)
    <3>0. token[t] \in RefreshToken /\ token[t].parent <= Len(token) /\ token'[t] = token[t]
      BY <1>2, <1>5, <2>2 DEF SessionsInv, TokenRows
    <3>1. token[t].parent \in 1..Len(token) /\ token[token[t].parent].revoked
      <4>1. token[t].parent \in Nat
        BY <3>0 DEF RefreshToken
      <4>2. token[t].parent # 0
        BY <3>0
      <4> QED BY <1>2, <2>2, <3>0, <4>1, <4>2 DEF SessionsInv, SessionsAreSafe, ReplacedIsRevoked
    <3> QED BY <1>5, <2>2, <3>1
  <2> QED BY <1>5, <2>1, <2>2
<1>10. EndedFamilyStaysEnded'
  <2>1. n \notin ended
    BY <1>2 DEF SessionsInv, TokenRows
  <2> QED BY <1>1, <1>2, <1>4, <1>5, <1>6, <2>1 DEF SessionsInv, SessionsAreSafe, EndedFamilyStaysEnded
<1>11. SpentAttemptsLock'
  BY <1>4 DEF SessionsInv, SessionsAreSafe, SpentAttemptsLock
<1>12. ASSUME NEW d \in SessionCalls PROVE CallIsSound(d)'
  <2>1. CASE d = c
    BY <1>0, <1>4, <2>1 DEF CallIsSound, SessionsTypeOK
  <2>2. CASE d # c
    <3>1. sessionCall'[d] = sessionCall[d]
      BY <1>0, <1>4, <2>2 DEF SessionsTypeOK
    <3>2. sessionCall[d] # SessionIdle => sessionCall[d].family \in Nat /\ sessionCall[d].parent \in Nat
      BY <1>0, BusySession
    <3> QED BY <1>2, <1>4, <1>5, <3>1, <3>2 DEF SessionsInv, CallIsSound
  <2> QED BY <2>1, <2>2
<1> QED BY <1>7, <1>8, <1>9, <1>10, <1>11, <1>12 DEF SessionsInv, SessionsAreSafe

\* Revoking tokens, as long as what is ended in the step is revoked or overtaken,
\* keeps everything sound.
LEMMA RevokingKeepsSessions ==
  ASSUME SessionsInv, MoreRevoked, SessionsTypeOK', UNCHANGED credential,
         NEW F \in SUBSET (1..Len(token)), ended' = ended \cup F, overtaken \subseteq overtaken',
         \A t \in 1..Len(token) : token[t].family \in F => token'[t].revoked,
         \A d \in SessionCalls :
           sessionCall[d].pc \in {"revoke", "issue"} /\ sessionCall[d].family \in F => sessionCall[d].family \in overtaken',
         \A d \in SessionCalls :
           \/ sessionCall'[d] \in {sessionCall[d], SessionIdle}
           \/ /\ sessionCall[d].pc = "revoke" /\ sessionCall'[d] = [sessionCall[d] EXCEPT !.pc = "issue"]
              /\ token'[sessionCall[d].parent].revoked
  PROVE  SessionsInv'
<1>0. /\ SessionsTypeOK /\ Len(token) \in Nat
      /\ DOMAIN token = 1..Len(token) /\ DOMAIN token' = 1..Len(token) /\ Len(token') = Len(token)
      /\ \A t \in 1..Len(token) : token[t] \in RefreshToken
  BY DEF SessionsInv, SessionsTypeOK, MoreRevoked
<1>1. TokenRows'
  BY <1>0 DEF SessionsInv, TokenRows, MoreRevoked
<1>2. ReplacedIsRevoked'
  <2> SUFFICES ASSUME NEW t \in 1..Len(token), token'[t].parent # 0 PROVE token'[token'[t].parent].revoked
    BY <1>0 DEF ReplacedIsRevoked
  <2>1. token[t].parent \in 1..Len(token) /\ token[token[t].parent].revoked /\ token'[t].parent = token[t].parent
    <3>1. token'[t].parent = token[t].parent
      BY DEF MoreRevoked
    <3>2. token[t].parent \in Nat
      BY <1>0 DEF RefreshToken
    <3>3. token[t].parent # 0 /\ token[t].parent <= Len(token)
      BY <1>0, <3>1 DEF SessionsInv, TokenRows
    <3> QED BY <1>0, <3>1, <3>2, <3>3 DEF SessionsInv, SessionsAreSafe, ReplacedIsRevoked
  <2> QED BY <2>1 DEF MoreRevoked
<1>3. EndedFamilyStaysEnded'
  BY <1>0 DEF SessionsInv, SessionsAreSafe, EndedFamilyStaysEnded, MoreRevoked
<1>4. SpentAttemptsLock'
  BY DEF SessionsInv, SessionsAreSafe, SpentAttemptsLock
<1>5. ASSUME NEW d \in SessionCalls PROVE CallIsSound(d)'
  <2>1. CASE sessionCall'[d] = SessionIdle
    BY <2>1 DEF CallIsSound
  <2>2. CASE sessionCall'[d] # SessionIdle /\ sessionCall'[d] = sessionCall[d]
    <3>1. sessionCall[d].parent \in Nat /\ sessionCall[d].family \in Nat
      BY <1>0, <2>2, BusySession
    <3>2. sessionCall[d].pc = "issue" /\ sessionCall[d].parent # 0 => token'[sessionCall[d].parent].revoked
      BY <1>0, <2>2, <3>1 DEF SessionsInv, CallIsSound, MoreRevoked
    <3> QED BY <1>0, <2>2, <3>2 DEF SessionsInv, CallIsSound
  <2>3. CASE /\ sessionCall[d].pc = "revoke" /\ sessionCall'[d] = [sessionCall[d] EXCEPT !.pc = "issue"]
             /\ token'[sessionCall[d].parent].revoked
    <3>1. sessionCall[d] # SessionIdle
      BY <2>3 DEF SessionIdle
    <3>2. sessionCall[d] \in SessionBusy
      BY <1>0, <3>1, BusySession
    <3>3. /\ sessionCall'[d].pc = "issue" /\ sessionCall'[d].row = sessionCall[d].row
          /\ sessionCall'[d].family = sessionCall[d].family /\ sessionCall'[d].parent = sessionCall[d].parent
      BY <2>3, <3>2 DEF SessionBusy
    <3> QED BY <1>0, <2>3, <3>1, <3>3 DEF SessionsInv, CallIsSound
  <2> QED BY <2>1, <2>2, <2>3
<1> QED BY <1>1, <1>2, <1>3, <1>4, <1>5 DEF SessionsInv, SessionsAreSafe

\* What marking tokens as revoked does to the table.
LEMMA WhereRevoked ==
  ASSUME SessionsTypeOK, NEW F, RevokeWhere(F)
  PROVE  /\ MoreRevoked
         /\ \A t \in 1..Len(token) : token[t].family \in F => token'[t].revoked
<1>1. /\ Len(token) \in Nat /\ DOMAIN token = 1..Len(token)
      /\ \A t \in 1..Len(token) : token[t] \in RefreshToken
  BY DEF SessionsTypeOK
<1>2. \A t \in 1..Len(token) : token'[t] = [token[t] EXCEPT !.revoked = @ \/ token[t].family \in F]
  BY <1>1 DEF RevokeWhere
<1>3. ASSUME NEW t \in 1..Len(token)
      PROVE  /\ token'[t] \in RefreshToken
             /\ token'[t].family = token[t].family /\ token'[t].parent = token[t].parent
             /\ token'[t].revoked = (token[t].revoked \/ token[t].family \in F)
  BY <1>1, <1>2 DEF RefreshToken
<1>4. token' \in [1..Len(token) -> RefreshToken]
  BY <1>1, <1>3 DEF RevokeWhere
<1>5. token' \in Seq(RefreshToken) /\ Len(token') = Len(token)
  BY <1>1, <1>4, SeqDef
<1> QED BY <1>3, <1>5 DEF MoreRevoked

\* Revoking one token.
LEMMA OneRevoked ==
  ASSUME SessionsTypeOK, NEW k \in 1..Len(token), token' = [token EXCEPT ![k].revoked = TRUE]
  PROVE  MoreRevoked /\ token'[k].revoked
<1>1. /\ Len(token) \in Nat /\ DOMAIN token = 1..Len(token)
      /\ \A t \in 1..Len(token) : token[t] \in RefreshToken
  BY DEF SessionsTypeOK
<1>2. \A t \in 1..Len(token) : token'[t] = IF t = k THEN [token[t] EXCEPT !.revoked = TRUE] ELSE token[t]
  BY <1>1
<1>3. ASSUME NEW t \in 1..Len(token)
      PROVE  /\ token'[t] \in RefreshToken
             /\ token'[t].family = token[t].family /\ token'[t].parent = token[t].parent
             /\ token[t].revoked \/ t = k => token'[t].revoked
  BY <1>1, <1>2 DEF RefreshToken
<1>4. token' \in [1..Len(token) -> RefreshToken]
  BY <1>1, <1>3
<1>5. token' \in Seq(RefreshToken) /\ Len(token') = Len(token)
  BY <1>1, <1>4, SeqDef
<1> QED BY <1>3, <1>5 DEF MoreRevoked

\* Revoking the token that is replaced keeps the invariant,
LEMMA RevokeOldKeepsSessions ==
  ASSUME SessionsInv, NEW c \in SessionCalls, RevokeOld(c)
  PROVE  SessionsInv'
<1>0. SessionsTypeOK /\ sessionCall[c] # SessionIdle
  BY DEF SessionsInv, RevokeOld, SessionAt, SessionIdle
<1>1. /\ sessionCall[c] \in SessionBusy /\ sessionCall[c].pc = "revoke" /\ Len(token) \in Nat
      /\ sessionCall[c].parent \in 0..MaxTokens /\ sessionCall[c].parent # 0
      /\ sessionCall[c].parent <= Len(token)
  BY <1>0, BusySession DEF SessionsInv, CallIsSound, RevokeOld, SessionAt
<1>2. sessionCall[c].parent \in 1..Len(token)
  BY <1>1, SessionsAssumption
<1>3. MoreRevoked /\ token'[sessionCall[c].parent].revoked
  BY <1>0, <1>2, OneRevoked DEF RevokeOld
<1>4. /\ sessionCall' = [sessionCall EXCEPT ![c] = [sessionCall[c] EXCEPT !.pc = "issue"]]
      /\ UNCHANGED <<ticks, credential, sessionCalls, ended, overtaken>>
  BY DEF RevokeOld, SessionGo
<1>5. [sessionCall[c] EXCEPT !.pc = "issue"] \in SessionBusy
  BY <1>1 DEF SessionBusy
<1>6. SessionsTypeOK'
  BY <1>0, <1>3, <1>4, <1>5 DEF SessionsTypeOK, MoreRevoked
<1>7. \A d \in SessionCalls :
        \/ sessionCall'[d] \in {sessionCall[d], SessionIdle}
        \/ /\ sessionCall[d].pc = "revoke" /\ sessionCall'[d] = [sessionCall[d] EXCEPT !.pc = "issue"]
           /\ token'[sessionCall[d].parent].revoked
  BY <1>0, <1>1, <1>3, <1>4 DEF SessionsTypeOK
<1>8. /\ {} \in SUBSET (1..Len(token)) /\ ended' = ended \cup {} /\ overtaken \subseteq overtaken'
      /\ \A r \in 1..Len(token) : token[r].family \in {} => token'[r].revoked
      /\ \A d \in SessionCalls :
           sessionCall[d].pc \in {"revoke", "issue"} /\ sessionCall[d].family \in {} => sessionCall[d].family \in overtaken'
  BY <1>4
<1> QED BY <1>3, <1>4, <1>6, <1>7, <1>8, RevokingKeepsSessions

\* Ending families revokes all their tokens and notes who is overtaken.
LEMMA EndingKeepsSessions ==
  ASSUME SessionsInv, NEW F \in SUBSET (1..Len(token)), RevokeWhere(F), EndFamilies(F),
         UNCHANGED <<ticks, credential, sessionCalls>>,
         \/ UNCHANGED sessionCall
         \/ \E c \in SessionCalls : SessionEnd(c)
  PROVE  SessionsInv'
<1>0. SessionsTypeOK
  BY DEF SessionsInv
<1>1. MoreRevoked /\ \A t \in 1..Len(token) : token[t].family \in F => token'[t].revoked
  BY <1>0, WhereRevoked
<1>2. \A d \in SessionCalls : sessionCall'[d] \in {sessionCall[d], SessionIdle}
  BY <1>0 DEF SessionEnd, SessionsTypeOK
<1>3. sessionCall' \in [SessionCalls -> SessionBusy \cup {SessionIdle}]
  BY <1>0 DEF SessionEnd, SessionsTypeOK
<1>4. F \subseteq 1..MaxTokens
  BY <1>0, SessionsAssumption DEF SessionsTypeOK
<1>5. /\ ended' = ended \cup F /\ overtaken \subseteq overtaken' /\ overtaken' \subseteq ended'
      /\ \A d \in SessionCalls :
           sessionCall[d].pc \in {"revoke", "issue"} /\ sessionCall[d].family \in F => sessionCall[d].family \in overtaken'
  BY <1>0 DEF EndFamilies, SessionsTypeOK
<1>6. SessionsTypeOK'
  BY <1>0, <1>1, <1>3, <1>4, <1>5 DEF SessionsTypeOK, MoreRevoked
<1> QED BY <1>1, <1>2, <1>5, <1>6, RevokingKeepsSessions

\* the detection of a reuse and logging out everywhere,
LEMMA EndingsKeepSessions ==
  ASSUME SessionsInv, LogoutAll \/ \E c \in SessionCalls : RevokeFamilyTokens(c)
  PROVE  SessionsInv'
<1>0. /\ SessionsTypeOK /\ Len(token) \in Nat /\ DOMAIN token = 1..Len(token)
      /\ \A t \in 1..Len(token) : token[t] \in RefreshToken /\ token[t].family <= Len(token)
  BY DEF SessionsInv, SessionsTypeOK, TokenRows
<1>1. CASE LogoutAll
  <2> DEFINE F == {token[t].family : t \in DOMAIN token}
  <2>1. \A t \in 1..Len(token) : token[t].family \in Nat \ {0}
    BY <1>0 DEF RefreshToken
  <2>2. F \in SUBSET (1..Len(token))
    BY <1>0, <2>1
  <2>3. RevokeWhere(F) /\ EndFamilies(F) /\ UNCHANGED <<ticks, credential, sessionCall, sessionCalls>>
    BY <1>1 DEF LogoutAll
  <2> HIDE DEF F
  <2> QED BY <2>2, <2>3, EndingKeepsSessions
<1>2. ASSUME NEW c \in SessionCalls, RevokeFamilyTokens(c) PROVE SessionsInv'
  <2>1. sessionCall[c] # SessionIdle
    BY <1>2 DEF RevokeFamilyTokens, SessionAt, SessionIdle
  <2>2. /\ sessionCall[c].family \in 0..MaxTokens /\ sessionCall[c].family # 0
        /\ sessionCall[c].family <= Len(token)
    BY <1>0, <1>2, <2>1, BusySession DEF RevokeFamilyTokens, SessionAt, SessionsInv, CallIsSound
  <2>3. {sessionCall[c].family} \in SUBSET (1..Len(token))
    BY <1>0, <2>2
  <2> QED BY <1>2, <2>3, EndingKeepsSessions DEF RevokeFamilyTokens
<1> QED BY <1>1, <1>2

\* and logging out.
LEMMA LogoutKeepsSessions ==
  ASSUME SessionsInv, NEW t \in DOMAIN token, Logout(t)
  PROVE  SessionsInv'
<1>0. SessionsTypeOK /\ t \in 1..Len(token)
  BY DEF SessionsInv, SessionsTypeOK
<1>1. MoreRevoked
  BY <1>0, OneRevoked DEF Logout
<1>2. UNCHANGED <<ticks, credential, sessionCall, sessionCalls, ended, overtaken>>
  BY DEF Logout
<1>3. SessionsTypeOK'
  BY <1>0, <1>1, <1>2 DEF SessionsTypeOK, MoreRevoked
<1>8. /\ {} \in SUBSET (1..Len(token)) /\ ended' = ended \cup {} /\ overtaken \subseteq overtaken'
      /\ \A r \in 1..Len(token) : token[r].family \in {} => token'[r].revoked
      /\ \A d \in SessionCalls :
           sessionCall[d].pc \in {"revoke", "issue"} /\ sessionCall[d].family \in {} => sessionCall[d].family \in overtaken'
  BY <1>2
<1>9. \A d \in SessionCalls : sessionCall'[d] \in {sessionCall[d], SessionIdle}
  BY <1>2
<1> QED BY <1>1, <1>2, <1>3, <1>8, <1>9, RevokingKeepsSessions

\* Every step of the specification keeps the inductive invariant.
LEMMA SessionsNextInv == SessionsInv /\ [SessionsNext]_sessionVars => SessionsInv'
<1> SUFFICES ASSUME SessionsInv, [SessionsNext]_sessionVars PROVE SessionsInv'
  OBVIOUS
<1>1. CASE Tick
  <2>1. SessionsTypeOK'
    BY <1>1, SessionsAssumption DEF Tick, SessionsInv, SessionsTypeOK
  <2> QED BY <1>1, <2>1 DEF Tick, SessionsInv, SessionsAreSafe, ReplacedIsRevoked, EndedFamilyStaysEnded,
               SpentAttemptsLock, TokenRows, CallIsSound
<1>2. CASE UNCHANGED sessionVars
  BY <1>2 DEF sessionVars, SessionsInv, SessionsTypeOK, SessionsAreSafe, ReplacedIsRevoked, EndedFamilyStaysEnded,
              SpentAttemptsLock, TokenRows, CallIsSound
<1>3. CASE LogoutAll
  BY <1>3, EndingsKeepSessions
<1>4. ASSUME NEW t \in DOMAIN token, Logout(t) PROVE SessionsInv'
  BY <1>4, LogoutKeepsSessions
<1>5. ASSUME NEW c \in SessionCalls,
             \/ \E v \in BOOLEAN : Login(c, v)
             \/ IssueTokensForCredential(c)
             \/ \E t \in DOMAIN token : RefreshTokens(c, t)
             \/ SsoLogin(c)
      PROVE SessionsInv'
  BY <1>5, StartsKeepSessions
<1>6. ASSUME NEW c \in SessionCalls,
             Unlock(c) \/ RecordFailedAttempt(c) \/ PasswordAccepted(c) \/ SaveSsoProfile(c) \/ AbortSessionCall(c)
      PROVE SessionsInv'
  BY <1>6, JudgementKeepsSessions
<1>7. ASSUME NEW c \in SessionCalls, IssueTokenPair(c) PROVE SessionsInv'
  BY <1>7, IssueKeepsSessions
<1>8. ASSUME NEW c \in SessionCalls, RevokeOld(c) PROVE SessionsInv'
  BY <1>8, RevokeOldKeepsSessions
<1>9. ASSUME NEW c \in SessionCalls, RevokeFamilyTokens(c) PROVE SessionsInv'
  BY <1>9, EndingsKeepSessions
<1> QED BY <1>1, <1>2, <1>3, <1>4, <1>5, <1>6, <1>7, <1>8, <1>9 DEF SessionsNext

\* Neither a replaced or ended token nor a locked account lets anybody in,
\* whatever calls race and wherever they stop.
THEOREM TokensAndLocksHold == SessionsSpec => []SessionsAreSafe
<1>1. SessionsInv => SessionsAreSafe
  BY DEF SessionsInv
<1> QED BY <1>1, SessionsInitInv, SessionsNextInv, PTL DEF SessionsSpec

-----------------------------------------------------------------------------
\* Second factors.
\* A call under way has been counted; one that marks a backup code has loaded a row
\* that holds codes, one that compares a one-time password a row with a secret, and
\* the secret a set-up confirms is there to stay.
MfaInv ==
  /\ MfaTypeOK
  /\ EnabledHasBackupCodes
  /\ mfa.enabled => mfa.secret # 0
  /\ \A c \in MfaCalls : mfaCall[c] # MfaIdle =>
       /\ mfaCalls # 0
       /\ mfaCall[c].pc = "backup" => mfaCall[c].row.codes # 0
       /\ mfaCall[c].pc \in {"totp", "replay"} => mfaCall[c].row.secret # 0
       /\ mfaCall[c].pc = "confirm" => mfa.secret # 0

\* The columns the operations set leave a row a row.
LEMMA MfaSecretSet ==
  ASSUME NEW r \in MfaCredential, NEW n \in 0..MaxSecrets
  PROVE  LET q == [r EXCEPT !.secret = n, !.enabled = FALSE]
         IN  q \in MfaCredential /\ q.enabled = FALSE /\ q.secret = n
BY DEF MfaCredential

\* Switching the second factor on or off.
LEMMA MfaSwitched ==
  ASSUME NEW r \in MfaCredential, NEW e \in BOOLEAN, NEW k \in 0..MaxMfaCalls
  PROVE  LET q == [r EXCEPT !.enabled = e, !.codes = k, !.used = {}]
         IN  q \in MfaCredential /\ q.enabled = e /\ q.codes = k /\ q.secret = r.secret
BY DEF MfaCredential

\* It holds at the start.
LEMMA MfaInitInv == MfaInit => MfaInv
BY MfaAssumption DEF MfaInit, MfaInv, MfaTypeOK, MfaCredential, EnabledHasBackupCodes

\* A call that starts keeps the invariant.
LEMMA MfaStartKeeps ==
  ASSUME MfaInv, NEW c \in MfaCalls, NEW pc \in {"init", "confirm", "disable", "totp", "backup"},
         NEW used \in SUBSET BackupCodes, MfaStart(c, pc, used), pc = "backup" => mfa.codes # 0,
         pc \in {"totp", "confirm"} => mfa.secret # 0
  PROVE  MfaInv'
<1> USE MfaAssumption
<1> DEFINE new == [pc |-> pc, row |-> mfa, used |-> used]
<1>1. new \in MfaBusy /\ new.row = mfa /\ new.pc = pc
  BY DEF MfaBusy, MfaInv, MfaTypeOK
<1> HIDE DEF new
<1>2. /\ mfaCall' = [mfaCall EXCEPT ![c] = new] /\ mfaCalls < MaxMfaCalls
      /\ mfaCalls' = mfaCalls + 1 /\ UNCHANGED <<mfa, usedTotp, secrets>>
  BY DEF MfaStart, new
<1>3. MfaTypeOK' /\ mfaCalls' # 0
  BY <1>1, <1>2 DEF MfaInv, MfaTypeOK
<1>4. \A d \in MfaCalls : mfaCall'[d] = IF d = c THEN new ELSE mfaCall[d]
  BY <1>2 DEF MfaInv, MfaTypeOK
<1> QED BY <1>1, <1>2, <1>3, <1>4 DEF MfaInv, EnabledHasBackupCodes

\* Every step of the specification keeps the inductive invariant.
LEMMA MfaNextInv == MfaInv /\ [MfaNext]_mfaVars => MfaInv'
<1> SUFFICES ASSUME MfaInv, [MfaNext]_mfaVars PROVE MfaInv'
  OBVIOUS
<1> USE MfaAssumption
<1>0. MfaTypeOK
  BY DEF MfaInv
<1>1. ASSUME NEW c \in MfaCalls,
             \/ InitSetup(c) \/ ConfirmSetup(c) \/ DisableWithToken(c) \/ VerifyTotp(c)
             \/ \E b \in BackupCodes : VerifyBackup(c, b)
      PROVE  MfaInv'
  <2>1. ASSUME NEW b \in BackupCodes, VerifyBackup(c, b) PROVE MfaInv'
    <3>1. mfa.used \cup {b} \in SUBSET BackupCodes
      BY <1>0 DEF MfaTypeOK, MfaCredential
    <3> QED BY <2>1, <3>1, MfaStartKeeps DEF VerifyBackup
  <2>2. {} \in SUBSET BackupCodes
    OBVIOUS
  <2> QED BY <1>1, <2>1, <2>2, MfaStartKeeps DEF InitSetup, ConfirmSetup, DisableWithToken, VerifyTotp, MfaInv
<1>2. ASSUME NEW c \in MfaCalls,
             \/ StoreSecret(c) \/ EnableMfa(c) \/ DisableMfa(c) \/ WriteReplayKey(c) \/ MarkCodeUsed(c)
             \/ AbortMfaCall(c)
      PROVE  MfaInv'
  <2>1. /\ mfaCall[c] \in MfaBusy /\ mfaCall[c].row \in MfaCredential /\ mfaCall[c].used \in SUBSET BackupCodes
        /\ mfaCall[c] # MfaIdle /\ mfaCalls # 0 /\ mfaCalls \in 0..MaxMfaCalls
    <3>1. mfaCall[c] # MfaIdle
      BY <1>2 DEF StoreSecret, EnableMfa, DisableMfa, WriteReplayKey, MarkCodeUsed, AbortMfaCall, MfaEnd, MfaIdle
    <3> QED BY <1>0, <3>1 DEF MfaTypeOK, MfaBusy, MfaInv
  <2>2. /\ mfaCall' = [mfaCall EXCEPT ![c] = MfaIdle] /\ mfaCalls' = mfaCalls
        /\ \A d \in MfaCalls : mfaCall'[d] = IF d = c THEN MfaIdle ELSE mfaCall[d]
    BY <1>0, <1>2 DEF StoreSecret, EnableMfa, DisableMfa, WriteReplayKey, MarkCodeUsed, AbortMfaCall, MfaEnd, MfaTypeOK
  <2>3. mfaCall' \in [MfaCalls -> MfaBusy \cup {MfaIdle}] /\ mfaCalls' \in 0..MaxMfaCalls
    BY <1>0, <2>2 DEF MfaTypeOK
  <2>4. /\ mfa \in MfaCredential /\ secrets \in 0..MaxSecrets /\ usedTotp \subseteq 1..MaxSecrets
        /\ mfa.codes \in 0..MaxMfaCalls /\ mfa.used \in SUBSET BackupCodes
        /\ mfa.enabled => mfa.codes # 0 /\ mfa.secret # 0
    BY <1>0 DEF MfaInv, MfaTypeOK, MfaCredential, EnabledHasBackupCodes
  <2>5. /\ mfa' \in MfaCredential /\ secrets' \in 0..MaxSecrets /\ usedTotp' \subseteq 1..MaxSecrets
        /\ mfa'.enabled => mfa'.codes # 0 /\ mfa'.secret # 0
        /\ mfa.secret # 0 => mfa'.secret # 0
    <3>1. CASE StoreSecret(c)
      <4>1. secrets + 1 \in 0..MaxSecrets /\ secrets + 1 # 0
        BY <2>4, <3>1 DEF StoreSecret
      <4>2. /\ mfa' = [mfa EXCEPT !.secret = secrets + 1, !.enabled = FALSE]
            /\ secrets' = secrets + 1 /\ usedTotp' = usedTotp
        BY <3>1 DEF StoreSecret
      <4>3. 0 \in 0..MaxMfaCalls /\ {} \in SUBSET BackupCodes
        BY DEF MfaBusy
      <4>4. mfa' \in MfaCredential /\ mfa'.enabled = FALSE /\ mfa'.secret = secrets + 1
        BY <2>4, <4>1, <4>2, MfaSecretSet
      <4> QED BY <2>4, <4>1, <4>2, <4>4
    <3>2. CASE EnableMfa(c)
      <4>1. /\ mfa' = [mfa EXCEPT !.enabled = TRUE, !.codes = mfaCalls, !.used = {}]
            /\ {} \in SUBSET BackupCodes /\ 0 \in 0..MaxSecrets /\ UNCHANGED <<secrets, usedTotp>>
        BY <3>2 DEF EnableMfa
      <4>2. mfa' \in MfaCredential /\ mfa'.codes = mfaCalls /\ mfa'.secret = mfa.secret
        BY <2>1, <2>4, <4>1, MfaSwitched
      <4>3. mfa.secret # 0
        BY <2>1, <3>2 DEF EnableMfa, MfaEnd, MfaInv
      <4> QED BY <2>1, <2>4, <4>1, <4>2, <4>3
    <3>3. CASE DisableMfa(c)
      <4>1. /\ mfa' = [mfa EXCEPT !.enabled = FALSE, !.codes = 0, !.used = {}]
            /\ {} \in SUBSET BackupCodes /\ 0 \in 0..MaxSecrets /\ 0 \in 0..MaxMfaCalls /\ UNCHANGED <<secrets, usedTotp>>
        BY <3>3 DEF DisableMfa
      <4>2. mfa' \in MfaCredential /\ mfa'.enabled = FALSE /\ mfa'.secret = mfa.secret
        BY <2>4, <4>1, MfaSwitched
      <4> QED BY <2>4, <4>1, <4>2
    <3>4. CASE WriteReplayKey(c)
      <4>1. mfaCall[c].row.secret \in 1..MaxSecrets
        BY <2>1, <3>4 DEF WriteReplayKey, MfaEnd, MfaInv, MfaCredential
      <4> QED BY <2>4, <3>4, <4>1 DEF WriteReplayKey
    <3>5. CASE MarkCodeUsed(c)
      <4>1. /\ mfa' = [mfa EXCEPT !.codes = mfaCall[c].row.codes, !.used = mfaCall[c].used]
            /\ 0 \in 0..MaxSecrets /\ UNCHANGED <<secrets, usedTotp>>
            /\ mfaCall[c].row.codes \in 0..MaxMfaCalls /\ mfaCall[c].row.codes # 0
        BY <2>1, <3>5 DEF MarkCodeUsed, MfaEnd, MfaInv, MfaCredential
      <4>2. /\ mfa' \in MfaCredential /\ mfa'.codes = mfaCall[c].row.codes /\ mfa'.secret = mfa.secret
            /\ mfa'.enabled = mfa.enabled
        <5> DEFINE k == mfaCall[c].row.codes
                   u == mfaCall[c].used
        <5>1. k \in 0..MaxMfaCalls /\ u \in SUBSET BackupCodes /\ mfa \in MfaCredential
          BY <2>1, <2>4, <4>1
        <5>2. mfa' = [mfa EXCEPT !.codes = k, !.used = u]
          BY <4>1
        <5> HIDE DEF k, u
        <5>3. mfa' \in MfaCredential /\ mfa'.codes = k /\ mfa'.secret = mfa.secret /\ mfa'.enabled = mfa.enabled
          BY <5>1, <5>2 DEF MfaCredential
        <5> QED BY <5>3 DEF k
      <4> QED BY <2>4, <4>1, <4>2
    <3>6. CASE AbortMfaCall(c)
      BY <2>4, <3>6 DEF AbortMfaCall
    <3> QED BY <1>2, <3>1, <3>2, <3>3, <3>4, <3>5, <3>6
  <2> QED BY <2>2, <2>3, <2>5 DEF MfaInv, MfaTypeOK, EnabledHasBackupCodes
<1>3. ASSUME NEW c \in MfaCalls, ReadReplayKey(c) PROVE MfaInv'
  <2>1. mfaCall[c] # MfaIdle /\ mfaCall[c] \in MfaBusy /\ mfaCall[c].pc = "totp"
    BY <1>0, <1>3 DEF ReadReplayKey, MfaIdle, MfaTypeOK
  <2> DEFINE next == [mfaCall[c] EXCEPT !.pc = "replay"]
  <2>2. next \in MfaBusy /\ next.pc = "replay"
    BY <2>1 DEF MfaBusy
  <2> HIDE DEF next
  <2>3. /\ UNCHANGED <<mfa, usedTotp, secrets, mfaCalls>>
        /\ \/ mfaCall' = [mfaCall EXCEPT ![c] = MfaIdle]
           \/ mfaCall' = [mfaCall EXCEPT ![c] = next]
    BY <1>3 DEF ReadReplayKey, next
  <2>4. mfaCall' \in [MfaCalls -> MfaBusy \cup {MfaIdle}]
    BY <1>0, <2>2, <2>3 DEF MfaTypeOK
  <2>5. \A d \in MfaCalls : mfaCall'[d] \in {MfaIdle, mfaCall[d]} \/ (d = c /\ mfaCall'[d] = next)
    BY <1>0, <2>3 DEF MfaTypeOK
  <2>6. next.row = mfaCall[c].row /\ mfaCall[c].row.secret # 0
    BY <2>1 DEF next, MfaBusy, MfaInv
  <2>7. MfaTypeOK' /\ EnabledHasBackupCodes' /\ (mfa.enabled => mfa.secret # 0)'
    BY <2>3, <2>4 DEF MfaInv, MfaTypeOK, EnabledHasBackupCodes
  <2>8. next # MfaIdle /\ next.pc = "replay"
    BY <2>2 DEF MfaIdle
  <2> QED BY <2>1, <2>3, <2>5, <2>6, <2>7, <2>8 DEF MfaInv
<1>4. ASSUME NEW s \in 1..MaxSecrets, ReplayKeyExpires(s) PROVE MfaInv'
  BY <1>4 DEF ReplayKeyExpires, MfaInv, MfaTypeOK, EnabledHasBackupCodes
<1>5. CASE UNCHANGED mfaVars
  BY <1>5 DEF mfaVars, MfaInv, MfaTypeOK, EnabledHasBackupCodes
<1> QED BY <1>1, <1>2, <1>3, <1>4, <1>5 DEF MfaNext

\* For any number of calls and secrets, an enabled second factor comes with its backup
\* codes, although confirmation, set-up and the use of codes race (mfa.service.ts).
THEOREM SecondFactorHasCodes == MfaSpec => [](MfaTypeOK /\ EnabledHasBackupCodes)
<1>1. MfaInv => MfaTypeOK /\ EnabledHasBackupCodes
  BY DEF MfaInv
<1> QED BY <1>1, MfaInitInv, MfaNextInv, PTL DEF MfaSpec

-----------------------------------------------------------------------------
\* The positions of a user.
\* The record of a call under way, whatever the bounds of the model.
UserCallRecord ==
  [pc: {"vacate", "check", "insert", "release", "offboard", "profile"}, new: UserPositionAssignment,
   rows: SUBSET Nat, copy: Seq(UserPositionAssignment), status: ProfileStatuses, all: SUBSET Nat]

\* The types the proof needs.
UserCallsOK ==
  /\ held \in Seq(UserPositionAssignment)
  /\ profile \in ProfileStatuses
  /\ DOMAIN userCall = UserCalls
  /\ \A c \in UserCalls : userCall[c] # UserIdle => userCall[c] \in UserCallRecord

\* What is over for the user, or known to have been written back.
Ended(n) == n \in DOMAIN held /\ (held[n].vacated \/ n \in rewritten)

\* What an offboarding has dealt with so far has ended.
OffboardingIsSound(c) ==
  userCall[c].pc = "offboard" =>
    /\ userCall[c].all \subseteq DOMAIN held
    /\ \A n \in userCall[c].all \ userCall[c].rows : Ended(n)

\* The inductive invariant.
PositionsInv ==
  /\ UserCallsOK
  /\ \A c \in UserCalls : OffboardingIsSound(c)
  /\ \A n \in released : Ended(n)

\* It holds at the start.
LEMMA PositionsInitInv == UserPositionsInit => PositionsInv
BY DEF UserPositionsInit, PositionsInv, UserCallsOK, OffboardingIsSound, UserIdle, ProfileStatuses

\* Ended rows stay ended, and the calls other than c are as they were.
OnlyEnding(c) ==
  /\ DOMAIN held \subseteq DOMAIN held' /\ held' \in Seq(UserPositionAssignment)
  /\ \A n \in DOMAIN held : Ended(n) => Ended(n)'
  /\ DOMAIN userCall' = UserCalls
  /\ \A d \in UserCalls : d # c => userCall'[d] = userCall[d]

\* A step of call c that only ends rows keeps what is known of the other calls.
LEMMA OneUserCallMoves ==
  ASSUME PositionsInv, NEW c \in UserCalls, OnlyEnding(c),
         userCall'[c] # UserIdle => userCall'[c] \in UserCallRecord,
         OffboardingIsSound(c)', profile' \in ProfileStatuses,
         \A n \in released' : n \in released \/ Ended(n)'
  PROVE  PositionsInv'
<1>1. UserCallsOK'
  BY DEF PositionsInv, UserCallsOK, OnlyEnding
<1>2. ASSUME NEW d \in UserCalls PROVE OffboardingIsSound(d)'
  BY DEF PositionsInv, OnlyEnding, OffboardingIsSound, Ended
<1>3. \A n \in released' : Ended(n)'
  BY DEF PositionsInv, OnlyEnding, Ended
<1> QED BY <1>1, <1>2, <1>3 DEF PositionsInv

\* Vacating rows only ends them.
LEMMA VacatedRows ==
  ASSUME held \in Seq(UserPositionAssignment), NEW rows
  PROVE  /\ Vacated(rows) \in Seq(UserPositionAssignment) /\ DOMAIN Vacated(rows) = DOMAIN held
         /\ \A n \in DOMAIN held : Vacated(rows)[n].vacated = (held[n].vacated \/ n \in rows)
<1>1. Len(held) \in Nat /\ DOMAIN held = 1..Len(held) /\ \A n \in 1..Len(held) : held[n] \in UserPositionAssignment
  OBVIOUS
<1>2. ASSUME NEW n \in 1..Len(held)
      PROVE  /\ Vacated(rows)[n] \in UserPositionAssignment
             /\ Vacated(rows)[n].vacated = (held[n].vacated \/ n \in rows)
  BY <1>1 DEF Vacated, UserPositionAssignment
<1>3. Vacated(rows) \in [1..Len(held) -> UserPositionAssignment]
  BY <1>1, <1>2 DEF Vacated
<1> QED BY <1>1, <1>2, <1>3, SeqDef DEF Vacated

\* A call that starts keeps the invariant.
LEMMA UserStartKeeps ==
  ASSUME PositionsInv, NEW c \in UserCalls,
         NEW pc \in {"vacate", "check", "insert", "release", "offboard", "profile"}, NEW new \in UserPositionAssignment,
         NEW rows \in SUBSET DOMAIN held, NEW st \in ProfileStatuses, UserStart(c, pc, new, rows, st)
  PROVE  PositionsInv'
<1> DEFINE call == [pc |-> pc, new |-> new, rows |-> rows, copy |-> held, status |-> st, all |-> rows]
<1>1. call \in UserCallRecord /\ call.all = rows /\ call.rows = rows
  BY DEF UserCallRecord, PositionsInv, UserCallsOK
<1>2. userCall' = [userCall EXCEPT ![c] = call] /\ UNCHANGED <<profile, held, released, rewritten>>
  BY DEF UserStart
<1> HIDE DEF call
<1>3. OnlyEnding(c)
  BY <1>2 DEF OnlyEnding, PositionsInv, UserCallsOK, Ended
<1>4. userCall'[c] = call
  BY <1>2 DEF PositionsInv, UserCallsOK
<1>5. OffboardingIsSound(c)'
  BY <1>1, <1>2, <1>4 DEF OffboardingIsSound
<1>6. profile' \in ProfileStatuses
  BY <1>2 DEF PositionsInv, UserCallsOK
<1> QED BY <1>1, <1>2, <1>3, <1>4, <1>5, <1>6, OneUserCallMoves

\* A call that goes on to another step than offboarding, or ends.
LEMMA UserStepKeeps ==
  ASSUME PositionsInv, NEW c \in UserCalls, NEW pc \in {"check", "insert"},
         UserGo(c, pc) \/ UserEnd(c), userCall[c] # UserIdle,
         profile' \in ProfileStatuses, held' \in Seq(UserPositionAssignment), DOMAIN held \subseteq DOMAIN held',
         \A n \in DOMAIN held : Ended(n) => Ended(n)',
         \A n \in released' : n \in released \/ Ended(n)'
  PROVE  PositionsInv'
<1>1. userCall[c] \in UserCallRecord /\ DOMAIN userCall = UserCalls
  BY DEF PositionsInv, UserCallsOK
<1>2. OnlyEnding(c)
  BY <1>1 DEF OnlyEnding, UserGo, UserEnd
<1>3. CASE UserEnd(c)
  <2>1. userCall'[c] = UserIdle
    BY <1>1, <1>3 DEF UserEnd
  <2> QED BY <1>2, <2>1, OneUserCallMoves DEF OffboardingIsSound, UserIdle
<1>4. CASE UserGo(c, pc)
  <2>1. userCall'[c] = [userCall[c] EXCEPT !.pc = pc]
    BY <1>1, <1>4 DEF UserGo
  <2>2. userCall'[c] \in UserCallRecord /\ userCall'[c].pc = pc
    BY <1>1, <2>1 DEF UserCallRecord
  <2> QED BY <1>2, <2>2, OneUserCallMoves DEF OffboardingIsSound
<1> QED BY <1>3, <1>4

\* Every step of the specification keeps the inductive invariant.
LEMMA PositionsNextInv == PositionsInv /\ [UserPositionsNext]_userVars => PositionsInv'
<1> SUFFICES ASSUME PositionsInv, [UserPositionsNext]_userVars PROVE PositionsInv'
  OBVIOUS
<1>0. /\ held \in Seq(UserPositionAssignment) /\ DOMAIN held = 1..Len(held) /\ Len(held) \in Nat
      /\ DOMAIN userCall = UserCalls
      /\ \A c \in UserCalls : userCall[c] # UserIdle => userCall[c] \in UserCallRecord
  BY DEF PositionsInv, UserCallsOK
<1>a. ASSUME NEW rows PROVE held' = Vacated(rows) /\ rewritten' \in {rewritten, rewritten \ rows} =>
        /\ held' \in Seq(UserPositionAssignment) /\ DOMAIN held' = DOMAIN held
        /\ \A n \in DOMAIN held : Ended(n) \/ n \in rows => Ended(n)'
  <2> SUFFICES ASSUME held' = Vacated(rows), rewritten' \in {rewritten, rewritten \ rows}
               PROVE  /\ held' \in Seq(UserPositionAssignment) /\ DOMAIN held' = DOMAIN held
                      /\ \A n \in DOMAIN held : Ended(n) \/ n \in rows => Ended(n)'
    OBVIOUS
  <2> QED BY <1>0, VacatedRows DEF Ended
<1>b. SomeAssignment \in UserPositionAssignment /\ profile \in ProfileStatuses
  BY UserPositionsAssumption DEF SomeAssignment, UserPositionAssignment, PositionsInv, UserCallsOK
<1>1. ASSUME NEW c \in UserCalls, NEW p \in Posts, NEW t \in {"primary", "acting"}, AssignPosition(c, p, t)
      PROVE  PositionsInv'
  <2>1. [post |-> p, type |-> t, vacated |-> FALSE] \in UserPositionAssignment
    BY DEF UserPositionAssignment
  <2> DEFINE primary == {n \in ActiveHeld : held[n].type = "primary" /\ t = "primary"}
  <2>2. primary \in SUBSET DOMAIN held
    BY DEF ActiveHeld
  <2>3. profile \in ProfileStatuses
    BY DEF PositionsInv, UserCallsOK
  <2>4. (IF primary = {} THEN "check" ELSE "vacate") \in {"vacate", "check", "insert", "release", "offboard", "profile"}
    OBVIOUS
  <2> QED BY <1>1, <2>1, <2>2, <2>3, <2>4, UserStartKeeps DEF AssignPosition
<1>2. ASSUME NEW c \in UserCalls, VacatePrimary(c) PROVE PositionsInv'
  <2>1. userCall[c] # UserIdle
    BY <1>2 DEF VacatePrimary, UserAt, UserIdle
  <2> QED BY <1>0, <1>b, <1>2, <1>a, <2>1, UserStepKeeps DEF VacatePrimary
<1>3. ASSUME NEW c \in UserCalls, CheckDuplicate(c) PROVE PositionsInv'
  <2>1. userCall[c] # UserIdle
    BY <1>3 DEF CheckDuplicate, UserAt, UserIdle
  <2> QED BY <1>0, <1>b, <1>3, <2>1, UserStepKeeps DEF CheckDuplicate, Ended
<1>4. ASSUME NEW c \in UserCalls, InsertHeld(c) PROVE PositionsInv'
  <2>1. userCall[c] # UserIdle /\ userCall[c].new \in UserPositionAssignment
    BY <1>0, <1>4 DEF InsertHeld, UserAt, UserIdle, UserCallRecord
  <2>2. /\ held' \in Seq(UserPositionAssignment) /\ DOMAIN held \subseteq DOMAIN held'
        /\ \A n \in DOMAIN held : held'[n] = held[n]
    BY <1>0, <1>4, <2>1 DEF InsertHeld
  <2> QED BY <1>b, <1>4, <2>1, <2>2, UserStepKeeps DEF InsertHeld, Ended
<1>5. ASSUME NEW c \in UserCalls, NEW n \in DOMAIN held, VacatePosition(c, n) PROVE PositionsInv'
  <2>1. {n} \in SUBSET DOMAIN held
    OBVIOUS
  <2> QED BY <1>5, <1>b, <2>1, UserStartKeeps DEF VacatePosition
<1>6. ASSUME NEW c \in UserCalls, Offboard(c) PROVE PositionsInv'
  <2>1. ActiveHeld \in SUBSET DOMAIN held /\ "offboarded" \in ProfileStatuses
    BY DEF ActiveHeld, ProfileStatuses
  <2> QED BY <1>6, <1>b, <2>1, UserStartKeeps DEF Offboard
<1>7. ASSUME NEW c \in UserCalls, VacateNext(c) PROVE PositionsInv'
  <2>1. PICK n \in userCall[c].rows :
          /\ held' = Vacated({n})
          /\ IF UserAt(c, "release") THEN UserEnd(c) ELSE userCall' = [userCall EXCEPT ![c].rows = @ \ {n}]
          /\ rewritten' = rewritten \ {n}
    BY <1>7 DEF VacateNext
  <2>2. userCall[c] # UserIdle /\ userCall[c] \in UserCallRecord /\ UNCHANGED <<released, profile>>
    BY <1>0, <1>7 DEF VacateNext, UserIdle
  <2>3. OnlyEnding(c) /\ (n \in DOMAIN held => Ended(n)')
    BY <1>0, <1>a, <2>1 DEF OnlyEnding, UserEnd
  <2>4. CASE userCall[c].pc = "release"
    <3>1. userCall'[c] = UserIdle
      BY <1>0, <2>1, <2>4 DEF UserAt, UserEnd
    <3> QED BY <1>b, <2>2, <2>3, <3>1, OneUserCallMoves DEF OffboardingIsSound, UserIdle
  <2>5. CASE userCall[c].pc = "offboard"
    <3> DEFINE next == [userCall[c] EXCEPT !.rows = userCall[c].rows \ {n}]
    <3>a. userCall' = [userCall EXCEPT ![c] = next]
      BY <2>1, <2>5 DEF UserAt
    <3>b. next \in UserCallRecord /\ next.rows = userCall[c].rows \ {n} /\ next.all = userCall[c].all
      BY <2>2 DEF UserCallRecord
    <3> HIDE DEF next
    <3>1. userCall'[c] = next
      BY <1>0, <3>a
    <3>2. /\ userCall'[c] \in UserCallRecord /\ userCall'[c].rows = userCall[c].rows \ {n}
          /\ userCall'[c].all = userCall[c].all
      BY <3>1, <3>b
    <3>3. OffboardingIsSound(c)'
      BY <2>3, <2>5, <3>2 DEF PositionsInv, OffboardingIsSound, OnlyEnding
    <3> QED BY <1>b, <2>2, <2>3, <3>2, <3>3, OneUserCallMoves
  <2> QED BY <1>7, <2>4, <2>5 DEF VacateNext
<1>8. ASSUME NEW c \in UserCalls, MarkOffboarded(c) PROVE PositionsInv'
  <2>1. /\ userCall[c] # UserIdle
        /\ \A n \in userCall[c].all : Ended(n)
    BY <1>8 DEF MarkOffboarded, UserAt, UserIdle, PositionsInv, OffboardingIsSound
  <2> QED BY <1>0, <1>8, <2>1, UserStepKeeps DEF MarkOffboarded, Ended, ProfileStatuses
<1>9. ASSUME NEW c \in UserCalls, NEW s \in ProfileStatuses, UpdateProfile(c, s) PROVE PositionsInv'
  <2>1. {} \in SUBSET DOMAIN held
    OBVIOUS
  <2> QED BY <1>9, <1>b, <2>1, UserStartKeeps DEF UpdateProfile
<1>10. ASSUME NEW c \in UserCalls, SaveProfile(c) PROVE PositionsInv'
  <2>1. userCall[c] # UserIdle /\ userCall[c].copy \in Seq(UserPositionAssignment) /\ UserEnd(c) /\ UNCHANGED released
        /\ userCall[c].status \in ProfileStatuses
    BY <1>0, <1>10 DEF SaveProfile, UserAt, UserIdle, UserCallRecord
  <2>2. CASE UNCHANGED <<profile, held, rewritten>>
    BY <1>0, <1>b, <2>1, <2>2, UserStepKeeps DEF Ended
  <2>3. CASE /\ Len(userCall[c].copy) = Len(held) /\ held' = userCall[c].copy
             /\ profile' = userCall[c].status
             /\ rewritten' = rewritten \cup {n \in DOMAIN userCall[c].copy : held[n].vacated /\ ~userCall[c].copy[n].vacated}
    <3>1. DOMAIN held' = DOMAIN held /\ held' \in Seq(UserPositionAssignment)
      BY <1>0, <2>1, <2>3
    <3>2. \A n \in DOMAIN held : Ended(n) => Ended(n)'
      BY <2>3, <3>1 DEF Ended
    <3> QED BY <1>0, <2>1, <2>3, <3>1, <3>2, UserStepKeeps
  <2> QED BY <1>10, <2>2, <2>3 DEF SaveProfile
<1>11. ASSUME NEW c \in UserCalls, AbortUserCall(c) PROVE PositionsInv'
  BY <1>0, <1>b, <1>11, UserStepKeeps DEF AbortUserCall, Ended
<1>12. CASE UNCHANGED userVars
  BY <1>12 DEF userVars, PositionsInv, UserCallsOK, OffboardingIsSound, Ended
<1> QED BY <1>1, <1>2, <1>3, <1>4, <1>5, <1>6, <1>7, <1>8, <1>9, <1>10, <1>11, <1>12 DEF UserPositionsNext

\* It implies the property.
LEMMA ReleasedHaveEnded == PositionsInv => OffboardingReleases
BY DEF PositionsInv, OffboardingReleases, Ended

\* For any number of assignments and calls, what an offboarding set out to end has
\* ended once it has marked the profile, unless a profile update wrote an assignment
\* back that it had loaded before (users.service.ts:343-375, 126-142).
THEOREM OffboardingEnds == UserPositionsSpec => []OffboardingReleases
BY ReleasedHaveEnded, PositionsInitInv, PositionsNextInv, PTL DEF UserPositionsSpec

-----------------------------------------------------------------------------
\* Departments and positions.
\* Call c is about to save a row of this kind.
Saving(c, kind) == orgCall[c] # OrgIdle /\ orgCall[c].pc = "save" /\ orgCall[c].kind = kind

\* A position about to be created has an id of its own, and the rows it refers to exist.
CreationIsSound(c) ==
  /\ Saving(c, "position_created") =>
       /\ orgCall[c].id \in OrgPosts /\ ~position[orgCall[c].id].exists
       /\ orgCall[c].up # NoOrg => orgCall[c].up \in OrgPosts /\ position[orgCall[c].up].exists
       /\ orgCall[c].dept \in OrgDepts /\ department[orgCall[c].dept].exists
       /\ \A d \in OrgCalls : d # c /\ Saving(d, "position_created") => orgCall[d].id # orgCall[c].id
  /\ Saving(c, "department_created") \/ Saving(c, "department_deactivated") =>
       /\ orgCall[c].id \in OrgDepts
       /\ orgCall[c].up \in OrgDepts \cup {NoOrg}

\* Superiors exist.
SuperiorsExist ==
  \A p \in OrgPosts : position[p].reportsTo # NoOrg =>
    position[p].reportsTo \in OrgPosts /\ position[position[p].reportsTo].exists

\* The inductive invariant.
OrgInv ==
  /\ OrgStructureTypeOK
  /\ SuperiorsExist
  /\ \A c \in OrgCalls : CreationIsSound(c)
  /\ CommandChainEnds
  /\ ChangesAreRecorded

\* It holds at the start.
LEMMA OrgInitInv == OrgStructureInit => OrgInv
<1> SUFFICES ASSUME OrgStructureInit PROVE OrgInv
  OBVIOUS
<1> USE OrgStructureAssumption DEF OrgStructureInit
<1>1. OrgStructureTypeOK
  BY DEF OrgStructureTypeOK, Department, Position
<1>2. SuperiorsExist /\ CommandChainEnds
  BY DEF SuperiorsExist, CommandChainEnds
<1>3. \A c \in OrgCalls : CreationIsSound(c)
  BY DEF CreationIsSound, Saving
<1>4. ChangesAreRecorded
  BY DEF ChangesAreRecorded
<1> QED BY <1>1, <1>2, <1>3, <1>4 DEF OrgInv

\* The types of a call that is under way.
LEMMA BusyOrgCall ==
  ASSUME OrgStructureTypeOK, NEW c \in OrgCalls, orgCall[c] # OrgIdle
  PROVE  /\ orgCall[c] \in OrgBusy /\ orgCall[c].pc \in {"save", "record"} /\ orgCall[c].kind \in OrgChanges
         /\ orgCall[c].id \in OrgDepts \cup OrgPosts
BY DEF OrgStructureTypeOK, OrgBusy

\* What has happened so far.
Happened ==
  {<<"department_created", d>> : d \in {e \in OrgDepts : department[e].exists}}
  \cup {<<"department_deactivated", d>> : d \in {e \in OrgDepts : ~department[e].active}}
  \cup {<<"position_created", p>> : p \in {q \in OrgPosts : position[q].exists}}

Recording(h) == \E c \in OrgCalls : orgCall[c].pc = "record" /\ <<orgCall[c].kind, orgCall[c].id>> = h

\* Changes are recorded: what happened and has no record yet is about to get one.
LEMMA RecordedMeans == ChangesAreRecorded <=> \A h \in Happened \ (history \cup cutShort) : Recording(h)
BY DEF ChangesAreRecorded, Happened, Recording

\* The records in the making are kept, but for that of call c, which is either kept
\* in history or cutShort.
LEMMA RecordsAreKept ==
  ASSUME OrgInv, NEW c \in OrgCalls, orgCall' \in [OrgCalls -> OrgBusy \cup {OrgIdle}],
         \A d \in OrgCalls : d # c => orgCall'[d] = orgCall[d],
         history \subseteq history', cutShort \subseteq cutShort',
         orgCall[c].pc = "record" => <<orgCall[c].kind, orgCall[c].id>> \in history' \cup cutShort',
         \A h \in Happened' \ Happened : Recording(h)'
  PROVE  ChangesAreRecorded'
<1>1. \A h \in Happened \ (history \cup cutShort) : Recording(h)
  BY RecordedMeans DEF OrgInv
<1>2. ASSUME NEW h \in Happened', h \notin history' \cup cutShort' PROVE Recording(h)'
  <2>1. CASE h \in Happened
    <3>1. PICK d \in OrgCalls : orgCall[d].pc = "record" /\ <<orgCall[d].kind, orgCall[d].id>> = h
      BY <1>1, <1>2, <2>1 DEF Recording
    <3>2. d # c
      BY <1>2, <3>1
    <3> QED BY <3>1, <3>2 DEF Recording
  <2> QED BY <1>2, <2>1
<1> QED BY <1>2 DEF ChangesAreRecorded, Happened, Recording

\* A call that starts keeps the invariant,
LEMMA OrgStartKeeps ==
  ASSUME OrgInv, NEW c \in OrgCalls, NEW kind \in OrgChanges, NEW id \in OrgDepts \cup OrgPosts,
         NEW up \in OrgDepts \cup OrgPosts \cup {NoOrg}, NEW dept \in OrgDepts \cup {NoOrg},
         OrgStart(c, kind, id, up, dept),
         kind = "position_created" =>
           /\ id \in OrgPosts /\ ~position[id].exists /\ FreshId(id)
           /\ up # NoOrg => up \in OrgPosts /\ position[up].exists
           /\ dept \in OrgDepts /\ department[dept].exists,
         kind # "position_created" => id \in OrgDepts /\ up \in OrgDepts \cup {NoOrg}
  PROVE  OrgInv'
<1> DEFINE call == [pc |-> "save", kind |-> kind, id |-> id, up |-> up, dept |-> dept]
<1>1. call \in OrgBusy /\ call # OrgIdle
  BY DEF OrgBusy, OrgIdle
<1>2. /\ call.pc = "save" /\ call.kind = kind /\ call.id = id /\ call.up = up /\ call.dept = dept
      /\ orgCall[c] = OrgIdle /\ orgCall' = [orgCall EXCEPT ![c] = call]
      /\ UNCHANGED <<department, position, history, cutShort>>
  BY DEF OrgStart
<1> HIDE DEF call
<1>3. orgCall \in [OrgCalls -> OrgBusy \cup {OrgIdle}]
  BY DEF OrgInv, OrgStructureTypeOK
<1>4. \A d \in OrgCalls : orgCall'[d] = IF d = c THEN call ELSE orgCall[d]
  BY <1>2, <1>3
<1>5. OrgStructureTypeOK'
  BY <1>1, <1>2, <1>3 DEF OrgInv, OrgStructureTypeOK
<1>6. SuperiorsExist' /\ CommandChainEnds'
  BY <1>2 DEF OrgInv, SuperiorsExist, CommandChainEnds
<1>7. ASSUME NEW d \in OrgCalls PROVE CreationIsSound(d)'
  <2>1. CASE d = c
    <3>1. /\ orgCall'[c] = call /\ Saving(c, kind)'
          /\ \A k : Saving(c, k)' => k = kind
      BY <1>1, <1>2, <1>4 DEF Saving
    <3>2. \A e \in OrgCalls : e # c /\ Saving(e, "position_created")' => Saving(e, "position_created") /\ orgCall'[e] = orgCall[e]
      BY <1>4 DEF Saving
    <3>3. ASSUME kind = "position_created", NEW e \in OrgCalls, e # c, Saving(e, "position_created")'
          PROVE  orgCall'[e].id # orgCall'[c].id
      BY <1>2, <3>1, <3>2, <3>3 DEF FreshId, Saving
    <3> QED BY <1>2, <2>1, <3>1, <3>3 DEF CreationIsSound
  <2>2. CASE d # c
    <3>1. orgCall'[d] = orgCall[d] /\ \A k : Saving(d, k)' = Saving(d, k)
      BY <1>4, <2>2 DEF Saving
    <3>2. ASSUME Saving(d, "position_created"), NEW e \in OrgCalls, e # d, Saving(e, "position_created")'
          PROVE  orgCall'[e].id # orgCall[d].id
      <4>1. CASE e = c
        <5>1. orgCall'[c] = call /\ kind = "position_created"
          BY <1>2, <1>4, <3>2, <4>1 DEF Saving
        <5>2. orgCall[d].id # id
          BY <3>2, <5>1 DEF FreshId, Saving
        <5> QED BY <1>2, <4>1, <5>1, <5>2
      <4>2. CASE e # c
        BY <1>4, <3>2, <4>2 DEF OrgInv, CreationIsSound, Saving
      <4> QED BY <4>1, <4>2
    <3> QED BY <1>2, <3>1, <3>2 DEF OrgInv, CreationIsSound
  <2> QED BY <2>1, <2>2
<1>8. Happened' = Happened /\ orgCall[c].pc # "record" /\ orgCall' \in [OrgCalls -> OrgBusy \cup {OrgIdle}]
  BY <1>1, <1>2, <1>3 DEF Happened, OrgIdle
<1>9. ChangesAreRecorded'
  BY <1>2, <1>4, <1>8, RecordsAreKept
<1> QED BY <1>5, <1>6, <1>7, <1>9 DEF OrgInv

\* A step of the rows that keeps the types, the existing rows and the superiors.
LEMMA OthersStaySound ==
  ASSUME OrgInv, NEW c \in OrgCalls, orgCall' \in [OrgCalls -> OrgBusy \cup {OrgIdle}],
         \A d \in OrgCalls : d # c => orgCall'[d] = orgCall[d],
         orgCall'[c] = OrgIdle \/ orgCall'[c].pc # "save",
         \A e \in OrgDepts : department[e].exists => department'[e].exists,
         \A p \in OrgPosts : position[p].exists => position'[p].exists,
         \A p \in OrgPosts : position'[p].exists => position[p].exists \/ (Saving(c, "position_created") /\ p = orgCall[c].id)
  PROVE  \A d \in OrgCalls : CreationIsSound(d)'
<1> SUFFICES ASSUME NEW d \in OrgCalls PROVE CreationIsSound(d)'
  OBVIOUS
<1>1. CASE d = c
  BY <1>1 DEF CreationIsSound, Saving
<1>2. CASE d # c
  <2>1. \A e \in OrgCalls : e # c => (orgCall'[e] = orgCall[e] /\ \A k : Saving(e, k)' = Saving(e, k))
    BY DEF Saving
  <2>2. \A e \in OrgCalls : \A k : Saving(e, k)' => e # c
    BY DEF Saving
  <2>3. CreationIsSound(d)
    BY DEF OrgInv
  <2>4. CASE Saving(d, "position_created")
    <3>1. ~position'[orgCall[d].id].exists
      BY <1>2, <2>3, <2>4 DEF CreationIsSound
    <3> QED BY <1>2, <2>1, <2>2, <2>3, <2>4, <3>1 DEF CreationIsSound
  <2>5. CASE ~Saving(d, "position_created")
    BY <1>2, <2>1, <2>3, <2>5 DEF CreationIsSound
  <2> QED BY <2>4, <2>5
<1> QED BY <1>1, <1>2

\* a call that writes its record or is cut short,
LEMMA OrgEndsKeep ==
  ASSUME OrgInv, NEW c \in OrgCalls, RecordChange(c) \/ AbortOrgCall(c)
  PROVE  OrgInv'
<1>1. orgCall[c] # OrgIdle /\ orgCall \in [OrgCalls -> OrgBusy \cup {OrgIdle}]
  BY DEF RecordChange, AbortOrgCall, OrgIdle, OrgInv, OrgStructureTypeOK
<1>2. orgCall[c] \in OrgBusy /\ orgCall[c].kind \in OrgChanges /\ orgCall[c].id \in OrgDepts \cup OrgPosts
  BY <1>1, BusyOrgCall DEF OrgInv
<1>3. /\ orgCall' = [orgCall EXCEPT ![c] = OrgIdle] /\ UNCHANGED <<department, position>>
      /\ orgCall[c].pc = "record" => <<orgCall[c].kind, orgCall[c].id>> \in history' \cup cutShort'
      /\ history \subseteq history' /\ cutShort \subseteq cutShort'
      /\ history' \cup cutShort' \subseteq history \cup cutShort \cup {<<orgCall[c].kind, orgCall[c].id>>}
  BY DEF RecordChange, AbortOrgCall
<1>4. <<orgCall[c].kind, orgCall[c].id>> \in OrgChanges \X (OrgDepts \cup OrgPosts)
  BY <1>2
<1>5. /\ orgCall' \in [OrgCalls -> OrgBusy \cup {OrgIdle}] /\ orgCall'[c] = OrgIdle
      /\ \A d \in OrgCalls : d # c => orgCall'[d] = orgCall[d]
  BY <1>1, <1>3
<1>6. OrgStructureTypeOK'
  BY <1>3, <1>4, <1>5 DEF OrgInv, OrgStructureTypeOK
<1>7. SuperiorsExist' /\ CommandChainEnds'
  BY <1>3 DEF OrgInv, SuperiorsExist, CommandChainEnds
<1>8. \A d \in OrgCalls : CreationIsSound(d)'
  BY <1>3, <1>5, OthersStaySound
<1>9. Happened' = Happened
  BY <1>3 DEF Happened
<1>10. ChangesAreRecorded'
  BY <1>3, <1>5, <1>9, RecordsAreKept
<1> QED BY <1>6, <1>7, <1>8, <1>10 DEF OrgInv

\* A new position closes no ring: it reports to one that existed before, and nobody
\* reported to it.
LEMMA NewPositionClosesNoRing ==
  ASSUME OrgInv, NEW p \in OrgPosts, ~position[p].exists, NEW row \in Position,
         position' = [position EXCEPT ![p] = row],
         row.reportsTo # NoOrg => row.reportsTo \in OrgPosts /\ position[row.reportsTo].exists, row.exists
  PROVE  CommandChainEnds' /\ SuperiorsExist'
<1>1. /\ position \in [OrgPosts -> Position] /\ NoOrg \notin OrgPosts
      /\ position'[p] = row /\ \A q \in OrgPosts : q # p => position'[q] = position[q]
  BY OrgStructureAssumption DEF OrgInv, OrgStructureTypeOK
<1>2. \A q \in OrgPosts : position[q].reportsTo # p
  BY <1>1 DEF OrgInv, SuperiorsExist
<1>3. row.reportsTo # p
  BY <1>1
<1>4. ASSUME NEW ring \in SUBSET OrgPosts, ring # {} PROVE \E q \in ring : position'[q].reportsTo \notin ring
  <2>1. CASE p \notin ring
    BY <1>1, <1>4, <2>1 DEF OrgInv, CommandChainEnds
  <2>2. CASE p \in ring /\ ring \ {p} = {}
    BY <1>1, <1>3, <1>4, <2>2
  <2>3. CASE p \in ring /\ ring \ {p} # {}
    <3>1. PICK q \in ring \ {p} : position[q].reportsTo \notin ring \ {p}
      BY <2>3 DEF OrgInv, CommandChainEnds
    <3> QED BY <1>1, <1>2, <3>1
  <2> QED BY <2>1, <2>2, <2>3
<1>5. SuperiorsExist'
  BY <1>1 DEF OrgInv, SuperiorsExist
<1> QED BY <1>4, <1>5 DEF CommandChainEnds

\* and a call that saves its row.
LEMMA OrgSaveKeeps ==
  ASSUME OrgInv, NEW c \in OrgCalls, SaveOrgChange(c)
  PROVE  OrgInv'
<1> DEFINE call == orgCall[c]
<1>1. /\ call # OrgIdle /\ orgCall \in [OrgCalls -> OrgBusy \cup {OrgIdle}]
      /\ department \in [OrgDepts -> Department] /\ position \in [OrgPosts -> Position]
  BY DEF SaveOrgChange, OrgIdle, OrgInv, OrgStructureTypeOK
<1>2. call \in OrgBusy /\ call.kind \in OrgChanges /\ call.pc = "save"
  BY <1>1, BusyOrgCall DEF OrgInv, SaveOrgChange
<1>3. /\ orgCall' = [orgCall EXCEPT ![c] = [call EXCEPT !.pc = "record"]] /\ UNCHANGED <<history, cutShort>>
  BY DEF SaveOrgChange
<1>4. /\ [call EXCEPT !.pc = "record"] \in OrgBusy /\ [call EXCEPT !.pc = "record"].pc = "record"
      /\ [call EXCEPT !.pc = "record"].kind = call.kind /\ [call EXCEPT !.pc = "record"].id = call.id
  BY <1>2 DEF OrgBusy
<1>5. /\ orgCall' \in [OrgCalls -> OrgBusy \cup {OrgIdle}]
      /\ orgCall'[c].pc = "record" /\ orgCall'[c].kind = call.kind /\ orgCall'[c].id = call.id
      /\ \A d \in OrgCalls : d # c => orgCall'[d] = orgCall[d]
  BY <1>1, <1>3, <1>4
<1>6. CreationIsSound(c)
  BY DEF OrgInv
<1>7. CASE call.kind = "department_created"
  <2> DEFINE row == [exists |-> TRUE, active |-> TRUE, parent |-> call.up]
  <2>1. call.id \in OrgDepts /\ row \in Department /\ row.exists /\ row.active
    BY <1>1, <1>2, <1>6, <1>7 DEF CreationIsSound, Saving, Department
  <2>2. department' = [department EXCEPT ![call.id] = row] /\ position' = position
    BY <1>7 DEF SaveOrgChange
  <2> HIDE DEF row
  <2>3. /\ department' \in [OrgDepts -> Department]
        /\ \A e \in OrgDepts : department[e].exists => department'[e].exists
        /\ Happened' \subseteq Happened \cup {<<call.kind, call.id>>}
    BY <1>1, <1>7, <2>1, <2>2 DEF Happened
  <2>4. OrgStructureTypeOK'
    BY <1>3, <1>5, <2>2, <2>3 DEF OrgInv, OrgStructureTypeOK
  <2>5. SuperiorsExist' /\ CommandChainEnds'
    BY <2>2 DEF OrgInv, SuperiorsExist, CommandChainEnds
  <2>6. \A d \in OrgCalls : CreationIsSound(d)'
    BY <1>5, <2>2, <2>3, OthersStaySound
  <2>7. Recording(<<call.kind, call.id>>)'
    BY <1>5 DEF Recording
  <2>8. ChangesAreRecorded'
    BY <1>2, <1>3, <1>5, <2>3, <2>7, RecordsAreKept
  <2> QED BY <2>4, <2>5, <2>6, <2>8 DEF OrgInv
<1>8. CASE call.kind = "department_deactivated"
  <2>1. call.id \in OrgDepts
    BY <1>1, <1>2, <1>6, <1>8 DEF CreationIsSound, Saving
  <2>2. department' = [department EXCEPT ![call.id] = [department[call.id] EXCEPT !.active = FALSE]] /\ position' = position
    BY <1>8 DEF SaveOrgChange
  <2>a. /\ [department[call.id] EXCEPT !.active = FALSE] \in Department
        /\ [department[call.id] EXCEPT !.active = FALSE].exists = department[call.id].exists
    BY <1>1, <2>1 DEF Department
  <2>3. /\ department' \in [OrgDepts -> Department]
        /\ \A e \in OrgDepts : department[e].exists = department'[e].exists
        /\ \A e \in OrgDepts : e # call.id => department'[e] = department[e]
    BY <1>1, <2>1, <2>2, <2>a
  <2>b. Happened' \subseteq Happened \cup {<<call.kind, call.id>>}
    BY <1>8, <2>1, <2>2, <2>3 DEF Happened
  <2>4. OrgStructureTypeOK'
    BY <1>3, <1>5, <2>2, <2>3 DEF OrgInv, OrgStructureTypeOK
  <2>5. SuperiorsExist' /\ CommandChainEnds'
    BY <2>2 DEF OrgInv, SuperiorsExist, CommandChainEnds
  <2>6. \A d \in OrgCalls : CreationIsSound(d)'
    BY <1>5, <2>2, <2>3, OthersStaySound
  <2>7. Recording(<<call.kind, call.id>>)'
    BY <1>5 DEF Recording
  <2>8. ChangesAreRecorded'
    BY <1>2, <1>3, <1>5, <2>b, <2>7, RecordsAreKept
  <2> QED BY <2>4, <2>5, <2>6, <2>8 DEF OrgInv
<1>9. CASE call.kind = "position_created"
  <2> DEFINE row == [exists |-> TRUE, dept |-> call.dept, reportsTo |-> call.up]
  <2>1. /\ call.id \in OrgPosts /\ ~position[call.id].exists /\ row \in Position /\ row.exists
        /\ row.reportsTo # NoOrg => row.reportsTo \in OrgPosts /\ position[row.reportsTo].exists
        /\ row.dept \in OrgDepts /\ department[row.dept].exists
    BY <1>1, <1>2, <1>6, <1>9 DEF CreationIsSound, Saving, Position
  <2>2. position' = [position EXCEPT ![call.id] = row] /\ department' = department
    BY <1>9 DEF SaveOrgChange
  <2> HIDE DEF row
  <2>3. /\ position' \in [OrgPosts -> Position]
        /\ \A q \in OrgPosts : position[q].exists => position'[q].exists
        /\ \A q \in OrgPosts : position'[q].exists => position[q].exists \/ (Saving(c, "position_created") /\ q = call.id)
        /\ Happened' \subseteq Happened \cup {<<call.kind, call.id>>}
    BY <1>1, <1>2, <1>9, <2>1, <2>2 DEF Happened, Saving
  <2>4. OrgStructureTypeOK'
    BY <1>1, <1>3, <1>5, <2>1, <2>2, <2>3 DEF OrgInv, OrgStructureTypeOK
  <2>5. SuperiorsExist' /\ CommandChainEnds'
    BY <2>1, <2>2, NewPositionClosesNoRing
  <2>6. \A d \in OrgCalls : CreationIsSound(d)'
    BY <1>5, <2>2, <2>3, OthersStaySound
  <2>7. Recording(<<call.kind, call.id>>)'
    BY <1>5 DEF Recording
  <2>8. ChangesAreRecorded'
    BY <1>2, <1>3, <1>5, <2>3, <2>7, RecordsAreKept
  <2> QED BY <2>4, <2>5, <2>6, <2>8 DEF OrgInv
<1> QED BY <1>2, <1>7, <1>8, <1>9 DEF OrgChanges

\* Every step of the specification keeps the inductive invariant.
LEMMA OrgNextInv == OrgInv /\ [OrgStructureNext]_orgVars => OrgInv'
<1> SUFFICES ASSUME OrgInv, [OrgStructureNext]_orgVars PROVE OrgInv'
  OBVIOUS
<1>1. ASSUME NEW c \in OrgCalls, NEW d \in OrgDepts, NEW u \in OrgDepts \cup {NoOrg}, CreateDepartment(c, d, u)
      PROVE  OrgInv'
  <2>1. "department_created" \in OrgChanges /\ NoOrg \in OrgDepts \cup {NoOrg} /\ OrgStart(c, "department_created", d, u, NoOrg)
    BY <1>1 DEF OrgChanges, CreateDepartment
  <2> QED BY <2>1, OrgStartKeeps
<1>2. ASSUME NEW c \in OrgCalls, NEW p \in OrgPosts, NEW d \in OrgDepts, NEW b \in OrgPosts \cup {NoOrg},
             CreatePosition(c, p, d, b)
      PROVE  OrgInv'
  <2>1. "position_created" \in OrgChanges /\ OrgStart(c, "position_created", p, b, d)
    BY <1>2 DEF OrgChanges, CreatePosition
  <2> QED BY <1>2, <2>1, OrgStartKeeps DEF CreatePosition
<1>3. ASSUME NEW c \in OrgCalls, NEW d \in OrgDepts, DeactivateDepartment(c, d) PROVE OrgInv'
  <2>1. "department_deactivated" \in OrgChanges /\ OrgStart(c, "department_deactivated", d, NoOrg, NoOrg)
    BY <1>3 DEF OrgChanges, DeactivateDepartment
  <2> QED BY <2>1, OrgStartKeeps
<1>4. ASSUME NEW c \in OrgCalls, SaveOrgChange(c) PROVE OrgInv'
  BY <1>4, OrgSaveKeeps
<1>5. ASSUME NEW c \in OrgCalls, RecordChange(c) \/ AbortOrgCall(c) PROVE OrgInv'
  BY <1>5, OrgEndsKeep
<1>6. CASE UNCHANGED orgVars
  BY <1>6 DEF orgVars, OrgInv, OrgStructureTypeOK, SuperiorsExist, CreationIsSound, Saving, CommandChainEnds, ChangesAreRecorded
<1> QED BY <1>1, <1>2, <1>3, <1>4, <1>5, <1>6 DEF OrgStructureNext

\* For any set of positions and departments and any number of calls, the command chain
\* has an end above every position, the rows refer to rows that exist, and every change
\* is recorded, is about to be, or was cut short (org.service.ts).
THEOREM OrganisationIsSound ==
  OrgStructureSpec => [](OrgStructureTypeOK /\ SuperiorsExist /\ CommandChainEnds /\ ChangesAreRecorded)
<1>1. OrgInv => OrgStructureTypeOK /\ SuperiorsExist /\ CommandChainEnds /\ ChangesAreRecorded
  BY DEF OrgInv
<1> QED BY <1>1, OrgInitInv, OrgNextInv, PTL DEF OrgStructureSpec

-----------------------------------------------------------------------------
\* The parts of the model as a whole: a step of it is a step of a part or leaves the
\* part's variables alone.
AuthoritySteps ==
  /\ [SessionsNext]_sessionVars /\ [MfaNext]_mfaVars
  /\ [UserPositionsNext]_userVars /\ [OrgStructureNext]_orgVars

\* A step of the sum is a step of each part of authority, or leaves it alone.
LEMMA PeopleStepsAreAuthoritySteps == [MCNext]_allVars => AuthoritySteps
<1>1. CASE UNCHANGED allVars
  BY <1>1 DEF allVars, AuthoritySteps
<1>2. CASE MCNext
  BY <1>2 DEF MCNext, OthersWait, Only, AuthoritySteps
<1> QED BY <1>1, <1>2

\* What gives authority is consistent, whatever the constants: a second factor has its
\* backup codes, an offboarded user holds no position, and the command chain ends and
\* records its changes.
THEOREM PeopleAuthorityIsConsistent == MCSpec => []AuthorityIsConsistent
<1> DEFINE Inv == MfaInv /\ PositionsInv /\ OrgInv
<1>1. MCInit => Inv
  BY MfaInitInv, PositionsInitInv, OrgInitInv DEF MCInit
<1>2. Inv /\ [MCNext]_allVars => Inv'
  BY PeopleStepsAreAuthoritySteps, MfaNextInv, PositionsNextInv, OrgNextInv DEF AuthoritySteps
<1>3. Inv => AuthorityIsConsistent
  BY ReleasedHaveEnded DEF MfaInv, OrgInv, AuthorityIsConsistent
<1> HIDE DEF Inv
<1> QED BY <1>1, <1>2, <1>3, PTL DEF MCSpec

\* The same for the sessions among the other parts.
THEOREM PeopleSessionsAreSafe == MCSpec => []SessionsAreSafe
<1>1. MCInit => SessionsInv
  BY SessionsInitInv DEF MCInit
<1>2. SessionsInv /\ [MCNext]_allVars => SessionsInv'
  BY PeopleStepsAreAuthoritySteps, SessionsNextInv DEF AuthoritySteps
<1>3. SessionsInv => SessionsAreSafe
  BY DEF SessionsInv
<1> QED BY <1>1, <1>2, <1>3, PTL DEF MCSpec

-----------------------------------------------------------------------------
\* Maps.
\* Whatever of a view outside the map is under way was asked for by its present filter.
RequestsAreCurrent == \A a \in requested : a.view \in OnTheMap \/ a.query = wanted[a.view]

\* Unless two polls ran at once there is one, and what it carries is no older than what
\* the store has held; nothing is newer than what the server would answer.
PollIsNewest ==
  polled \/
    /\ riskNewest \in [HazardLayers -> Nat]
    /\ \A h \in HazardLayers : riskNewest[h] <= forecast[h]
    /\ \A p \in polls :
         /\ p = [nr |-> p.nr, rest |-> p.rest, answered |-> p.answered, carries |-> p.carries]
         /\ \A q \in polls : p = q
         /\ p.answered /\ Head(p.rest) \in HazardLayers =>
              /\ p.carries \in Nat /\ riskNewest[Head(p.rest)] <= p.carries
              /\ p.carries <= forecast[Head(p.rest)]

\* What an answer brings was pending when it was made.
LoadsAreOfDecidable == \A a \in loads : a.brings \subseteq pending \cup decidedElsewhere \cup decidedHere

ViewTypes ==
  /\ wanted \in [Views -> Queries] /\ shown \in [Views -> SUBSET Queries]
  /\ \A a \in requested : a.view \in Views /\ a.query \in Queries /\ a.nr \in Nat
  /\ layered \subseteq OnTheMap

MapTypes ==
  /\ ViewTypes
  /\ mapMoves \in Nat
  /\ forecast \in [HazardLayers -> Nat]
  /\ \A h \in HazardLayers : forecast[h] <= mapMoves
  /\ polled \in BOOLEAN
  /\ liveIncidents = [i \in PortalIncidents |-> liveIncidents[i]]

\* The inductive invariant.
MapsInv ==
  /\ MapTypes
  /\ RequestsAreCurrent /\ ViewsShowTheirQuery
  /\ LayersFollowThePanel
  /\ PollIsNewest /\ ForecastsDoNotAge
  /\ LoadsAreOfDecidable /\ ReviewIsOpen
  /\ PortalMapAgrees

ViewsInv == RequestsAreCurrent /\ ViewsShowTheirQuery
RisksInv == PollIsNewest /\ ForecastsDoNotAge
ReviewsInv == LoadsAreOfDecidable /\ ReviewIsOpen

\* The invariant of the maps holds at the start.
LEMMA MapsInitInv == MapClientInit => MapsInv
<1> SUFFICES ASSUME MapClientInit PROVE MapsInv
  OBVIOUS
<1>1. MapTypes
  <2>1. ViewTypes
    BY MapClientAssumption DEF MapClientInit, ViewTypes, Views, OnTheMap
  <2>2. mapMoves \in Nat /\ polled \in BOOLEAN /\ liveIncidents = [i \in PortalIncidents |-> liveIncidents[i]]
    BY DEF MapClientInit
  <2>3. forecast \in [HazardLayers -> Nat]
        /\ \A h \in HazardLayers : forecast[h] <= mapMoves
    BY DEF MapClientInit
  <2> QED BY <2>1, <2>2, <2>3 DEF MapTypes
<1>2. RequestsAreCurrent /\ ViewsShowTheirQuery
  BY DEF MapClientInit, RequestsAreCurrent, ViewsShowTheirQuery, Views, OnTheMap
<1>3. PollIsNewest /\ ForecastsDoNotAge
  BY DEF MapClientInit, PollIsNewest, ForecastsDoNotAge
<1>4. LayersFollowThePanel /\ LoadsAreOfDecidable /\ ReviewIsOpen
  BY DEF MapClientInit, LayersFollowThePanel, LoadsAreOfDecidable, ReviewIsOpen
<1>5. PortalMapAgrees
  BY DEF MapClientInit, PortalMapAgrees
<1> QED BY <1>1, <1>2, <1>3, <1>4, <1>5 DEF MapsInv

\* A step that leaves a group of variables alone keeps what is said of them.
LEMMA ViewsKept == ASSUME MapsInv, UNCHANGED viewVars PROVE ViewsInv'
BY DEF MapsInv, ViewsInv, viewVars, RequestsAreCurrent, ViewsShowTheirQuery

\* What does not touch the layers keeps them.
LEMMA LayersKept == ASSUME MapsInv, UNCHANGED layerVars PROVE LayersFollowThePanel'
BY DEF MapsInv, layerVars, LayersFollowThePanel

\* What does not touch the forecasts keeps them.
LEMMA RisksKept == ASSUME MapsInv, UNCHANGED riskVars PROVE RisksInv'
BY DEF MapsInv, RisksInv, riskVars, PollIsNewest, ForecastsDoNotAge

\* What does not touch the review panel keeps it.
LEMMA ReviewsKept == ASSUME MapsInv, UNCHANGED reviewVars PROVE ReviewsInv'
BY DEF MapsInv, ReviewsInv, reviewVars, LoadsAreOfDecidable, ReviewIsOpen

\* What does not touch the portal's map keeps it.
LEMMA PortalMapKept == ASSUME MapsInv, UNCHANGED portalMapVars PROVE PortalMapAgrees'
BY DEF MapsInv, portalMapVars, PortalMapAgrees

\* The types of the variables a step leaves alone.
LEMMA MapTypesKept ==
  ASSUME MapsInv, UNCHANGED <<viewVars, riskVars, portalMapVars>>, mapMoves' \in Nat, mapMoves <= mapMoves'
  PROVE  MapTypes'
BY DEF MapsInv, MapTypes, ViewTypes, viewVars, riskVars, portalMapVars

\* What sending requests leaves under way.
LEMMA RequestsSent ==
  ASSUME NEW vs, NEW q, NEW earlier, SendRequests(vs, q, earlier)
  PROVE  /\ \A w \in vs : \E z \in requested' : z.view = w
         /\ \A z \in requested' : z \in earlier \/ (z.view \in vs /\ z.query = q /\ z.nr = mapMoves')
         /\ earlier \subseteq requested'
         /\ behind' = behind \ vs
<1>1. ASSUME NEW w \in vs PROVE \E z \in requested' : z.view = w
  <2>1. [view |-> w, query |-> q, nr |-> mapMoves'] \in requested'
    BY DEF SendRequests
  <2> QED BY <2>1
<1> QED BY <1>1 DEF SendRequests

\* The steps of the views.
ViewStep ==
  \/ \E q \in Queries : FetchIncidents(q) \/ FetchTimeline(q) \/ MoveViewport(q)
  \/ \E v \in Views : SwitchOn(v) \/ SwitchOff(v)
  \/ \E a \in requested : TakeView(a) \/ ViewFails(a)

\* A step of the views keeps what is known of them and leaves the rest.
LEMMA ViewStepInv == ASSUME MapsInv, ViewStep PROVE MapTypes' /\ ViewsInv' /\ UNCHANGED <<layerVars, riskVars, reviewVars, portalMapVars>>
<1>t. MapTypes /\ ViewTypes
  BY DEF MapsInv, MapTypes
<1>i. RequestsAreCurrent /\ ViewsShowTheirQuery
  BY DEF MapsInv
<1>1. UNCHANGED <<layerVars, riskVars, reviewVars, portalMapVars>>
  BY DEF ViewStep, FetchIncidents, FetchTimeline, MoveViewport, SwitchOn, SwitchOff, TakeView, ViewFails
<1>3. ASSUME NEW q \in Queries, FetchIncidents(q) PROVE mapMoves' \in Nat /\ mapMoves <= mapMoves' /\ ViewTypes' /\ ViewsInv'
  <2>m. mapMoves' \in Nat /\ mapMoves <= mapMoves'
    BY <1>3, <1>t DEF FetchIncidents, MapMove, MapTypes
  <2>0. /\ \A w \in {"incidents"} : \E z \in requested' : z.view = w
        /\ \A z \in requested' : z \in {a \in requested : a.view # "incidents"} \/ (z.view \in {"incidents"} /\ z.query = q /\ z.nr = mapMoves')
        /\ {a \in requested : a.view # "incidents"} \subseteq requested'
        /\ behind' = behind \ {"incidents"}
    BY <1>3, RequestsSent DEF FetchIncidents
  <2>1. ViewTypes'
    BY <1>3, <2>0, <2>m, <1>t DEF FetchIncidents, MapMove, ViewTypes, MapTypes, Views, OnTheMap
  <2>2. RequestsAreCurrent'
    BY <1>3, <2>0, <1>t, <1>i DEF FetchIncidents, MapMove, ViewTypes, RequestsAreCurrent, Views, OnTheMap
  <2>3. ViewsShowTheirQuery'
    <3> SUFFICES ASSUME NEW w \in Views, (\A z \in requested : z.view # w)', (w \notin behind)', (shown[w] # {})'
                 PROVE  (shown[w] = {wanted[w]})' \/ (w \in OnTheMap \ layered)'
      BY DEF ViewsShowTheirQuery
    <3> QED BY <1>3, <2>0, <1>t, <1>i DEF FetchIncidents, MapMove, ViewTypes, RequestsAreCurrent, ViewsShowTheirQuery, OnTheMap
  <2> QED BY <2>m, <2>1, <2>2, <2>3 DEF ViewsInv
<1>4. ASSUME NEW q \in Queries, FetchTimeline(q) PROVE mapMoves' \in Nat /\ mapMoves <= mapMoves' /\ ViewTypes' /\ ViewsInv'
  <2>m. mapMoves' \in Nat /\ mapMoves <= mapMoves'
    BY <1>4, <1>t DEF FetchTimeline, MapMove, MapTypes
  <2>0. /\ \A w \in {"timeline"} : \E z \in requested' : z.view = w
        /\ \A z \in requested' : z \in {a \in requested : a.view # "timeline"} \/ (z.view \in {"timeline"} /\ z.query = q /\ z.nr = mapMoves')
        /\ {a \in requested : a.view # "timeline"} \subseteq requested'
        /\ behind' = behind \ {"timeline"}
    BY <1>4, RequestsSent DEF FetchTimeline
  <2>1. ViewTypes'
    BY <1>4, <2>0, <2>m, <1>t DEF FetchTimeline, MapMove, ViewTypes, MapTypes, Views, OnTheMap
  <2>2. RequestsAreCurrent'
    BY <1>4, <2>0, <1>t, <1>i DEF FetchTimeline, MapMove, ViewTypes, RequestsAreCurrent, Views, OnTheMap
  <2>3. ViewsShowTheirQuery'
    <3> SUFFICES ASSUME NEW w \in Views, (\A z \in requested : z.view # w)', (w \notin behind)', (shown[w] # {})'
                 PROVE  (shown[w] = {wanted[w]})' \/ (w \in OnTheMap \ layered)'
      BY DEF ViewsShowTheirQuery
    <3> QED BY <1>4, <2>0, <1>t, <1>i DEF FetchTimeline, MapMove, ViewTypes, RequestsAreCurrent, ViewsShowTheirQuery, OnTheMap
  <2> QED BY <2>m, <2>1, <2>2, <2>3 DEF ViewsInv
<1>5. ASSUME NEW q \in Queries, MoveViewport(q) PROVE mapMoves' \in Nat /\ mapMoves <= mapMoves' /\ ViewTypes' /\ ViewsInv'
  <2>m. mapMoves' \in Nat /\ mapMoves <= mapMoves'
    BY <1>5, <1>t DEF MoveViewport, MapMove, MapTypes
  <2>0. /\ \A w \in layered : \E z \in requested' : z.view = w
        /\ \A z \in requested' : z \in requested \/ (z.view \in layered /\ z.query = q /\ z.nr = mapMoves')
        /\ requested \subseteq requested'
        /\ behind' = behind \ layered
    BY <1>5, RequestsSent DEF MoveViewport
  <2>1. ViewTypes'
    BY <1>5, <2>0, <2>m, <1>t DEF MoveViewport, MapMove, ViewTypes, MapTypes, Views, OnTheMap
  <2>2. RequestsAreCurrent'
    BY <1>5, <2>0, <1>t, <1>i DEF MoveViewport, MapMove, ViewTypes, RequestsAreCurrent, Views, OnTheMap
  <2>3. ViewsShowTheirQuery'
    <3> SUFFICES ASSUME NEW w \in Views, (\A z \in requested : z.view # w)', (w \notin behind)', (shown[w] # {})'
                 PROVE  (shown[w] = {wanted[w]})' \/ (w \in OnTheMap \ layered)'
      BY DEF ViewsShowTheirQuery
    <3> QED BY <1>5, <2>0, <1>t, <1>i DEF MoveViewport, MapMove, ViewTypes, RequestsAreCurrent, ViewsShowTheirQuery, OnTheMap
  <2> QED BY <2>m, <2>1, <2>2, <2>3 DEF ViewsInv
<1>6. ASSUME NEW v \in Views, SwitchOn(v) PROVE mapMoves' \in Nat /\ mapMoves <= mapMoves' /\ ViewTypes' /\ ViewsInv'
  <2>m. mapMoves' \in Nat /\ mapMoves <= mapMoves'
    BY <1>6, <1>t DEF SwitchOn, MapMove, MapTypes
  <2>0. /\ \A w \in {v} : \E z \in requested' : z.view = w
        /\ \A z \in requested' : z \in requested \/ (z.view \in {v} /\ z.query = wanted[v] /\ z.nr = mapMoves')
        /\ requested \subseteq requested'
        /\ behind' = behind \ {v}
    BY <1>6, RequestsSent DEF SwitchOn
  <2>1. ViewTypes'
    BY <1>6, <2>0, <2>m, <1>t DEF SwitchOn, MapMove, ViewTypes, MapTypes, Views, OnTheMap
  <2>2. RequestsAreCurrent'
    BY <1>6, <2>0, <1>t, <1>i DEF SwitchOn, MapMove, ViewTypes, RequestsAreCurrent, Views, OnTheMap
  <2>3. ViewsShowTheirQuery'
    <3> SUFFICES ASSUME NEW w \in Views, (\A z \in requested : z.view # w)', (w \notin behind)', (shown[w] # {})'
                 PROVE  (shown[w] = {wanted[w]})' \/ (w \in OnTheMap \ layered)'
      BY DEF ViewsShowTheirQuery
    <3> QED BY <1>6, <2>0, <1>t, <1>i DEF SwitchOn, MapMove, ViewTypes, RequestsAreCurrent, ViewsShowTheirQuery, OnTheMap
  <2> QED BY <2>m, <2>1, <2>2, <2>3 DEF ViewsInv
<1>7. ASSUME NEW v \in Views, SwitchOff(v) PROVE mapMoves' \in Nat /\ mapMoves <= mapMoves' /\ ViewTypes' /\ ViewsInv'
  <2>m. mapMoves' \in Nat /\ mapMoves <= mapMoves'
    BY <1>7, <1>t DEF SwitchOff, MapMove, MapTypes
  <2>1. ViewTypes'
    BY <1>7, <1>t DEF SwitchOff, MapMove, ViewTypes, MapTypes, Views, OnTheMap
  <2>2. RequestsAreCurrent'
    BY <1>7, <1>t, <1>i DEF SwitchOff, MapMove, ViewTypes, RequestsAreCurrent, Views, OnTheMap
  <2>3. ViewsShowTheirQuery'
    <3> SUFFICES ASSUME NEW w \in Views, (\A z \in requested : z.view # w)', (w \notin behind)', (shown[w] # {})'
                 PROVE  (shown[w] = {wanted[w]})' \/ (w \in OnTheMap \ layered)'
      BY DEF ViewsShowTheirQuery
    <3> QED BY <1>7, <1>t, <1>i DEF SwitchOff, MapMove, ViewTypes, RequestsAreCurrent, ViewsShowTheirQuery, OnTheMap
  <2> QED BY <2>m, <2>1, <2>2, <2>3 DEF ViewsInv
<1>8. ASSUME NEW a \in requested, TakeView(a) PROVE mapMoves' \in Nat /\ mapMoves <= mapMoves' /\ ViewTypes' /\ ViewsInv'
  <2>m. mapMoves' \in Nat /\ mapMoves <= mapMoves'
    BY <1>8, <1>t DEF TakeView, MapMove, MapTypes
  <2>1. ViewTypes'
    BY <1>8, <1>t DEF TakeView, IsOvertaken, ViewTypes, MapTypes, Views, OnTheMap
  <2>2. RequestsAreCurrent'
    BY <1>8, <1>t, <1>i DEF TakeView, IsOvertaken, ViewTypes, RequestsAreCurrent, Views, OnTheMap
  <2>3. ViewsShowTheirQuery'
    <3> SUFFICES ASSUME NEW w \in Views, (\A z \in requested : z.view # w)', (w \notin behind)', (shown[w] # {})'
                 PROVE  (shown[w] = {wanted[w]})' \/ (w \in OnTheMap \ layered)'
      BY DEF ViewsShowTheirQuery
    <3> QED BY <1>8, <1>t, <1>i DEF TakeView, IsOvertaken, ViewTypes, RequestsAreCurrent, ViewsShowTheirQuery, OnTheMap
  <2> QED BY <2>m, <2>1, <2>2, <2>3 DEF ViewsInv
<1>9. ASSUME NEW a \in requested, ViewFails(a) PROVE mapMoves' \in Nat /\ mapMoves <= mapMoves' /\ ViewTypes' /\ ViewsInv'
  <2>m. mapMoves' \in Nat /\ mapMoves <= mapMoves'
    BY <1>9, <1>t DEF ViewFails, MapMove, MapTypes
  <2>1. ViewTypes'
    BY <1>9, <1>t DEF ViewFails, MapMove, ViewTypes, MapTypes, Views, OnTheMap
  <2>2. RequestsAreCurrent'
    BY <1>9, <1>t, <1>i DEF ViewFails, MapMove, ViewTypes, RequestsAreCurrent, Views, OnTheMap
  <2>3. ViewsShowTheirQuery'
    <3> SUFFICES ASSUME NEW w \in Views, (\A z \in requested : z.view # w)', (w \notin behind)', (shown[w] # {})'
                 PROVE  (shown[w] = {wanted[w]})' \/ (w \in OnTheMap \ layered)'
      BY DEF ViewsShowTheirQuery
    <3> QED BY <1>9, <1>t, <1>i DEF ViewFails, MapMove, ViewTypes, RequestsAreCurrent, ViewsShowTheirQuery, OnTheMap
  <2> QED BY <2>m, <2>1, <2>2, <2>3 DEF ViewsInv
<1>10. MapTypes'
  <2>1. mapMoves' \in Nat /\ mapMoves <= mapMoves'
    BY <1>3, <1>4, <1>5, <1>6, <1>7, <1>8, <1>9 DEF ViewStep
  <2>2. ViewTypes'
    BY <1>3, <1>4, <1>5, <1>6, <1>7, <1>8, <1>9 DEF ViewStep
  <2> QED BY <1>1, <1>t, <2>1, <2>2 DEF MapTypes, layerVars, riskVars, reviewVars, portalMapVars
<1> QED BY <1>1, <1>10, <1>3, <1>4, <1>5, <1>6, <1>7, <1>8, <1>9 DEF ViewStep

\* Two sets of polls of which the second is the first with one more.
LEMMA OnePoll ==
  ASSUME NEW S, NEW new, NEW T, \A x \in S : \A y \in S : x = y,
         T = S \cup new, new = {} \/ \E z : new = {z}
  PROVE  Cardinality(T) > 1 \/ \A x \in T : \A y \in T : x = y
<1>1. CASE new = {}
  BY <1>1
<1>2. CASE \E z : new = {z}
  <2>1. IsFiniteSet(S)
    <3>1. CASE S = {}
      BY <3>1, FS_EmptySet
    <3>2. CASE S # {}
      <4>1. PICK x : S = {x}
        BY <3>2
      <4> QED BY <4>1, FS_Singleton
    <3> QED BY <3>1, <3>2
  <2>2. IsFiniteSet(T)
    BY <1>2, <2>1, FS_Singleton, FS_Union
  <2>3. Cardinality(T) \in Nat
    BY <2>2, FS_CardinalityType
  <2>4. ASSUME ~(Cardinality(T) > 1) PROVE \A x \in T : \A y \in T : x = y
    <3>1. Cardinality(T) = 0 \/ Cardinality(T) = 1
      BY <2>3, <2>4
    <3>2. CASE Cardinality(T) = 0
      BY <2>2, <3>2, FS_EmptySet
    <3>3. CASE Cardinality(T) = 1
      BY <2>2, <3>3, FS_Singleton
    <3> QED BY <3>1, <3>2, <3>3
  <2> QED BY <2>4
<1> QED BY <1>1, <1>2

\* A poll that starts has no answer yet.
LEMMA PollStarts ==
  ASSUME MapsInv, NEW visible, StartPoll(visible), mapMoves' \in Nat,
         UNCHANGED <<forecast, riskShown, riskNewest>>
  PROVE  PollIsNewest' /\ ForecastsDoNotAge' /\ polled' \in BOOLEAN
<1> DEFINE poll == PollsOf(visible)
           new == IF poll.rest = <<>> THEN {} ELSE {poll}
<1>1. poll.answered = FALSE
  BY DEF PollsOf
<1>2. polls' = polls \cup new /\ polled' = (polled \/ Cardinality(polls') > 1)
  BY DEF StartPoll
<1>3. new = {} \/ \E z : new = {z}
  OBVIOUS
<1>4. \A p \in new : /\ p.answered = FALSE
                   /\ p = [nr |-> p.nr, rest |-> p.rest, answered |-> p.answered, carries |-> p.carries]
  BY <1>1 DEF PollsOf
<1> HIDE DEF new, poll
<1>i. PollIsNewest /\ ForecastsDoNotAge /\ polled \in BOOLEAN
  BY DEF MapsInv, MapTypes
<1>5. polled \/ Cardinality(polls') > 1 \/ \A x \in polls' : \A y \in polls' : x = y
  <2>1. polled \/ \A x \in polls : \A y \in polls : x = y
    BY <1>i DEF PollIsNewest
  <2> QED BY <1>2, <1>3, <2>1, OnePoll
<1>6. polled' \/ \A x \in polls' : \A y \in polls' : x = y
  BY <1>2, <1>5
<1>7. polled => polled'
  BY <1>2
<1> QED BY <1>2, <1>4, <1>6, <1>7, <1>i DEF PollIsNewest, ForecastsDoNotAge

\* A poll that is answered, and one that goes on to the next hazard.
Answered(p, answered, carries) == [p EXCEPT !.answered = answered, !.carries = carries]
GoneOn(p, rest, answered, carries) == [p EXCEPT !.rest = rest, !.answered = answered, !.carries = carries]

\* The fields of a poll that has begun, been sent or been answered.
LEMMA PollFields ==
  ASSUME NEW p, p = [nr |-> p.nr, rest |-> p.rest, answered |-> p.answered, carries |-> p.carries],
         NEW rest, NEW answered, NEW carries
  PROVE  /\ Answered(p, answered, carries)
              = [nr |-> p.nr, rest |-> p.rest, answered |-> answered, carries |-> carries]
         /\ GoneOn(p, rest, answered, carries)
              = [nr |-> p.nr, rest |-> rest, answered |-> answered, carries |-> carries]
<1> DEFINE q == [p EXCEPT !.answered = answered]
           r == [p EXCEPT !.rest = rest]
           s == [r EXCEPT !.answered = answered]
<1>1. q = [nr |-> p.nr, rest |-> p.rest, answered |-> answered, carries |-> p.carries]
  OBVIOUS
<1>2. r = [nr |-> p.nr, rest |-> rest, answered |-> p.answered, carries |-> p.carries]
  OBVIOUS
<1>3. Answered(p, answered, carries) = [q EXCEPT !.carries = carries]
  BY DEF Answered
<1>4. GoneOn(p, rest, answered, carries) = [s EXCEPT !.carries = carries]
  BY DEF GoneOn
<1> HIDE DEF q, r
<1>5. s = [nr |-> p.nr, rest |-> rest, answered |-> answered, carries |-> p.carries]
  BY <1>2
<1> HIDE DEF s
<1>6. [q EXCEPT !.carries = carries] = [nr |-> p.nr, rest |-> p.rest, answered |-> answered, carries |-> carries]
  BY <1>1
<1>7. [s EXCEPT !.carries = carries] = [nr |-> p.nr, rest |-> rest, answered |-> answered, carries |-> carries]
  BY <1>5
<1> QED BY <1>3, <1>4, <1>6, <1>7

\* Once a hazard is done the poll goes on, without an answer, to the next one.
LEMMA PollGoesOn ==
  ASSUME MapsInv, ~polled, NEW p \in polls
  PROVE  \A k \in NextHazard(p) :
           /\ k = [nr |-> k.nr, rest |-> k.rest, answered |-> k.answered, carries |-> k.carries]
           /\ ~k.answered /\ \A q \in NextHazard(p) : k = q
<1> DEFINE rest == Tail(p.rest)
           next == GoneOn(p, rest, FALSE, 0)
<1>1. /\ p = [nr |-> p.nr, rest |-> p.rest, answered |-> p.answered, carries |-> p.carries]
      /\ \A q \in polls : p = q
  BY DEF MapsInv, PollIsNewest
<1>2. next = [nr |-> p.nr, rest |-> rest, answered |-> FALSE, carries |-> 0]
  <2>1. p = [nr |-> p.nr, rest |-> p.rest, answered |-> p.answered, carries |-> p.carries]
    BY <1>1
  <2> DEFINE none == 0
             no == FALSE
  <2> HIDE DEF rest, none, no
  <2>2. GoneOn(p, rest, no, none) = [nr |-> p.nr, rest |-> rest, answered |-> no, carries |-> none]
    BY <2>1, PollFields
  <2> QED BY <2>2 DEF none, no
<1>3. NextHazard(p) \subseteq {next}
  <2>1. polls \ {p} = {}
    BY <1>1
  <2>2. NextHazard(p) = (polls \ {p}) \cup (IF Len(p.rest) = 1 THEN {} ELSE {next})
    BY DEF NextHazard, GoneOn
  <2> QED BY <2>1, <2>2
<1> HIDE DEF next
<1>4. ~next.answered /\ next = [nr |-> next.nr, rest |-> next.rest, answered |-> next.answered, carries |-> next.carries]
  BY <1>2
<1> QED BY <1>3, <1>4

\* The steps of the layers and of the forecasts drawn in them.
LayerStep ==
  \/ LoadMap \/ \E l \in Layers : ToggleLayer(l)
  \/ PollAgain \/ \E h \in HazardLayers : Publish(h)
  \/ \E p \in polls : ServePoll(p) \/ TakePoll(p) \/ PollFails(p)

\* A step of the layers or of the forecasts keeps their invariants.
LEMMA LayerStepInv ==
  ASSUME MapsInv, LayerStep
  PROVE  /\ MapTypes' /\ LayersFollowThePanel' /\ RisksInv'
         /\ UNCHANGED <<viewVars, reviewVars, portalMapVars>>
<1>1. UNCHANGED <<viewVars, reviewVars, portalMapVars>>
  BY DEF LayerStep, LoadMap, ToggleLayer, PollAgain, Publish, ServePoll, TakePoll, PollFails
<1>t. /\ ViewTypes /\ mapMoves \in Nat /\ forecast \in [HazardLayers -> Nat]
      /\ polled \in BOOLEAN
      /\ \A h \in HazardLayers : forecast[h] <= mapMoves
      /\ liveIncidents = [i \in PortalIncidents |-> liveIncidents[i]]
  BY DEF MapsInv, MapTypes
<1>v. ViewTypes' /\ (liveIncidents = [i \in PortalIncidents |-> liveIncidents[i]])'
  BY <1>1, <1>t DEF viewVars, portalMapVars, ViewTypes
<1>i. PollIsNewest /\ ForecastsDoNotAge /\ LayersFollowThePanel
  BY DEF MapsInv
<1>2. CASE LoadMap
  <2>1. UNCHANGED <<riskVars, mapMoves>>
    BY <1>2 DEF LoadMap
  <2>2. LayersFollowThePanel'
    BY <1>2 DEF LoadMap, LayersFollowThePanel
  <2>3. RisksInv'
    BY <2>1, RisksKept
  <2> QED BY <2>1, <2>2, <2>3, <1>1, <1>t, <1>v DEF MapTypes, riskVars
<1>3. ASSUME NEW l \in Layers, ToggleLayer(l)
      PROVE  MapTypes' /\ LayersFollowThePanel' /\ RisksInv'
  <2>1. mapMoves' \in Nat /\ mapMoves <= mapMoves' /\ UNCHANGED <<forecast, riskShown, riskNewest>>
    BY <1>3, <1>t DEF ToggleLayer, MapMove
  <2>2. StartPoll(layerVisibility')
    BY <1>3 DEF ToggleLayer
  <2>3. RisksInv' /\ polled' \in BOOLEAN
    BY <2>1, <2>2, PollStarts DEF RisksInv
  <2>4. LayersFollowThePanel'
    BY <1>3, <1>i DEF ToggleLayer, LayersFollowThePanel, With
  <2>5. \A h \in HazardLayers : forecast'[h] <= mapMoves'
    BY <2>1, <1>t
  <2> QED BY <2>1, <2>3, <2>4, <2>5, <1>t, <1>v DEF MapTypes
<1>4. CASE PollAgain
  <2>1. mapMoves' \in Nat /\ mapMoves <= mapMoves' /\ UNCHANGED <<forecast, riskShown, riskNewest>>
    BY <1>4, <1>t DEF PollAgain, MapMove
  <2>2. StartPoll(layerVisibility)
    BY <1>4 DEF PollAgain
  <2>3. RisksInv' /\ polled' \in BOOLEAN
    BY <2>1, <2>2, PollStarts DEF RisksInv
  <2>4. LayersFollowThePanel'
    BY <1>4, LayersKept DEF PollAgain
  <2>5. forecast' \in [HazardLayers -> Nat] /\ \A h \in HazardLayers : forecast'[h] <= mapMoves'
    BY <2>1, <1>t
  <2>6. MapTypes'
    BY <2>1, <2>3, <2>5, <1>v DEF MapTypes
  <2> QED BY <1>1, <2>3, <2>4, <2>6
<1>5. ASSUME NEW h \in HazardLayers, Publish(h)
      PROVE  MapTypes' /\ LayersFollowThePanel' /\ RisksInv'
  <2>1. mapMoves' \in Nat /\ mapMoves <= mapMoves' /\ UNCHANGED <<riskShown, riskNewest, polls, polled>>
    BY <1>5, <1>t DEF Publish, MapMove
  <2>2. forecast' = [forecast EXCEPT ![h] = mapMoves']
    BY <1>5 DEF Publish
  <2>3. forecast' \in [HazardLayers -> Nat] /\ \A k \in HazardLayers : forecast[k] <= forecast'[k] /\ forecast'[k] <= mapMoves'
    BY <2>1, <2>2, <1>t
  <2>4. RisksInv'
    <3>1. ASSUME riskNewest \in [HazardLayers -> Nat], \A k \in HazardLayers : riskNewest[k] <= forecast[k]
          PROVE  \A k \in HazardLayers : riskNewest[k] <= forecast'[k]
      BY <3>1, <2>3, <1>t
    <3>2. ASSUME NEW p \in polls, p.carries \in Nat, NEW k \in HazardLayers, p.carries <= forecast[k]
          PROVE  p.carries <= forecast'[k]
      BY <3>2, <2>3, <1>t
    <3> QED BY <2>1, <3>1, <3>2, <1>i DEF RisksInv, PollIsNewest, ForecastsDoNotAge
  <2>5. LayersFollowThePanel'
    BY <1>5, LayersKept DEF Publish
  <2>6. polled' \in BOOLEAN /\ \A k \in HazardLayers : forecast'[k] <= mapMoves'
    BY <2>1, <2>3, <1>t
  <2> QED BY <2>6, <2>1, <2>3, <2>4, <2>5, <1>t, <1>v DEF MapTypes
<1>6. ASSUME NEW p \in polls, ServePoll(p)
      PROVE  MapTypes' /\ LayersFollowThePanel' /\ RisksInv'
  <2> DEFINE h == Head(p.rest)
             next == Answered(p, TRUE, forecast[h])
  <2>1. UNCHANGED <<forecast, riskShown, riskNewest, polled, mapMoves>> /\ polls' = (polls \ {p}) \cup {next}
    BY <1>6 DEF ServePoll, Answered
  <2>2. ASSUME ~polled PROVE PollIsNewest'
    <3>1. polls' = {next}
      BY <2>1, <2>2, <1>i DEF PollIsNewest
    <3>2. p = [nr |-> p.nr, rest |-> p.rest, answered |-> p.answered, carries |-> p.carries]
      BY <2>2, <1>i DEF PollIsNewest
    <3>3. next = [nr |-> p.nr, rest |-> p.rest, answered |-> TRUE, carries |-> forecast[h]]
      BY <3>2, PollFields
    <3> HIDE DEF next
    <3>4. /\ next = [nr |-> next.nr, rest |-> next.rest, answered |-> next.answered, carries |-> next.carries]
          /\ next.rest = p.rest /\ next.carries = forecast[h]
      BY <3>3
    <3>5. h \in HazardLayers => forecast[h] \in Nat /\ riskNewest[h] <= forecast[h] /\ forecast[h] <= forecast[h]
      BY <2>2, <1>i, <1>t DEF PollIsNewest
    <3> QED BY <2>1, <2>2, <3>1, <3>4, <3>5, <1>i DEF PollIsNewest
  <2>3. RisksInv'
    BY <2>1, <2>2, <1>i, <1>t DEF RisksInv, ForecastsDoNotAge, PollIsNewest
  <2>4. LayersFollowThePanel'
    BY <1>6, LayersKept DEF ServePoll
  <2> QED BY <2>1, <2>3, <2>4, <1>t, <1>v DEF MapTypes
<1>7. ASSUME NEW p \in polls, TakePoll(p)
      PROVE  MapTypes' /\ LayersFollowThePanel' /\ RisksInv'
  <2> DEFINE h == Head(p.rest)
  <2>1. UNCHANGED <<forecast, polled, mapMoves>> /\ p.answered /\ polls' = NextHazard(p)
    BY <1>7 DEF TakePoll
  <2>2. /\ riskShown' = [riskShown EXCEPT ![h] = p.carries]
        /\ riskNewest' = [riskNewest EXCEPT ![h] = Newer(@, p.carries)]
    BY <1>7 DEF TakePoll
  <2>3. ASSUME ~polled PROVE PollIsNewest' /\ ForecastsDoNotAge'
    <3>1. /\ riskNewest \in [HazardLayers -> Nat] /\ riskShown = riskNewest
          /\ \A k \in HazardLayers : riskNewest[k] <= forecast[k]
          /\ h \in HazardLayers => p.carries \in Nat /\ riskNewest[h] <= p.carries /\ p.carries <= forecast[h]
      <4>1. PollIsNewest /\ ~polled /\ p.answered /\ riskShown = riskNewest
        BY <2>1, <2>3, <1>i DEF ForecastsDoNotAge
      <4>2. /\ riskNewest \in [HazardLayers -> Nat]
            /\ \A k \in HazardLayers : riskNewest[k] <= forecast[k]
            /\ h \in HazardLayers => p.carries \in Nat /\ riskNewest[h] <= p.carries /\ p.carries <= forecast[h]
        BY <4>1 DEF PollIsNewest
      <4> QED BY <4>1, <4>2
    <3>2. h \in HazardLayers => Newer(riskNewest[h], p.carries) = p.carries
      BY <3>1 DEF Newer
    <3>3. riskNewest' \in [HazardLayers -> Nat] /\ riskShown' = riskNewest'
      BY <3>1, <3>2, <2>2
    <3>4. \A k \in HazardLayers : riskNewest'[k] <= forecast'[k]
      BY <3>1, <3>2, <2>1, <2>2
    <3>5. \A k \in polls' : k = [nr |-> k.nr, rest |-> k.rest, answered |-> k.answered, carries |-> k.carries]
                          /\ ~k.answered /\ \A q \in polls' : k = q
      BY <2>1, <2>3, PollGoesOn
    <3> QED BY <3>3, <3>4, <3>5 DEF PollIsNewest, ForecastsDoNotAge
  <2>4. RisksInv'
    BY <2>1, <2>3, <1>t DEF RisksInv, PollIsNewest, ForecastsDoNotAge
  <2>5. LayersFollowThePanel'
    BY <1>7, LayersKept DEF TakePoll
  <2> QED BY <2>1, <2>4, <2>5, <1>t, <1>v DEF MapTypes
<1>8. ASSUME NEW p \in polls, PollFails(p)
      PROVE  MapTypes' /\ LayersFollowThePanel' /\ RisksInv'
  <2>1. /\ UNCHANGED <<forecast, riskShown, riskNewest, polled>> /\ polls' = NextHazard(p)
        /\ mapMoves' \in Nat /\ mapMoves <= mapMoves'
    BY <1>8, <1>t DEF PollFails, MapMove
  <2>2. ~polled => \A k \in polls' :
           k = [nr |-> k.nr, rest |-> k.rest, answered |-> k.answered, carries |-> k.carries]
           /\ ~k.answered /\ \A q \in polls' : k = q
    BY <2>1, PollGoesOn
  <2>3. RisksInv'
    BY <2>1, <2>2, <1>i DEF RisksInv, PollIsNewest, ForecastsDoNotAge
  <2>4. LayersFollowThePanel'
    BY <1>8, LayersKept DEF PollFails
  <2>5. \A h \in HazardLayers : forecast'[h] <= mapMoves'
    BY <2>1, <1>t
  <2> QED BY <2>1, <2>3, <2>4, <2>5, <1>t, <1>v DEF MapTypes
<1> QED BY <1>1, <1>2, <1>3, <1>4, <1>5, <1>6, <1>7, <1>8 DEF LayerStep

\* The steps of the review panel.
ReviewStep ==
  \/ LoadPending \/ \E a \in loads : TakePending(a)
  \/ \E p \in Predictions : DecideHere(p) \/ DecideElsewhere(p)

\* A step of the review panel keeps its invariant.
LEMMA ReviewStepInv ==
  ASSUME MapsInv, ReviewStep
  PROVE  /\ MapTypes' /\ ReviewsInv'
         /\ UNCHANGED <<viewVars, layerVars, riskVars, portalMapVars>>
<1>1. UNCHANGED <<viewVars, layerVars, riskVars, portalMapVars>>
  BY DEF ReviewStep, LoadPending, TakePending, DecideHere, DecideElsewhere
<1>2. mapMoves' \in Nat /\ mapMoves <= mapMoves'
  BY DEF MapsInv, MapTypes, ReviewStep, LoadPending, TakePending, DecideHere, DecideElsewhere, MapMove
<1>3. MapTypes'
  BY <1>1, <1>2, MapTypesKept
<1>i. LoadsAreOfDecidable /\ ReviewIsOpen
  BY DEF MapsInv
<1>4. ASSUME LoadPending PROVE ReviewsInv'
  BY <1>4, <1>i DEF LoadPending, ReviewsInv, LoadsAreOfDecidable, ReviewIsOpen
<1>5. ASSUME NEW a \in loads, TakePending(a) PROVE ReviewsInv'
  <2>1. a.brings \subseteq pending \cup decidedElsewhere \cup decidedHere
    BY <1>i DEF LoadsAreOfDecidable
  <2> QED BY <1>5, <2>1, <1>i DEF TakePending, ReviewsInv, LoadsAreOfDecidable, ReviewIsOpen
<1>6. ASSUME NEW p \in Predictions, DecideHere(p) PROVE ReviewsInv'
  <2>1. pending \cup decidedElsewhere \cup decidedHere \subseteq (pending \cup decidedElsewhere \cup decidedHere)'
    BY <1>6 DEF DecideHere
  <2> QED BY <1>6, <2>1, <1>i DEF DecideHere, ReviewsInv, LoadsAreOfDecidable, ReviewIsOpen
<1>7. ASSUME NEW p \in Predictions, DecideElsewhere(p) PROVE ReviewsInv'
  <2>1. pending \cup decidedElsewhere \cup decidedHere \subseteq (pending \cup decidedElsewhere \cup decidedHere)'
    BY <1>7 DEF DecideElsewhere
  <2> QED BY <1>7, <2>1, <1>i DEF DecideElsewhere, ReviewsInv, LoadsAreOfDecidable, ReviewIsOpen
<1> QED BY <1>1, <1>3, <1>4, <1>5, <1>6, <1>7 DEF ReviewStep

\* The steps of the portal's map page.
PortalMapStep ==
  \/ OpenMapPage \/ ReloadIncidents \/ LoadPortalMap
  \/ \E i \in PortalIncidents : UpsertIncident(i) \/ SelectIncident(i)
  \/ \E o \in Overlays : ToggleOverlay(o)

\* A step of the portal's map keeps its agreement.
LEMMA PortalMapStepInv ==
  ASSUME MapsInv, PortalMapStep
  PROVE  /\ MapTypes' /\ PortalMapAgrees'
         /\ UNCHANGED <<viewVars, layerVars, riskVars, reviewVars>>
<1>1. UNCHANGED <<viewVars, layerVars, riskVars, reviewVars>>
  BY DEF PortalMapStep, OpenMapPage, ReloadIncidents, LoadPortalMap, UpsertIncident, SelectIncident, ToggleOverlay
<1>2. mapMoves' \in Nat /\ mapMoves <= mapMoves'
  BY DEF MapsInv, MapTypes, PortalMapStep, OpenMapPage, ReloadIncidents, LoadPortalMap, UpsertIncident,
    SelectIncident, ToggleOverlay, MapMove
<1>i. PortalMapAgrees /\ liveIncidents = [i \in PortalIncidents |-> liveIncidents[i]]
  BY DEF MapsInv, MapTypes
<1>3. (liveIncidents = [i \in PortalIncidents |-> liveIncidents[i]])'
  <2>1. CASE UNCHANGED liveIncidents
    BY <2>1, <1>i
  <2>2. ASSUME NEW i \in PortalIncidents, liveIncidents' = [liveIncidents EXCEPT ![i] = mapMoves']
        PROVE  (liveIncidents = [k \in PortalIncidents |-> liveIncidents[k]])'
    <3>1. liveIncidents' = [k \in PortalIncidents |-> IF k = i THEN mapMoves' ELSE liveIncidents[k]]
      BY <2>2, <1>i
    <3> QED BY <3>1
  <2> QED BY <2>1, <2>2 DEF PortalMapStep, OpenMapPage, ReloadIncidents, LoadPortalMap, UpsertIncident,
    SelectIncident, ToggleOverlay
<1>4. MapTypes'
  BY <1>1, <1>2, <1>3 DEF MapsInv, MapTypes, ViewTypes, viewVars, layerVars, riskVars, reviewVars
<1>5. ASSUME OpenMapPage PROVE PortalMapAgrees'
  BY <1>5, <1>i DEF OpenMapPage, PortalMapAgrees
<1>6. ASSUME ReloadIncidents PROVE PortalMapAgrees'
  BY <1>6, <1>i DEF ReloadIncidents, Recreate, PortalMapAgrees
<1>7. ASSUME LoadPortalMap PROVE PortalMapAgrees'
  BY <1>7, <1>i DEF LoadPortalMap, PortalMapAgrees
<1>8. ASSUME NEW i \in PortalIncidents, UpsertIncident(i) PROVE PortalMapAgrees'
  <2>1. portalMap' = "loading" /\ liveIncidents' = [liveIncidents EXCEPT ![i] = mapMoves'] /\ UNCHANGED reloaded
    BY <1>8 DEF UpsertIncident, Recreate
  <2>2. CASE selectedIncident.id = i
    <3>1. selectedIncident' = [id |-> i, version |-> mapMoves']
      BY <1>8, <2>2 DEF UpsertIncident
    <3>2. liveIncidents'[i] = mapMoves'
      BY <2>1, <1>i
    <3>3. selectedIncident'.version = liveIncidents'[selectedIncident'.id]
      BY <3>1, <3>2
    <3> QED BY <2>1, <3>3 DEF PortalMapAgrees
  <2>3. CASE selectedIncident.id # i
    <3>1. UNCHANGED selectedIncident
      BY <1>8, <2>3 DEF UpsertIncident
    <3>2. liveIncidents'[selectedIncident.id] = liveIncidents[selectedIncident.id]
      BY <2>1, <2>3, <1>i
    <3> QED BY <2>1, <3>1, <3>2, <1>i DEF PortalMapAgrees
  <2> QED BY <2>2, <2>3
<1>9. ASSUME NEW i \in PortalIncidents, SelectIncident(i) PROVE PortalMapAgrees'
  <2>1. UNCHANGED <<liveIncidents, portalMap, overlays, overlaysDrawn, overlaysLost>>
    BY <1>9 DEF SelectIncident
  <2>2. selectedIncident' = [id |-> i, version |-> liveIncidents[i]] \/ selectedIncident' = Nothing
    BY <1>9 DEF SelectIncident
  <2>3. selectedIncident' # Nothing => selectedIncident'.version = liveIncidents'[selectedIncident'.id]
    BY <2>1, <2>2
  <2> QED BY <2>1, <2>3, <1>i DEF PortalMapAgrees
<1>10. ASSUME NEW o \in Overlays, ToggleOverlay(o) PROVE PortalMapAgrees'
  <2>1. UNCHANGED <<liveIncidents, selectedIncident, reloaded, portalMap>>
    BY <1>10 DEF ToggleOverlay
  <2>2. portalMap = "loaded" => \A p \in Overlays \ overlaysLost' : p \in overlaysDrawn' <=> p \in overlays'
    BY <1>10, <1>i DEF ToggleOverlay, PortalMapAgrees, With
  <2> QED BY <2>1, <2>2, <1>i DEF PortalMapAgrees
<1> QED BY <1>1, <1>4, <1>5, <1>6, <1>7, <1>8, <1>9, <1>10 DEF PortalMapStep

\* Every step of the maps keeps the invariant.
LEMMA MapsNextInv == MapsInv /\ [MapClientNext]_mapVars => MapsInv'
<1> SUFFICES ASSUME MapsInv, [MapClientNext]_mapVars PROVE MapsInv'
  OBVIOUS
<1>1. CASE ViewStep
  <2>1. MapTypes' /\ ViewsInv' /\ UNCHANGED <<layerVars, riskVars, reviewVars, portalMapVars>>
    BY <1>1, ViewStepInv
  <2> QED BY <2>1, LayersKept, RisksKept, ReviewsKept, PortalMapKept DEF MapsInv, ViewsInv, RisksInv, ReviewsInv
<1>2. CASE LayerStep
  <2>1. MapTypes' /\ LayersFollowThePanel' /\ RisksInv' /\ UNCHANGED <<viewVars, reviewVars, portalMapVars>>
    BY <1>2, LayerStepInv
  <2> QED BY <2>1, ViewsKept, ReviewsKept, PortalMapKept DEF MapsInv, ViewsInv, RisksInv, ReviewsInv
<1>3. CASE ReviewStep
  <2>1. MapTypes' /\ ReviewsInv' /\ UNCHANGED <<viewVars, layerVars, riskVars, portalMapVars>>
    BY <1>3, ReviewStepInv
  <2> QED BY <2>1, ViewsKept, LayersKept, RisksKept, PortalMapKept DEF MapsInv, ViewsInv, RisksInv, ReviewsInv
<1>4. CASE PortalMapStep
  <2>1. MapTypes' /\ PortalMapAgrees' /\ UNCHANGED <<viewVars, layerVars, riskVars, reviewVars>>
    BY <1>4, PortalMapStepInv
  <2> QED BY <2>1, ViewsKept, LayersKept, RisksKept, ReviewsKept DEF MapsInv, ViewsInv, RisksInv, ReviewsInv
<1>5. CASE UNCHANGED mapVars
  <2>1. UNCHANGED <<viewVars, layerVars, riskVars, reviewVars, portalMapVars>> /\ UNCHANGED mapMoves
    BY <1>5 DEF mapVars
  <2>2. MapTypes'
    BY <2>1, MapTypesKept DEF MapsInv, MapTypes
  <2> QED BY <2>1, <2>2, ViewsKept, LayersKept, RisksKept, ReviewsKept, PortalMapKept DEF MapsInv, ViewsInv, RisksInv, ReviewsInv
<1> QED BY <1>1, <1>2, <1>3, <1>4, <1>5 DEF MapClientNext, ViewStep, LayerStep, ReviewStep, PortalMapStep

\* What the maps in the browser show.
THEOREM MapsShowWhatWasAsked ==
  MapClientSpec => []( /\ ViewsShowTheirQuery /\ LayersFollowThePanel /\ ForecastsDoNotAge
                       /\ ReviewIsOpen /\ PortalMapAgrees )
<1>1. MapsInv => ViewsShowTheirQuery /\ LayersFollowThePanel /\ ForecastsDoNotAge /\ ReviewIsOpen /\ PortalMapAgrees
  BY DEF MapsInv
<1> QED BY MapsInitInv, MapsNextInv, <1>1, PTL DEF MapClientSpec

-----------------------------------------------------------------------------
\* A non-empty set of numbers up to n has a greatest one.
LEMMA GreatestOf ==
  ASSUME NEW n \in Nat, NEW S \in SUBSET (0..n), S # {}
  PROVE  \E x \in S : \A y \in S : y <= x
<1> DEFINE T == {n - x : x \in S}
<1>1. T \subseteq Nat /\ T # {}
  <2>1. \A x \in S : n - x \in Nat
    OBVIOUS
  <2> QED BY <2>1
<1>2. PICK y \in T : \A z \in T : ~ (<<z, y>> \in OpToRel(<, Nat))
  <2> HIDE DEF T
  <2> QED BY <1>1, NatLessThanWellFounded, WFMin
<1>3. PICK x \in S : y = n - x
  OBVIOUS
<1>4. \A w \in S : w <= x
  <2> SUFFICES ASSUME NEW w \in S PROVE w <= x
    OBVIOUS
  <2>1. ~ (<<n - w, y>> \in OpToRel(<, Nat)) /\ n - w \in Nat /\ y \in Nat
    BY <1>1, <1>2
  <2>2. ~ (n - w < y)
    BY <2>1 DEF OpToRel
  <2> QED BY <1>3, <2>2
<1> QED BY <1>4

\* An event is appended, or taken.
LEMMA WireGrows ==
  ASSUME NEW S, NEW q \in Seq(S), NEW e \in S
  PROVE  LET r == Append(q, e) IN
         /\ r \in Seq(S) /\ Len(r) = Len(q) + 1 /\ DOMAIN r = 1..(Len(q) + 1) /\ Len(q) \in Nat
         /\ r[Len(q) + 1] = e
         /\ DOMAIN q = 1..Len(q) /\ \A j \in 1..Len(q) : r[j] = q[j]
OBVIOUS

\* The first message is taken.
LEMMA WireShrinks ==
  ASSUME NEW S, NEW q \in Seq(S), q # <<>>
  PROVE  /\ Tail(q) \in Seq(S) /\ Len(q) \in Nat /\ Len(q) >= 1
         /\ Head(q) = q[1] /\ Head(q) \in S
         /\ DOMAIN q = 1..Len(q) /\ DOMAIN Tail(q) = 1..(Len(q) - 1)
         /\ \A j \in 1..(Len(q) - 1) : Tail(q)[j] = q[j + 1]
OBVIOUS

-----------------------------------------------------------------------------
\* The thread.
ThreadTypes ==
  /\ body \in [Messages -> Bodies] /\ shownBody \in [Messages -> Bodies]
  /\ wire \in [RoomSockets -> Seq(ThreadEvent)] /\ ownChanges \subseteq ThreadEvent
  /\ link \in [RoomSockets -> Links]
  /\ markedRead \in 0..MaxMessages

\* What an event says of its message was so once.
EventHolds(e) ==
  /\ e.body # 0 /\ e.body <= body[e.id]
  /\ e.type = "created" => e.body = 1
  /\ e.type = "deleted" => e.body = Gone

EventsHold ==
  /\ \A s \in RoomSockets : \A i \in DOMAIN wire[s] : EventHolds(wire[s][i])
  /\ \A e \in ownChanges : EventHolds(e) /\ (e.type # "created" => shownBody[e.id] # 0)

\* Only a socket in the room has events under way, and of each message the last of
\* them says what is so now.
OnlyJoinedCarry == \A s \in RoomSockets : link[s] # "joined" => wire[s] = <<>>

LastIsCurrent ==
  \A s \in RoomSockets : \A i \in DOMAIN wire[s] :
    \/ wire[s][i].body = body[wire[s][i].id]
    \/ \E j \in DOMAIN wire[s] : i < j /\ wire[s][j].id = wire[s][i].id

\* The page is not ahead of the channel, nor its report of the messages there are.
ShownIsOld == \A m \in Messages : shownBody[m] <= body[m]
MessagesInOrder == \A m, n \in Messages : n < m /\ body[m] # 0 => body[n] # 0
ReadExists == \A m \in 1..markedRead : body[m] # 0

Carries(s, m) == \E i \in DOMAIN wire[s] : wire[s][i].id = m
Brings(s, m) == \E i \in DOMAIN wire[s] : wire[s][i].id = m /\ wire[s][i].type = "created"

\* A message the page does not show as it is, is still under way, and it is under way
\* from its creation if the page does not show it at all, but for the known losses.
FollowedMessage(m) ==
  /\ \/ m \in missed \cup outrun \/ shownBody[m] = body[m]
     \/ \E s \in RoomSockets : Carries(s, m)
  /\ \/ m \in missed \/ body[m] = 0 \/ shownBody[m] # 0
     \/ \E s \in RoomSockets : Brings(s, m)

Followed == page # "none" => \A m \in Messages : FollowedMessage(m)

NothingBefore == page = "none" => ownChanges = {}

\* The inductive invariant of what the page shows ...
ThreadInv ==
  /\ ThreadTypes /\ EventsHold /\ OnlyJoinedCarry /\ LastIsCurrent
  /\ ShownIsOld /\ MessagesInOrder /\ ReadExists /\ Followed /\ NothingBefore

\* ... and of its sockets.
SocketsKnown ==
  \A s \in RoomSockets : link[s] \in {"opening", "open", "joined"} => s = socketRef \/ s \in orphaned

RoomInv ==
  /\ link \in [RoomSockets -> Links] /\ timers \in Nat /\ (lastTimer => timers > 0)
  /\ SocketsKnown
  /\ RoomIsTried
  /\ page = "mounted" /\ status = "offline" => rerender
  /\ page \in {"none", "rendered"} => status = "connecting" /\ timers = 0 /\ \A s \in RoomSockets : link[s] = "free"

\* The invariants of the thread hold at the start.
LEMMA ThreadInitInv == PortalThreadInit => ThreadInv /\ RoomInv
<1> SUFFICES ASSUME PortalThreadInit PROVE ThreadInv /\ RoomInv
  OBVIOUS
<1>1. ThreadTypes
  <2>1. 0 \in Bodies /\ 0 \in 0..MaxMessages
    BY PortalThreadAssumption DEF Bodies, Gone
  <2>2. <<>> \in Seq(ThreadEvent)
    OBVIOUS
  <2> QED BY <2>1, <2>2 DEF PortalThreadInit, ThreadTypes, Links
<1>2. \A s \in RoomSockets : wire[s] = <<>>
  BY DEF PortalThreadInit
<1>3. \A m \in Messages : body[m] = 0 /\ shownBody[m] = 0
  BY DEF PortalThreadInit
<1>4. EventsHold /\ OnlyJoinedCarry /\ LastIsCurrent
  BY <1>2 DEF PortalThreadInit, EventsHold, OnlyJoinedCarry, LastIsCurrent
<1>5. ShownIsOld /\ MessagesInOrder /\ ReadExists /\ Followed /\ NothingBefore
  BY <1>3 DEF PortalThreadInit, ShownIsOld, MessagesInOrder, ReadExists, Followed, NothingBefore, Messages
<1>6. RoomInv
  BY DEF PortalThreadInit, RoomInv, SocketsKnown, RoomIsTried, Links
<1> QED BY <1>1, <1>4, <1>5, <1>6 DEF ThreadInv

-----------------------------------------------------------------------------
\* A message is posted or changed, and the room is told.
LEMMA Announced ==
  ASSUME ThreadInv, NEW m \in Messages, NEW e \in ThreadEvent, Announce(e),
         e.id = m, e.body # 0, body[m] <= e.body,
         body' = [body EXCEPT ![m] = e.body],
         e.type = "created" => e.body = 1, e.type = "deleted" => e.body = Gone,
         body[m] = 0 => e.type = "created" /\ \A n \in Messages : n < m => body[n] # 0,
         ownChanges' = ownChanges
           \/ (page = "mounted" /\ ownChanges' = ownChanges \cup {e} /\ (e.type # "created" => shownBody[m] # 0)),
         UNCHANGED <<page, shownBody, markedRead, link, outrun>>
  PROVE  ThreadInv'
<1>t. ThreadTypes
  BY DEF ThreadInv
<1>1. /\ body' \in [Messages -> Bodies] /\ body'[m] = e.body
      /\ \A n \in Messages : body[n] <= body'[n] /\ (n # m => body'[n] = body[n]) /\ (body[n] # 0 => body'[n] # 0)
      /\ \A n \in Messages : body[n] \in Nat /\ body'[n] \in Nat /\ shownBody[n] \in Nat
  BY <1>t, PortalThreadAssumption DEF ThreadTypes, ThreadEvent, Bodies, Gone
<1>2. ASSUME NEW s \in RoomSockets
      PROVE  /\ wire[s] \in Seq(ThreadEvent) /\ wire'[s] \in Seq(ThreadEvent)
             /\ s \in InRoom => wire'[s] = Append(wire[s], e)
             /\ s \notin InRoom => wire'[s] = wire[s] /\ wire[s] = <<>>
             /\ Len(wire[s]) \in Nat /\ DOMAIN wire[s] = 1..Len(wire[s])
             /\ \A j \in 1..Len(wire[s]) : wire'[s][j] = wire[s][j] /\ wire[s][j] \in ThreadEvent
             /\ s \in InRoom => DOMAIN wire'[s] = 1..(Len(wire[s]) + 1) /\ wire'[s][Len(wire[s]) + 1] = e
  <2>1. wire[s] \in Seq(ThreadEvent) /\ wire'[s] = IF s \in InRoom THEN Append(wire[s], e) ELSE wire[s]
    BY <1>t DEF ThreadTypes, Announce
  <2>2. s \notin InRoom => wire[s] = <<>>
    BY DEF ThreadInv, OnlyJoinedCarry, InRoom
  <2>3. \A j \in 1..Len(wire[s]) : wire[s][j] \in ThreadEvent
    BY <2>1
  <2>4. CASE s \in InRoom
    BY <2>1, <2>3, <2>4, WireGrows
  <2>5. CASE s \notin InRoom
    BY <2>1, <2>2, <2>3, <2>5
  <2> QED BY <2>4, <2>5
<1>3. ThreadTypes'
  <2>1. wire' = [s \in RoomSockets |-> wire'[s]]
    BY DEF Announce
  <2>2. wire' \in [RoomSockets -> Seq(ThreadEvent)]
    BY <2>1, <1>2
  <2> QED BY <1>t, <1>1, <2>2 DEF ThreadTypes
<1>4. \A f \in ThreadEvent : EventHolds(f) => EventHolds(f)'
  <2> SUFFICES ASSUME NEW f \in ThreadEvent, EventHolds(f) PROVE EventHolds(f)'
    OBVIOUS
  <2>1. f.id \in Messages /\ f.body \in Nat
    BY DEF ThreadEvent, Bodies, Gone
  <2> QED BY <2>1, <1>1 DEF EventHolds
<1>5. EventHolds(e)'
  BY <1>1, PortalThreadAssumption DEF EventHolds, ThreadEvent, Bodies, Gone
<1>6. EventsHold'
  <2>1. ASSUME NEW s \in RoomSockets, NEW i \in DOMAIN wire'[s] PROVE EventHolds(wire[s][i])'
    <3>1. wire'[s][i] = e \/ (i \in DOMAIN wire[s] /\ wire'[s][i] = wire[s][i] /\ wire[s][i] \in ThreadEvent)
      BY <1>2, <2>1
    <3>2. CASE wire'[s][i] = e
      <4>1. e.body <= body'[e.id] /\ e.body # 0
        BY <1>5 DEF EventHolds
      <4> QED BY <3>2, <4>1 DEF EventHolds
    <3>3. CASE i \in DOMAIN wire[s] /\ wire'[s][i] = wire[s][i] /\ wire[s][i] \in ThreadEvent
      <4>1. EventHolds(wire[s][i])
        BY <3>3 DEF ThreadInv, EventsHold
      <4>2. EventHolds(wire[s][i]) /\ wire[s][i].body <= body'[wire[s][i].id]
        <5>1. wire[s][i].id \in Messages /\ wire[s][i].body \in Nat
          BY <3>3, PortalThreadAssumption DEF ThreadEvent, Bodies, Gone
        <5> QED BY <5>1, <4>1, <1>1 DEF EventHolds
      <4> QED BY <3>3, <4>2 DEF EventHolds
    <3> QED BY <3>1, <3>2, <3>3
  <2>2. ASSUME NEW f \in ownChanges' PROVE EventHolds(f)' /\ (f.type # "created" => shownBody'[f.id] # 0)
    <3>1. CASE f \in ownChanges
      <4>1. EventHolds(f) /\ (f.type # "created" => shownBody[f.id] # 0) /\ f \in ThreadEvent
        BY <3>1, <1>t DEF ThreadInv, EventsHold, ThreadTypes
      <4> QED BY <4>1, <1>4
    <3>2. CASE f = e /\ (e.type # "created" => shownBody[m] # 0)
      BY <3>2, <1>5
    <3> QED BY <3>1, <3>2
  <2> QED BY <2>1, <2>2 DEF EventsHold
<1>7. OnlyJoinedCarry'
  BY <1>2 DEF OnlyJoinedCarry, InRoom
<1>8. LastIsCurrent'
  <2> SUFFICES ASSUME NEW s \in RoomSockets, NEW i \in DOMAIN wire'[s], wire'[s][i].body # body'[wire'[s][i].id]
               PROVE  \E j \in DOMAIN wire'[s] : i < j /\ wire'[s][j].id = wire'[s][i].id
    BY DEF LastIsCurrent
  <2>1. s \in InRoom /\ i \in 1..Len(wire[s])
    BY <1>1, <1>2
  <2>2. wire'[s][i] = wire[s][i] /\ wire[s][i].id \in Messages
    BY <2>1, <1>2 DEF ThreadEvent
  <2>3. CASE wire[s][i].id = m
    <3>1. Len(wire[s]) + 1 \in DOMAIN wire'[s] /\ i < Len(wire[s]) + 1 /\ wire'[s][Len(wire[s]) + 1].id = m
      BY <1>2, <2>1
    <3> QED BY <3>1, <2>2, <2>3
  <2>4. CASE wire[s][i].id # m
    <3>1. wire[s][i].body # body[wire[s][i].id]
      BY <1>1, <2>2, <2>4
    <3>2. PICK j \in DOMAIN wire[s] : i < j /\ wire[s][j].id = wire[s][i].id
      BY <2>1, <3>1, <1>2 DEF ThreadInv, LastIsCurrent
    <3>3. j \in DOMAIN wire'[s] /\ wire'[s][j] = wire[s][j]
      BY <3>2, <2>1, <1>2
    <3> QED BY <3>2, <3>3, <2>2
  <2> QED BY <2>3, <2>4
<1>9. ShownIsOld'
  BY <1>1 DEF ThreadInv, ShownIsOld
<1>10. MessagesInOrder'
  BY <1>1 DEF ThreadInv, MessagesInOrder
<1>11. ReadExists'
  <2>1. \A n \in 1..markedRead : n \in Messages
    BY <1>t, PortalThreadAssumption DEF ThreadTypes, Messages
  <2> QED BY <2>1, <1>1 DEF ThreadInv, ReadExists
<1>12. ASSUME NEW s \in RoomSockets, NEW n \in Messages
       PROVE  (Carries(s, n) => Carries(s, n)') /\ (Brings(s, n) => Brings(s, n)')
  <2>1. \A i \in DOMAIN wire[s] : i \in DOMAIN wire'[s] /\ wire'[s][i] = wire[s][i]
    BY <1>2
  <2> QED BY <2>1 DEF Carries, Brings
<1>13. ASSUME NEW s \in InRoom PROVE Carries(s, m)' /\ (e.type = "created" => Brings(s, m)')
  <2>1. s \in RoomSockets
    BY DEF InRoom
  <2>2. Len(wire[s]) + 1 \in DOMAIN wire'[s] /\ wire'[s][Len(wire[s]) + 1] = e
    BY <2>1, <1>2
  <2> QED BY <2>2 DEF Carries, Brings
<1>14. Followed'
  <2> SUFFICES ASSUME page # "none", NEW n \in Messages PROVE FollowedMessage(n)'
    BY DEF Followed
  <2>1. FollowedMessage(n) /\ missed \subseteq missed'
    BY DEF ThreadInv, Followed, Announce
  <2>2. CASE n # m
    BY <2>1, <2>2, <1>1, <1>12 DEF FollowedMessage
  <2>3. CASE n = m /\ InRoom = {}
    <3>1. m \in missed'
      BY <2>3 DEF Announce
    <3> QED BY <3>1, <2>3 DEF FollowedMessage
  <2>4. CASE n = m /\ InRoom # {}
    <3>1. PICK s \in InRoom : TRUE
      BY <2>4
    <3>2. s \in RoomSockets /\ Carries(s, m)' /\ (e.type = "created" => Brings(s, m)')
      BY <3>1, <1>13 DEF InRoom
    <3>3. m \in missed' \/ shownBody[m] # 0 \/ \E r \in RoomSockets : Brings(r, m)'
      <4>1. CASE e.type = "created"
        BY <4>1, <3>2
      <4>2. CASE e.type # "created"
        BY <4>2, <2>1, <2>4, <1>12 DEF FollowedMessage
      <4> QED BY <4>1, <4>2
    <3> QED BY <2>4, <3>2, <3>3 DEF FollowedMessage
  <2> QED BY <2>2, <2>3, <2>4
<1>15. NothingBefore'
  BY DEF ThreadInv, NothingBefore
<1> QED BY <1>3, <1>6, <1>7, <1>8, <1>9, <1>10, <1>11, <1>14, <1>15 DEF ThreadInv


\* Nothing happens to the messages, but what is on its way to some sockets is lost.
LEMMA OnlyLost ==
  ASSUME ThreadInv, NEW ss, Losing(ss),
         link' \in [RoomSockets -> Links],
         \A s \in RoomSockets : link[s] = "joined" /\ s \notin ss => link'[s] = "joined",
         page' = "none" <=> page = "none",
         markedRead' = markedRead \/ MarkHighestRead,
         UNCHANGED <<body, shownBody, ownChanges, outrun>>
  PROVE  ThreadInv'
<1>t. ThreadTypes
  BY DEF ThreadInv
<1>1. ASSUME NEW s \in RoomSockets
      PROVE  wire[s] \in Seq(ThreadEvent) /\ wire'[s] = IF s \in ss THEN <<>> ELSE wire[s]
  BY <1>t DEF ThreadTypes, Losing
<1>2. Highest \in 0..MaxMessages /\ (Highest = 0 \/ shownBody[Highest] # 0)
  <2> DEFINE S == {0} \cup {m \in Messages : shownBody[m] # 0}
  <2>1. S \in SUBSET (0..MaxMessages) /\ S # {} /\ MaxMessages \in Nat
    BY PortalThreadAssumption DEF Messages
  <2>2. PICK n \in S : \A m \in S : m <= n
    <3> HIDE DEF S
    <3> QED BY <2>1, GreatestOf
  <2>3. n \in 0..MaxMessages /\ (n = 0 \/ shownBody[n] # 0) /\ \A m \in Messages : shownBody[m] # 0 => m <= n
    BY <2>1, <2>2
  <2> QED BY <2>3 DEF Highest
<1>3. ThreadTypes'
  <2>1. ASSUME NEW s \in RoomSockets PROVE (IF s \in ss THEN <<>> ELSE wire[s]) \in Seq(ThreadEvent)
    <3>1. <<>> \in Seq(ThreadEvent)
      OBVIOUS
    <3> QED BY <3>1, <1>1
  <2>2. wire' \in [RoomSockets -> Seq(ThreadEvent)]
    BY <2>1 DEF Losing
  <2>3. markedRead' \in 0..MaxMessages
    BY <1>t, <1>2 DEF ThreadTypes, MarkHighestRead
  <2> QED BY <1>t, <2>2, <2>3 DEF ThreadTypes
<1>4. \A s \in RoomSockets : \A i \in DOMAIN wire'[s] : s \notin ss /\ wire'[s] = wire[s] /\ i \in DOMAIN wire[s]
  <2>1. ASSUME NEW s \in RoomSockets, s \in ss PROVE wire'[s] = <<>>
    BY <1>1, <2>1
  <2>2. DOMAIN <<>> = {}
    OBVIOUS
  <2> QED BY <1>1, <2>1, <2>2
<1>5. EventsHold'
  <2>1. \A s \in RoomSockets : \A i \in DOMAIN wire'[s] : EventHolds(wire[s][i])
    BY <1>4 DEF ThreadInv, EventsHold
  <2>2. \A s \in RoomSockets : \A i \in DOMAIN wire'[s] : EventHolds(wire[s][i])'
    BY <1>4, <2>1 DEF EventHolds
  <2>3. \A e \in ownChanges' : EventHolds(e)' /\ (e.type # "created" => shownBody'[e.id] # 0)
    BY DEF ThreadInv, EventsHold, EventHolds
  <2> QED BY <2>2, <2>3 DEF EventsHold
<1>6. OnlyJoinedCarry'
  BY <1>1 DEF ThreadInv, OnlyJoinedCarry
<1>7. LastIsCurrent'
  <2> SUFFICES ASSUME NEW s \in RoomSockets, NEW i \in DOMAIN wire'[s]
               PROVE  \/ wire'[s][i].body = body[wire'[s][i].id]
                      \/ \E j \in DOMAIN wire'[s] : i < j /\ wire'[s][j].id = wire'[s][i].id
    BY DEF LastIsCurrent
  <2>1. wire'[s] = wire[s] /\ i \in DOMAIN wire[s]
    BY <1>4
  <2> QED BY <2>1 DEF ThreadInv, LastIsCurrent
<1>8. ShownIsOld' /\ MessagesInOrder'
  BY DEF ThreadInv, ShownIsOld, MessagesInOrder
<1>9. ReadExists'
  <2> SUFFICES ASSUME NEW m \in 1..markedRead' PROVE body[m] # 0
    BY DEF ReadExists
  <2>1. CASE m \in 1..markedRead
    BY <2>1 DEF ThreadInv, ReadExists
  <2>2. CASE markedRead' = Highest /\ Highest # 0
    <3>1. m \in Messages /\ Highest \in Messages /\ m <= Highest
      BY <1>2, <2>2, PortalThreadAssumption DEF Messages
    <3>2. body[Highest] # 0
      BY <1>t, <1>2, <2>2, <3>1, PortalThreadAssumption DEF ThreadInv, ShownIsOld, ThreadTypes, Bodies, Gone
    <3> QED BY <3>1, <3>2 DEF ThreadInv, MessagesInOrder, Messages
  <2> QED BY <2>1, <2>2, <1>2, <1>t DEF MarkHighestRead, ThreadTypes
<1>10. Followed'
  <2> SUFFICES ASSUME page # "none", NEW m \in Messages PROVE FollowedMessage(m)'
    BY DEF Followed
  <2>1. FollowedMessage(m)
    BY DEF ThreadInv, Followed
  <2>2. ASSUME NEW s \in RoomSockets PROVE (Carries(s, m) => m \in missed' \/ Carries(s, m)') /\ (Brings(s, m) => m \in missed' \/ Brings(s, m)')
    <3>1. CASE s \in ss
      <4>1. \A i \in DOMAIN wire[s] : wire[s][i].id \in missed'
        BY <3>1 DEF Losing
      <4> QED BY <4>1 DEF Carries, Brings
    <3>2. CASE s \notin ss
      BY <3>2, <1>1 DEF Carries, Brings
    <3> QED BY <3>1, <3>2
  <2>3. missed \subseteq missed'
    BY DEF Losing
  <2> QED BY <2>1, <2>2, <2>3 DEF FollowedMessage
<1>11. NothingBefore'
  BY DEF ThreadInv, NothingBefore
<1> QED BY <1>3, <1>5, <1>6, <1>7, <1>8, <1>9, <1>10, <1>11 DEF ThreadInv

\* What the page shows follows an event of which it is known what it says.
LEMMA AppliedIsSound ==
  ASSUME ThreadInv, NEW e \in ThreadEvent, EventHolds(e)
  PROVE  /\ Applied(e) \in Bodies /\ Applied(e) <= body[e.id]
         /\ shownBody[e.id] # 0 => Applied(e) # 0
         /\ e.type = "created" => Applied(e) # 0
         /\ e.body = body[e.id] /\ (e.type = "created" \/ shownBody[e.id] # 0) => Applied(e) = body[e.id]
<1>1. /\ e.id \in Messages /\ e.body \in 0..Gone /\ Gone \in Nat /\ Gone # 0
      /\ e.type \in {"created", "edited", "deleted"}
  BY PortalThreadAssumption DEF ThreadEvent, Bodies, Gone
<1>2. shownBody[e.id] \in 0..Gone /\ body[e.id] \in 0..Gone /\ shownBody[e.id] <= body[e.id]
  BY <1>1 DEF ThreadInv, ThreadTypes, Bodies, ShownIsOld
<1>3. CASE e.type = "created"
  BY <1>1, <1>2, <1>3 DEF Applied, EventHolds, Bodies
<1>4. CASE e.type = "edited"
  BY <1>1, <1>2, <1>4 DEF Applied, EventHolds, Bodies
<1>5. CASE e.type = "deleted"
  BY <1>1, <1>2, <1>5 DEF Applied, EventHolds, Bodies
<1> QED BY <1>1, <1>3, <1>4, <1>5

\* A frame of the socket arrives.
LEMMA ReceiveKeeps ==
  ASSUME ThreadInv, NEW s \in RoomSockets, ReceiveThreadEvent(s)
  PROVE  ThreadInv'
<1> DEFINE q == wire[s]
           e == Head(q)
           b == Applied(e)
<1>t. ThreadTypes
  BY DEF ThreadInv
<1>1. /\ q \in Seq(ThreadEvent) /\ Len(q) \in Nat /\ Len(q) >= 1 /\ e = q[1] /\ e \in ThreadEvent
      /\ Tail(q) \in Seq(ThreadEvent) /\ DOMAIN q = 1..Len(q) /\ DOMAIN Tail(q) = 1..(Len(q) - 1)
      /\ \A j \in 1..(Len(q) - 1) : Tail(q)[j] = q[j + 1]
  BY <1>t, WireShrinks DEF ThreadTypes, ReceiveThreadEvent
<1>2. /\ wire' = [wire EXCEPT ![s] = Tail(q)] /\ shownBody' = [shownBody EXCEPT ![e.id] = b]
      /\ UNCHANGED <<body, page, link, ownChanges, markedRead, missed, outrun>> /\ link[s] = "joined"
  BY DEF ReceiveThreadEvent, roomVars
<1>3. EventHolds(e) /\ e.id \in Messages
  <2>1. 1 \in DOMAIN wire[s]
    BY <1>1
  <2> QED BY <1>1, <2>1 DEF ThreadInv, EventsHold, ThreadEvent
<1>4. /\ b \in Bodies /\ b <= body[e.id] /\ (shownBody[e.id] # 0 => b # 0) /\ (e.type = "created" => b # 0)
      /\ e.body = body[e.id] /\ (e.type = "created" \/ shownBody[e.id] # 0) => b = body[e.id]
  BY <1>1, <1>3, AppliedIsSound
<1> HIDE DEF b, e
<1>5. \A r \in RoomSockets : wire'[r] = IF r = s THEN Tail(q) ELSE wire[r]
  BY <1>2, <1>t DEF ThreadTypes
<1>6. \A m \in Messages : shownBody'[m] = IF m = e.id THEN b ELSE shownBody[m]
  BY <1>2, <1>t DEF ThreadTypes
<1>7. ThreadTypes'
  <2>1. shownBody' \in [Messages -> Bodies]
    BY <1>2, <1>3, <1>4, <1>t DEF ThreadTypes
  <2>2. wire' \in [RoomSockets -> Seq(ThreadEvent)]
    BY <1>1, <1>2, <1>t DEF ThreadTypes
  <2> QED BY <1>2, <1>t, <2>1, <2>2 DEF ThreadTypes
<1>8. \A i \in DOMAIN Tail(q) : i + 1 \in DOMAIN q /\ Tail(q)[i] = q[i + 1] /\ i \in Nat
  BY <1>1
<1>9. EventsHold'
  <2>1. ASSUME NEW r \in RoomSockets, NEW i \in DOMAIN wire'[r]
        PROVE  \E j \in DOMAIN wire[r] : wire'[r][i] = wire[r][j]
    <3>1. CASE r = s
      BY <3>1, <2>1, <1>5, <1>8
    <3>2. CASE r # s
      BY <3>2, <2>1, <1>5
    <3> QED BY <3>1, <3>2
  <2>2. ASSUME NEW r \in RoomSockets, NEW i \in DOMAIN wire'[r] PROVE EventHolds(wire[r][i])'
    <3>1. PICK j \in DOMAIN wire[r] : wire'[r][i] = wire[r][j]
      BY <2>1
    <3>2. EventHolds(wire[r][j])
      BY <3>1 DEF ThreadInv, EventsHold
    <3> QED BY <3>1, <3>2, <1>2 DEF EventHolds
  <2>3. ASSUME NEW f \in ownChanges' PROVE EventHolds(f)' /\ (f.type # "created" => shownBody'[f.id] # 0)
    <3>1. EventHolds(f) /\ (f.type # "created" => shownBody[f.id] # 0) /\ f.id \in Messages
      BY <2>3, <1>2, <1>t DEF ThreadInv, EventsHold, ThreadTypes, ThreadEvent
    <3>2. EventHolds(f)'
      BY <3>1, <1>2 DEF EventHolds
    <3> QED BY <3>1, <3>2, <1>6, <1>4
  <2> QED BY <2>2, <2>3 DEF EventsHold
<1>10. OnlyJoinedCarry'
  BY <1>2, <1>5 DEF ThreadInv, OnlyJoinedCarry
<1>11. LastIsCurrent'
  <2> SUFFICES ASSUME NEW r \in RoomSockets, NEW i \in DOMAIN wire'[r], wire'[r][i].body # body[wire'[r][i].id]
               PROVE  \E j \in DOMAIN wire'[r] : i < j /\ wire'[r][j].id = wire'[r][i].id
    BY <1>2 DEF LastIsCurrent
  <2>1. CASE r = s
    <3>1. i + 1 \in DOMAIN q /\ wire'[r][i] = q[i + 1] /\ i \in Nat
      BY <2>1, <1>5, <1>8
    <3>2. PICK j \in DOMAIN q : i + 1 < j /\ q[j].id = q[i + 1].id
      BY <3>1 DEF ThreadInv, LastIsCurrent
    <3>3. j - 1 \in DOMAIN Tail(q) /\ Tail(q)[j - 1] = q[j] /\ i < j - 1
      BY <3>1, <3>2, <1>1
    <3> QED BY <3>1, <3>2, <3>3, <2>1, <1>5
  <2>2. CASE r # s
    BY <2>2, <1>5 DEF ThreadInv, LastIsCurrent
  <2> QED BY <2>1, <2>2
<1>12. ShownIsOld' /\ MessagesInOrder' /\ ReadExists' /\ NothingBefore'
  BY <1>2, <1>4, <1>6 DEF ThreadInv, ShownIsOld, MessagesInOrder, ReadExists, NothingBefore
<1>13. Followed'
  <2> SUFFICES ASSUME page # "none", NEW m \in Messages PROVE FollowedMessage(m)'
    BY <1>2 DEF Followed
  <2>1. FollowedMessage(m)
    BY DEF ThreadInv, Followed
  <2>2. \A r \in RoomSockets : r # s => (Carries(r, m) => Carries(r, m)') /\ (Brings(r, m) => Brings(r, m)')
    BY <1>5 DEF Carries, Brings
  <2>3. ASSUME NEW i \in DOMAIN q, i # 1
        PROVE i - 1 \in DOMAIN wire'[s] /\ wire'[s][i - 1] = q[i]
    <3>1. i - 1 \in DOMAIN Tail(q) /\ Tail(q)[i - 1] = q[i]
      BY <2>3, <1>1
    <3> QED BY <3>1, <1>5
  <2>4. CASE m # e.id
    <3>1. Carries(s, m) => Carries(s, m)'
      BY <2>3, <2>4, <1>1 DEF Carries
    <3>2. Brings(s, m) => Brings(s, m)'
      BY <2>3, <2>4, <1>1 DEF Brings
    <3> QED BY <2>1, <2>2, <2>4, <3>1, <3>2, <1>2, <1>6 DEF FollowedMessage
  <2>5. CASE m = e.id
    <3>1. Brings(s, m) => Brings(s, m)' \/ b # 0
      BY <2>3, <1>1, <1>4 DEF Brings
    <3>2. m \in missed \/ b # 0 \/ \E r \in RoomSockets : Brings(r, m)'
      <4>1. m \in missed \/ body[m] = 0 \/ shownBody[m] # 0 \/ \E r \in RoomSockets : Brings(r, m)
        BY <2>1 DEF FollowedMessage
      <4>2. body[m] # 0
        BY <1>1, <1>3, <1>t, <2>5, PortalThreadAssumption DEF EventHolds, ThreadTypes, Bodies, Gone, ThreadEvent
      <4> QED BY <4>1, <4>2, <3>1, <2>2, <2>5, <1>4
    <3>3. \A r \in RoomSockets : Brings(r, m)' => Carries(r, m)'
      BY DEF Brings, Carries
    <3>4. CASE e.body # body[m]
      <4>1. PICK j \in DOMAIN q : 1 < j /\ q[j].id = m
        BY <3>4, <2>5, <1>1 DEF ThreadInv, LastIsCurrent
      <4>2. Carries(s, m)'
        BY <4>1, <2>3 DEF Carries
      <4> QED BY <4>2, <3>2, <1>2, <1>6, <2>5 DEF FollowedMessage
    <3>5. CASE e.body = body[m] /\ (e.type = "created" \/ shownBody[m] # 0)
      BY <3>5, <3>2, <1>2, <1>4, <1>6, <2>5 DEF FollowedMessage
    <3>6. CASE e.type # "created" /\ shownBody[m] = 0
      <4>1. Brings(s, m) => Brings(s, m)'
        BY <2>3, <1>1, <3>6 DEF Brings
      <4>2. body[m] # 0
        BY <1>1, <1>3, <1>t, <2>5, PortalThreadAssumption DEF EventHolds, ThreadTypes, Bodies, Gone, ThreadEvent
      <4>3. m \in missed \/ \E r \in RoomSockets : Brings(r, m)'
        BY <2>1, <2>2, <4>1, <4>2, <3>6 DEF FollowedMessage
      <4> QED BY <4>3, <3>3, <1>2 DEF FollowedMessage
    <3> QED BY <3>4, <3>5, <3>6
  <2> QED BY <2>4, <2>5
<1> QED BY <1>7, <1>9, <1>10, <1>11, <1>12, <1>13 DEF ThreadInv

\* An answer of the server arrives.
LEMMA AnswerKeeps ==
  ASSUME ThreadInv, NEW e \in ownChanges, TakeAnswer(e)
  PROVE  ThreadInv'
<1> DEFINE b == IF e.type = "edited" /\ shownBody[e.id] # 0 THEN e.body ELSE Applied(e)
<1>t. ThreadTypes
  BY DEF ThreadInv
<1>1. EventHolds(e) /\ e \in ThreadEvent /\ e.id \in Messages /\ (e.type # "created" => shownBody[e.id] # 0)
  BY <1>t DEF ThreadInv, EventsHold, ThreadTypes, ThreadEvent
<1>2. /\ shownBody' = [shownBody EXCEPT ![e.id] = b] /\ ownChanges' \subseteq ownChanges
      /\ outrun' = IF e.body # body[e.id] THEN outrun \cup {e.id} ELSE outrun
      /\ UNCHANGED <<body, page, link, wire, markedRead, missed>>
  BY <1>t, <1>1 DEF TakeAnswer, roomVars, ThreadTypes
<1>3. b \in Bodies /\ b <= body[e.id] /\ b # 0 /\ (e.body = body[e.id] => b = body[e.id])
  <2>1. /\ Applied(e) \in Bodies /\ Applied(e) <= body[e.id]
        /\ shownBody[e.id] # 0 => Applied(e) # 0
        /\ e.type = "created" => Applied(e) # 0
        /\ e.body = body[e.id] /\ (e.type = "created" \/ shownBody[e.id] # 0) => Applied(e) = body[e.id]
    BY <1>1, AppliedIsSound
  <2>2. e.body \in Bodies /\ e.body <= body[e.id] /\ e.body # 0
    BY <1>1 DEF EventHolds, ThreadEvent
  <2> QED BY <1>1, <2>1, <2>2
<1> HIDE DEF b
<1>4. \A m \in Messages : shownBody'[m] = IF m = e.id THEN b ELSE shownBody[m]
  BY <1>2, <1>t DEF ThreadTypes
<1>5. ThreadTypes'
  <2>1. shownBody' \in [Messages -> Bodies]
    BY <1>1, <1>2, <1>3, <1>t DEF ThreadTypes
  <2> QED BY <1>2, <1>t, <2>1 DEF ThreadTypes
<1>6. EventsHold'
  <2>1. \A s \in RoomSockets : \A i \in DOMAIN wire'[s] : EventHolds(wire[s][i])'
    BY <1>2 DEF ThreadInv, EventsHold, EventHolds
  <2>2. ASSUME NEW f \in ownChanges' PROVE EventHolds(f)' /\ (f.type # "created" => shownBody'[f.id] # 0)
    <3>1. EventHolds(f) /\ (f.type # "created" => shownBody[f.id] # 0) /\ f.id \in Messages
      BY <2>2, <1>2, <1>t DEF ThreadInv, EventsHold, ThreadTypes, ThreadEvent
    <3>2. EventHolds(f)'
      BY <3>1, <1>2 DEF EventHolds
    <3> QED BY <3>1, <3>2, <1>3, <1>4
  <2> QED BY <2>1, <2>2 DEF EventsHold
<1>7. OnlyJoinedCarry' /\ LastIsCurrent' /\ MessagesInOrder' /\ ReadExists' /\ NothingBefore'
  BY <1>2 DEF ThreadInv, OnlyJoinedCarry, LastIsCurrent, MessagesInOrder, ReadExists, NothingBefore
<1>8. ShownIsOld'
  BY <1>2, <1>3, <1>4 DEF ThreadInv, ShownIsOld
<1>9. Followed'
  <2> SUFFICES ASSUME page # "none", NEW m \in Messages PROVE FollowedMessage(m)'
    BY <1>2 DEF Followed
  <2>1. FollowedMessage(m) /\ \A s \in RoomSockets : (Carries(s, m) <=> Carries(s, m)') /\ (Brings(s, m) <=> Brings(s, m)')
    BY <1>2 DEF ThreadInv, Followed, Carries, Brings
  <2>2. CASE m = e.id
    BY <2>1, <2>2, <1>2, <1>3, <1>4 DEF FollowedMessage
  <2>3. CASE m # e.id
    BY <2>1, <2>3, <1>2, <1>4 DEF FollowedMessage
  <2> QED BY <2>2, <2>3
<1> QED BY <1>5, <1>6, <1>7, <1>8, <1>9 DEF ThreadInv

\* The page is rendered.
LEMMA RenderKeeps == ThreadInv /\ RenderPage => ThreadInv'
<1> SUFFICES ASSUME ThreadInv, RenderPage PROVE ThreadInv'
  OBVIOUS
<1>1. /\ shownBody' = body /\ ownChanges = {} /\ page' = "rendered"
      /\ UNCHANGED <<body, link, wire, ownChanges, markedRead, missed, outrun>>
  BY DEF RenderPage, roomVars, ThreadInv, NothingBefore
<1>2. ThreadTypes' /\ NothingBefore' /\ OnlyJoinedCarry' /\ LastIsCurrent' /\ MessagesInOrder' /\ ReadExists'
  BY <1>1 DEF ThreadInv, ThreadTypes, NothingBefore, OnlyJoinedCarry, LastIsCurrent, MessagesInOrder, ReadExists
<1>3. EventsHold'
  BY <1>1 DEF ThreadInv, EventsHold, EventHolds
<1>4. ShownIsOld'
  BY <1>1, PortalThreadAssumption DEF ThreadInv, ShownIsOld, ThreadTypes, Bodies, Gone
<1>5. Followed'
  BY <1>1 DEF Followed, FollowedMessage
<1> QED BY <1>2, <1>3, <1>4, <1>5 DEF ThreadInv

-----------------------------------------------------------------------------
\* Every step keeps the invariant of the thread.
LEMMA ThreadNextInv == ThreadInv /\ [PortalThreadNext]_threadVars => ThreadInv'
<1> SUFFICES ASSUME ThreadInv, [PortalThreadNext]_threadVars PROVE ThreadInv'
  OBVIOUS
<1>t. ThreadTypes
  BY DEF ThreadInv
<1>1. ASSUME UNCHANGED <<body, shownBody, ownChanges, outrun, wire, missed>>,
             link' \in [RoomSockets -> Links],
             \A s \in RoomSockets : link[s] = "joined" => link'[s] = "joined",
             page' = "none" <=> page = "none",
             markedRead' = markedRead \/ MarkHighestRead
      PROVE  ThreadInv'
  <2>1. Losing({})
    <3>1. wire' = [s \in RoomSockets |-> IF s \in {} THEN <<>> ELSE wire[s]]
      BY <1>t, <1>1 DEF ThreadTypes
    <3>2. missed' = missed \cup UNION {{wire[s][i].id : i \in DOMAIN wire[s]} : s \in {}}
      BY <1>1
    <3> QED BY <3>1, <3>2 DEF Losing
  <2> QED BY <1>1, <2>1, OnlyLost
<1>2. \A m \in Messages : body[m] \in Nat /\ body[m] \in 0..Gone /\ Gone \in Nat
  BY <1>t, PortalThreadAssumption DEF ThreadTypes, Bodies, Gone
<1>3. ASSUME NEW m \in Messages, Post(m), UNCHANGED <<page, shownBody, markedRead, link, outrun>>,
             ownChanges' = ownChanges \/ (page = "mounted" /\ ownChanges' = ownChanges \cup {EventOf("created", m)})
      PROVE  ThreadInv'
  <2> DEFINE e == [type |-> "created", id |-> m, body |-> 1]
  <2>1. body' = [body EXCEPT ![m] = 1] /\ body[m] = 0 /\ (\A n \in Messages : n < m => body[n] # 0) /\ EventOf("created", m) = e
    <3>1. body' = [body EXCEPT ![m] = 1] /\ body'[m] = 1
      BY <1>3, <1>t DEF Post, ThreadTypes
    <3>2. ~ (m < m)
      BY PortalThreadAssumption DEF Messages
    <3> QED BY <3>1, <3>2, <1>3 DEF Post, EventOf
  <2>2. e \in ThreadEvent /\ e.id = m /\ e.type = "created" /\ e.body = 1
    BY PortalThreadAssumption DEF ThreadEvent, Bodies, Gone
  <2>3. Announce(e)
    BY <1>3, <2>1 DEF Post
  <2>4. ownChanges' = ownChanges \/ (page = "mounted" /\ ownChanges' = ownChanges \cup {e} /\ (e.type # "created" => shownBody[m] # 0))
    BY <1>3, <2>1, <2>2
  <2>5. body' = [body EXCEPT ![m] = e.body] /\ e.body # 0 /\ body[m] <= e.body /\ e.type # "deleted"
    BY <2>1, <2>2
  <2> HIDE DEF e
  <2> QED BY <1>3, <2>1, <2>2, <2>3, <2>4, <2>5, Announced
<1>4. ASSUME NEW m \in Messages, NEW type \in {"edited", "deleted"}, Change(m, type),
             UNCHANGED <<page, shownBody, markedRead, link, outrun>>,
             ownChanges' = ownChanges
               \/ (page = "mounted" /\ shownBody[m] # 0 /\ ownChanges' = ownChanges \cup {EventOf(type, m)})
      PROVE  ThreadInv'
  <2> DEFINE b == IF type = "edited" THEN body[m] + 1 ELSE Gone
             e == [type |-> type, id |-> m, body |-> b]
  <2>1. body' = [body EXCEPT ![m] = b] /\ body'[m] = b /\ body[m] # 0 /\ body[m] # Gone
    BY <1>4, <1>t DEF Change, ThreadTypes
  <2>2. b \in Bodies /\ b # 0 /\ body[m] <= b /\ (type = "deleted" => b = Gone)
    BY <1>2, <2>1 DEF Bodies
  <2>3. e \in ThreadEvent /\ e.id = m /\ e.type = type /\ e.body = b /\ type # "created"
    BY <2>2 DEF ThreadEvent
  <2>4. EventOf(type, m) = e
    BY <2>1 DEF EventOf
  <2>5. Announce(e)
    BY <1>4, <2>4 DEF Change
  <2>6. ownChanges' = ownChanges \/ (page = "mounted" /\ ownChanges' = ownChanges \cup {e} /\ (e.type # "created" => shownBody[m] # 0))
    BY <1>4, <2>4
  <2> HIDE DEF b, e
  <2> QED BY <1>4, <2>1, <2>2, <2>3, <2>5, <2>6, Announced
<1>5. ASSUME NEW m \in Messages, OtherPosts(m) \/ OwnPost(m) PROVE ThreadInv'
  BY <1>3, <1>5 DEF OtherPosts, OwnPost, pageVars, roomVars
<1>6. ASSUME NEW m \in Messages, NEW type \in {"edited", "deleted"}, OtherChanges(m, type) \/ OwnChange(m, type)
      PROVE  ThreadInv'
  BY <1>4, <1>6 DEF OtherChanges, OwnChange, pageVars, roomVars
<1>7. ASSUME NEW s \in RoomSockets, SocketDrops(s) \/ CloseEnds(s) PROVE ThreadInv'
  <2>1. SocketClosed(s)
    BY <1>7 DEF SocketDrops, CloseEnds
  <2>2. /\ link' = [link EXCEPT ![s] = "free"] /\ Losing({s})
        /\ UNCHANGED <<body, page, shownBody, markedRead, ownChanges, outrun>>
    BY <2>1 DEF SocketClosed, pageVars
  <2>3. link' \in [RoomSockets -> Links] /\ \A r \in RoomSockets : link[r] = "joined" /\ r \notin {s} => link'[r] = "joined"
    BY <2>2, <1>t DEF ThreadTypes, Links
  <2> QED BY <2>2, <2>3, OnlyLost
<1>8. /\ AfterCleanup \in [RoomSockets -> Links] 
      /\ \A r \in RoomSockets : link[r] = "joined" /\ r \notin Closed => AfterCleanup[r] = "joined"
  BY <1>t DEF AfterCleanup, ThreadTypes, Links
<1>9. ASSUME NEW links \in [RoomSockets -> Links], BeginConnect(links)
      PROVE  link' \in [RoomSockets -> Links] /\ \A r \in RoomSockets : links[r] = "joined" => link'[r] = "joined"
  BY <1>9 DEF BeginConnect, Links
<1>10. CASE Rerender
  <2>1. /\ BeginConnect(AfterCleanup) /\ Losing(Closed) /\ MarkHighestRead
        /\ UNCHANGED <<body, page, shownBody, ownChanges, outrun>>
    BY <1>10 DEF Rerender
  <2>2. link' \in [RoomSockets -> Links] /\ \A r \in RoomSockets : link[r] = "joined" /\ r \notin Closed => link'[r] = "joined"
    BY <2>1, <1>8, <1>9
  <2> QED BY <2>1, <2>2, <1>8, OnlyLost
<1>11. CASE LeavePage
  <2>1. /\ link' = AfterCleanup /\ Losing(Closed) /\ page = "mounted" /\ page' = "left"
        /\ UNCHANGED <<body, shownBody, ownChanges, outrun, markedRead>>
    BY <1>11 DEF LeavePage
  <2> QED BY <2>1, <1>8, OnlyLost
<1>12. CASE MountPage
  <2>1. /\ page = "rendered" /\ page' = "mounted" /\ BeginConnect(link) /\ MarkHighestRead
        /\ UNCHANGED <<body, shownBody, ownChanges, outrun, wire, missed>>
    BY <1>12 DEF MountPage
  <2> QED BY <2>1, <1>1, <1>9, <1>t DEF ThreadTypes
<1>13. CASE TimerFires
  <2>1. /\ link' = link \/ BeginConnect(link)
        /\ UNCHANGED <<body, page, shownBody, markedRead, ownChanges, outrun, wire, missed>>
    BY <1>13 DEF TimerFires, pageVars
  <2> QED BY <2>1, <1>1, <1>9, <1>t DEF ThreadTypes
<1>14. CASE Keystroke
  BY <1>14, <1>1, <1>t DEF Keystroke, pageVars, roomVars, ThreadTypes
<1>15. ASSUME NEW s \in RoomSockets, CreateSocket(s) \/ FetchFails(s) \/ SocketOpens(s) \/ JoinRoom(s)
       PROVE  ThreadInv'
  <2>1. \E l \in Links : link' = [link EXCEPT ![s] = l] /\ link[s] # "joined"
    BY <1>15 DEF CreateSocket, FetchFails, SocketOpens, JoinRoom, Links
  <2>2. UNCHANGED <<body, page, shownBody, markedRead, ownChanges, outrun, wire, missed>>
    BY <1>15 DEF CreateSocket, FetchFails, SocketOpens, JoinRoom, pageVars
  <2>3. link' \in [RoomSockets -> Links] /\ \A r \in RoomSockets : link[r] = "joined" => link'[r] = "joined"
    BY <2>1, <1>t DEF ThreadTypes
  <2> QED BY <2>2, <2>3, <1>1
<1>16. CASE UNCHANGED threadVars
  BY <1>16, <1>1, <1>t DEF threadVars, ThreadTypes
<1> QED BY <1>5, <1>6, <1>7, <1>10, <1>11, <1>12, <1>13, <1>14, <1>15, <1>16,
          ReceiveKeeps, AnswerKeeps, RenderKeeps DEF PortalThreadNext

-----------------------------------------------------------------------------
\* The sockets of the page.
LEMMA RoomNextInv == ThreadInv /\ RoomInv /\ [PortalThreadNext]_threadVars => RoomInv'
<1> SUFFICES ASSUME ThreadInv, RoomInv, [PortalThreadNext]_threadVars PROVE RoomInv'
  OBVIOUS
<1>t. link \in [RoomSockets -> Links] /\ timers \in Nat /\ (lastTimer => timers > 0) /\ (page \in {"none", "rendered"} => timers = 0)
  BY DEF RoomInv
<1> DEFINE open == {"opening", "open", "joined"}
<1>1. \A s \in RoomSockets : AfterCleanup[s] \in open => link[s] \in open /\ s # socketRef
  BY <1>t, PortalThreadAssumption DEF Closed, AfterCleanup
<1>2. CASE UNCHANGED <<link, socketRef, timers, lastTimer, status, orphaned>>
           /\ (rerender => rerender')
           /\ (page' = page \/ (page = "none" /\ page' = "rendered"))
  BY <1>2 DEF RoomInv, SocketsKnown, RoomIsTried
<1>3. ASSUME NEW s \in RoomSockets,
             ReceiveThreadEvent(s)
      PROVE  RoomInv'
  BY <1>2, <1>3 DEF ReceiveThreadEvent, roomVars
<1>4. ASSUME NEW e \in ownChanges, TakeAnswer(e) PROVE RoomInv'
  BY <1>2, <1>4 DEF TakeAnswer, roomVars
<1>5. ASSUME NEW m \in Messages, OtherPosts(m) \/ OwnPost(m) PROVE RoomInv'
  BY <1>2, <1>5 DEF OtherPosts, OwnPost, pageVars, roomVars
<1>6. ASSUME NEW m \in Messages, NEW type, OtherChanges(m, type) \/ OwnChange(m, type) PROVE RoomInv'
  BY <1>2, <1>6 DEF OtherChanges, OwnChange, pageVars, roomVars
<1>7. CASE RenderPage \/ Keystroke \/ UNCHANGED threadVars
  BY <1>2, <1>7 DEF RenderPage, Keystroke, pageVars, roomVars, threadVars
<1>8. ASSUME NEW links \in [RoomSockets -> Links], BeginConnect(links)
      PROVE  /\ link' \in [RoomSockets -> Links]
             /\ \E s \in RoomSockets : link'[s] # "free"
             /\ \A s \in RoomSockets : link'[s] \in open => links[s] \in open
  BY <1>8 DEF BeginConnect, Links
<1>9. CASE MountPage
  <2>1. /\ page = "rendered" /\ page' = "mounted" /\ BeginConnect(link)
        /\ UNCHANGED <<socketRef, timers, lastTimer, status, rerender, orphaned>>
    BY <1>9 DEF MountPage
  <2> QED BY <2>1, <1>t, <1>8 DEF RoomInv, SocketsKnown, RoomIsTried
<1>10. AfterCleanup \in [RoomSockets -> Links]
  BY <1>t DEF AfterCleanup, Links
<1>11. ASSUME ClearTimer PROVE timers' \in Nat /\ ~ lastTimer'
  BY <1>11, <1>t DEF ClearTimer
<1>12. CASE Rerender
  <2>1. /\ page = "mounted" /\ page' = "mounted" /\ BeginConnect(AfterCleanup) /\ ClearTimer
        /\ status' = "connecting" /\ UNCHANGED <<socketRef, orphaned>>
    BY <1>12 DEF Rerender
  <2>2. SocketsKnown'
    BY <2>1, <1>1, <1>8, <1>10 DEF RoomInv, SocketsKnown
  <2> QED BY <2>1, <2>2, <1>8, <1>10, <1>11 DEF RoomInv, RoomIsTried
<1>13. CASE LeavePage
  <2>1. /\ page = "mounted" /\ page' = "left" /\ link' = AfterCleanup /\ ClearTimer
        /\ UNCHANGED <<socketRef, orphaned>>
    BY <1>13 DEF LeavePage
  <2>2. SocketsKnown' /\ \A s \in RoomSockets : link'[s] \in open => s \in orphaned
    BY <2>1, <1>1 DEF RoomInv, SocketsKnown
  <2>3. \A s \in RoomSockets : link'[s] \in {"free", "fetching", "closing"} \/ s \in orphaned'
    BY <2>1, <2>2, <1>10 DEF Links
  <2> QED BY <2>1, <2>2, <2>3, <1>10, <1>11 DEF RoomInv, RoomIsTried
<1>14. ASSUME NEW s \in RoomSockets, CreateSocket(s) PROVE RoomInv'
  <2>1. /\ link[s] = "fetching" /\ link' = [link EXCEPT ![s] = "opening"] /\ socketRef' = s
        /\ orphaned \subseteq orphaned' /\ (page = "left" => s \in orphaned')
        /\ socketRef # NoSocket /\ link[socketRef] \in open => socketRef \in orphaned'
        /\ UNCHANGED <<page, timers, lastTimer, status, rerender>>
    BY <1>14 DEF CreateSocket, pageVars
  <2>2. link' \in [RoomSockets -> Links] /\ page \notin {"none", "rendered"} /\ \A r \in RoomSockets : r # NoSocket
    BY <2>1, <1>t, PortalThreadAssumption DEF Links, RoomInv
  <2>3. SocketsKnown'
    BY <2>1, <2>2, <1>t DEF RoomInv, SocketsKnown
  <2>4. RoomIsTried'
    BY <2>1, <2>2, <1>t DEF RoomInv, RoomIsTried
  <2> QED BY <2>1, <2>2, <2>3, <2>4, <1>t DEF RoomInv
<1>15. ASSUME NEW st, NewStatus(st) PROVE status' = st /\ (rerender => rerender') /\ (status # st => rerender')
  BY <1>15 DEF NewStatus
<1>16. ASSUME NEW s \in RoomSockets, FetchFails(s) PROVE RoomInv'
  <2>1. /\ link[s] = "fetching" /\ link' = [link EXCEPT ![s] = "free"] /\ NewStatus("offline")
        /\ UNCHANGED <<page, socketRef, timers, lastTimer, orphaned>>
    BY <1>16 DEF FetchFails, pageVars
  <2>2. page = "mounted" => rerender'
    BY <2>1, <1>15 DEF RoomInv
  <2>3. link' \in [RoomSockets -> Links] /\ page \notin {"none", "rendered"}
    BY <2>1, <1>t DEF Links, RoomInv
  <2>4. SocketsKnown' /\ RoomIsTried'
    BY <2>1, <2>2, <1>t DEF RoomInv, SocketsKnown, RoomIsTried
  <2> QED BY <2>1, <2>2, <2>3, <2>4, <1>t DEF RoomInv
<1>17. ASSUME NEW s \in RoomSockets, SocketOpens(s) \/ JoinRoom(s) PROVE RoomInv'
  <2>1. /\ link[s] \in open /\ UNCHANGED <<page, socketRef, timers, lastTimer, orphaned>>
        /\ link' = [link EXCEPT ![s] = "open"] \/ link' = [link EXCEPT ![s] = "joined"]
    BY <1>17 DEF SocketOpens, JoinRoom, pageVars
  <2>2. (rerender => rerender') /\ (status' = status \/ status' = "live")
    <3>1. CASE SocketOpens(s)
      BY <3>1, <1>15 DEF SocketOpens
    <3>2. CASE JoinRoom(s)
      BY <3>2 DEF JoinRoom
    <3> QED BY <1>17, <3>1, <3>2
  <2>3. link' \in [RoomSockets -> Links] /\ page \notin {"none", "rendered"}
    BY <2>1, <1>t DEF Links, RoomInv
  <2>4. SocketsKnown' /\ RoomIsTried'
    BY <2>1, <2>2, <1>t DEF RoomInv, SocketsKnown, RoomIsTried
  <2> QED BY <2>1, <2>2, <2>3, <2>4, <1>t DEF RoomInv
<1>18. ASSUME NEW s \in RoomSockets, SocketDrops(s) \/ CloseEnds(s) PROVE RoomInv'
  <2>1. link[s] # "free" /\ SocketClosed(s)
    BY <1>18 DEF SocketDrops, CloseEnds
  <2>2. /\ link' = [link EXCEPT ![s] = "free"] /\ orphaned' = orphaned \ {s} /\ UNCHANGED <<page, socketRef>>
        /\ page = "left" => UNCHANGED <<timers, lastTimer, status, rerender>>
        /\ page # "left" => NewStatus("offline") /\ timers' = timers + 1 /\ lastTimer' = TRUE
    BY <2>1 DEF SocketClosed, pageVars
  <2>3. link' \in [RoomSockets -> Links] /\ page \notin {"none", "rendered"}
    BY <2>1, <2>2, <1>t DEF Links, RoomInv
  <2>4. page = "mounted" => rerender' /\ timers' > 0
    BY <2>2, <1>15, <1>t DEF RoomInv
  <2>5. SocketsKnown' /\ RoomIsTried'
    BY <2>2, <2>4, <1>t DEF RoomInv, SocketsKnown, RoomIsTried
  <2> QED BY <2>2, <2>3, <2>4, <2>5, <1>t DEF RoomInv
<1>19. CASE TimerFires
  <2>1. /\ timers > 0 /\ timers' = timers - 1 /\ (timers > 1 \/ ~ lastTimer')
        /\ page = "left" => UNCHANGED <<link, status, rerender>>
        /\ page # "left" => BeginConnect(link) /\ NewStatus("connecting")
        /\ UNCHANGED <<page, socketRef, orphaned>>
    BY <1>19 DEF TimerFires, pageVars
  <2>2. timers' \in Nat /\ (lastTimer' => timers' > 0) /\ page \notin {"none", "rendered"}
    BY <2>1, <1>t
  <2>3. link' \in [RoomSockets -> Links] /\ SocketsKnown' /\ RoomIsTried'
    BY <2>1, <2>2, <1>t, <1>8 DEF RoomInv, SocketsKnown, RoomIsTried
  <2>4. page = "mounted" => status' = "connecting"
    BY <2>1, <1>15
  <2> QED BY <2>1, <2>2, <2>3, <2>4 DEF RoomInv
<1> HIDE DEF open
<1> QED BY <1>3, <1>4, <1>5, <1>6, <1>7, <1>9, <1>12, <1>13, <1>14, <1>16, <1>17, <1>18, <1>19 DEF PortalThreadNext

-----------------------------------------------------------------------------
\* What the invariants say once nothing is under way.
LEMMA ThreadInvMeans ==
  ThreadInv /\ RoomInv => ThreadAgrees /\ ReadWasShown /\ RoomIsTried
<1> SUFFICES ASSUME ThreadInv, RoomInv PROVE ThreadAgrees /\ ReadWasShown
  BY DEF RoomInv
<1>1. ThreadAgrees
  <2> SUFFICES ASSUME page = "mounted", \A s \in RoomSockets : wire[s] = <<>>, NEW m \in Messages
               PROVE  shownBody[m] = body[m] \/ m \in missed \cup outrun
    BY DEF ThreadAgrees
  <2>1. \A s \in RoomSockets : ~ Carries(s, m)
    BY DEF Carries
  <2> QED BY <2>1 DEF ThreadInv, Followed, FollowedMessage
<1>2. ReadWasShown
  <2> SUFFICES ASSUME page = "mounted", NEW m \in 1..markedRead
               PROVE  \/ shownBody[m] # 0 \/ m \in missed
                      \/ \E s \in RoomSockets : \E i \in DOMAIN wire[s] : wire[s][i].id = m
    BY DEF ReadWasShown
  <2>1. m \in Messages /\ body[m] # 0
    BY PortalThreadAssumption DEF ThreadInv, ThreadTypes, ReadExists, Messages
  <2> QED BY <2>1 DEF ThreadInv, Followed, FollowedMessage, Brings
<1> QED BY <1>1, <1>2

\* The thread on the page is the channel's once nothing is under way, but for the
\* known losses; what it reports as read it showed or will; and a page that is open
\* never stops trying to be connected (ChatThreadClient.tsx, usePortalRealtimeRoom.ts).
THEOREM ThreadFollowsTheChannel == PortalThreadSpec => [](ThreadAgrees /\ ReadWasShown /\ RoomIsTried)
<1>1. ThreadInv /\ RoomInv /\ [PortalThreadNext]_threadVars => (ThreadInv /\ RoomInv)'
  BY ThreadNextInv, RoomNextInv
<1> QED BY <1>1, ThreadInitInv, ThreadInvMeans, PTL DEF PortalThreadSpec

-----------------------------------------------------------------------------
\* The session of the portal.
CookieTypes ==
  /\ family \in [PortalTokens -> 0..MaxPortalTokens]
  /\ jar \in [access: {"fresh", "slack", "gone"}, refresh: 0..MaxPortalTokens, mfa: BOOLEAN]
  /\ portalCall \in [PortalCalls ->
       [pc: {"idle", "looking", "rotating", "asking", "profile", "persisting", "failed",
             "loggingOut", "clearing"},
        kind: {"page", "route", "sign-in", "verify", "logout"},
        old: 0..MaxPortalTokens, new: 0..MaxPortalTokens]]
  /\ torn \in BOOLEAN

\* Only a request with a refresh token asks for a new pair.
AskedWithToken == \A q \in PortalCalls : portalCall[q].pc \in {"looking", "rotating"} => portalCall[q].old # 0

\* What a request that is alone knows of the cookies, of the tokens that are live and
\* of those that were given up.
CallSound(c, refresh, live, given) ==
  /\ c.pc = "idle" => c.new = 0 /\ (refresh # 0 => refresh \in live)
  /\ c.pc \in {"looking", "rotating"} =>
       c.kind \in {"page", "route"} /\ c.old = refresh /\ refresh \in live /\ c.new = 0
  /\ c.pc \in {"profile", "persisting"} =>
       /\ c.kind # "page" /\ c.new \in live /\ refresh \notin live
       /\ IF c.kind = "route" THEN c.old = refresh ELSE refresh = 0
  /\ c.pc = "failed" =>
       /\ c.kind \in {"page", "route"} /\ c.new \in given \cup {0} /\ c.old = refresh
       /\ c.kind = "page" /\ refresh # 0 => refresh \in live
  /\ c.pc = "asking" => c.kind \notin {"page", "route"} /\ c.new = 0 /\ refresh = 0
  /\ c.pc = "loggingOut" => c.new = 0 /\ c.old = refresh /\ refresh \in live
  /\ c.pc = "clearing" => c.new = 0 /\ (refresh \in live => refresh \in given)

\* As long as nothing was torn there is one request at a time, and what is live is in
\* the jar, in its hands, or given up.
Untorn ==
  /\ revoked \subseteq IssuedTokens
  /\ \A p, q \in PortalCalls : portalCall[p].pc # "idle" /\ portalCall[q].pc # "idle" => p = q
  /\ \A q \in PortalCalls :
       /\ portalCall[q].pc = "idle" => portalCall[q].new = 0
       /\ portalCall[q].pc # "idle" => CallSound(portalCall[q], jar.refresh, LiveTokens, strays)
  /\ (\A q \in PortalCalls : portalCall[q].pc = "idle") /\ jar.refresh # 0 => jar.refresh \in LiveTokens
  /\ \A t \in LiveTokens : t = jar.refresh \/ t \in strays \/ \E q \in PortalCalls : portalCall[q].new = t

CookieInv == CookieTypes /\ AskedWithToken /\ (~torn => Untorn)

\* The invariant of the portal's session holds at the start.
LEMMA CookieInitInv == PortalSessionInit => CookieInv
<1> SUFFICES ASSUME PortalSessionInit PROVE CookieInv
  OBVIOUS
<1>1. CookieTypes
  <2>1. 0 \in 0..MaxPortalTokens
    BY PortalSessionAssumption
  <2>2. EmptyJar \in [access: {"fresh", "slack", "gone"}, refresh: 0..MaxPortalTokens, mfa: BOOLEAN]
    BY <2>1 DEF EmptyJar
  <2>3. family \in [PortalTokens -> 0..MaxPortalTokens] /\ torn \in BOOLEAN
    BY <2>1 DEF PortalSessionInit
  <2>4. Idling \in [pc: {"idle", "looking", "rotating", "asking", "profile", "persisting", "failed",
             "loggingOut", "clearing"},
        kind: {"page", "route", "sign-in", "verify", "logout"},
        old: 0..MaxPortalTokens, new: 0..MaxPortalTokens]
    BY <2>1 DEF Idling
  <2> QED BY <2>2, <2>3, <2>4 DEF PortalSessionInit, CookieTypes
<1>2. LiveTokens = {} /\ jar.refresh = 0 /\ \A q \in PortalCalls : portalCall[q].pc = "idle" /\ portalCall[q].new = 0
  BY DEF PortalSessionInit, LiveTokens, IssuedTokens, EmptyJar, Idling
<1>3. Untorn
  BY <1>2 DEF PortalSessionInit, Untorn
<1> QED BY <1>1, <1>2, <1>3 DEF CookieInv, AskedWithToken

\* One request goes on, while the others wait.
LEMMA OneCallGoesOn ==
  ASSUME CookieTypes, NEW q \in PortalCalls, NEW c,
         \A p \in PortalCalls : portalCall'[p] = IF p = q THEN c ELSE portalCall[p],
         \A p \in PortalCalls : p # q => portalCall[p].pc = "idle" /\ portalCall[p].new = 0,
         revoked' \subseteq IssuedTokens',
         c.pc = "idle" => c.new = 0,
         CallSound(c, jar'.refresh, LiveTokens', strays'),
         \A t \in LiveTokens' : t = jar'.refresh \/ t \in strays' \/ t = c.new
  PROVE  Untorn'
<1>2. \A p \in PortalCalls : p # q => portalCall'[p].pc = "idle" /\ portalCall'[p].new = 0
  OBVIOUS
<1>3. portalCall'[q] = c
  OBVIOUS
<1>4. \A p, r \in PortalCalls : portalCall'[p].pc # "idle" /\ portalCall'[r].pc # "idle" => p = r
  BY <1>2
<1>5. \A p \in PortalCalls :
        /\ portalCall'[p].pc = "idle" => portalCall'[p].new = 0
        /\ portalCall'[p].pc # "idle" => CallSound(portalCall'[p], jar'.refresh, LiveTokens', strays')
  BY <1>2, <1>3
<1>6. (\A p \in PortalCalls : portalCall'[p].pc = "idle") /\ jar'.refresh # 0 => jar'.refresh \in LiveTokens'
  BY <1>3 DEF CallSound
<1>7. \A t \in LiveTokens' : t = jar'.refresh \/ t \in strays' \/ \E p \in PortalCalls : portalCall'[p].new = t
  BY <1>3
<1> QED BY <1>4, <1>5, <1>6, <1>7 DEF Untorn

\* A request gets further.
CallAfter(q, pc, new) == [pc |-> pc, kind |-> portalCall[q].kind, old |-> portalCall[q].old, new |-> new]

Alters(q, c) == \A p \in PortalCalls : portalCall'[p] = IF p = q THEN c ELSE portalCall[p]

\* A pair is issued for a request.
LEMMA IssueGoesOn ==
  ASSUME CookieTypes, NEW q \in PortalCalls, NEW f \in 0..MaxPortalTokens, Issue(q, f),
         UNCHANGED <<jar>>, torn' \in BOOLEAN
  PROVE  /\ CookieTypes'
         /\ \E t \in PortalTokens \ IssuedTokens :
              t # 0 /\ IssuedTokens' = IssuedTokens \cup {t} /\ Alters(q, CallAfter(q, "profile", t))
<1>1. PICK t \in PortalTokens \ IssuedTokens :
        /\ family' = [family EXCEPT ![t] = IF f = 0 THEN t ELSE f]
        /\ portalCall' = [portalCall EXCEPT ![q].pc = "profile", ![q].new = t]
  BY DEF Issue
<1>2. t # 0 /\ t \in 0..MaxPortalTokens
  BY PortalSessionAssumption DEF PortalTokens
<1>3. family' \in [PortalTokens -> 0..MaxPortalTokens]
  BY <1>1, <1>2 DEF CookieTypes
<1>4. IssuedTokens' = IssuedTokens \cup {t}
  BY <1>1, <1>2 DEF CookieTypes, IssuedTokens
<1>5. CookieTypes'
  BY <1>1, <1>2, <1>3 DEF CookieTypes
<1>6. portalCall'[q] = CallAfter(q, "profile", t)
  BY <1>1 DEF CookieTypes, CallAfter
<1>7. \A p \in PortalCalls : p # q => portalCall'[p] = portalCall[p]
  BY <1>1 DEF CookieTypes
<1> QED BY <1>1, <1>2, <1>4, <1>5, <1>6, <1>7 DEF Alters

\* A call that goes on keeps the types.
LEMMA MoveGoesOn ==
  ASSUME CookieTypes, NEW q \in PortalCalls,
         NEW pc \in {"looking", "rotating", "asking", "profile", "persisting", "failed", "loggingOut", "clearing"},
         Move(q, pc)
  PROVE  Alters(q, CallAfter(q, pc, portalCall[q].new))
BY DEF CookieTypes, Move, CallAfter, Alters

\* A call that ends keeps the types.
LEMMA EndGoesOn == ASSUME CookieTypes, NEW q \in PortalCalls, End(q) PROVE Alters(q, Idling)
BY DEF CookieTypes, End, Alters

\* A call that begins keeps the types.
LEMMA BeginGoesOn ==
  ASSUME CookieTypes, NEW q \in PortalCalls, NEW kind, NEW pc, BeginCall(q, kind, pc), ~ torn'
  PROVE  /\ Alters(q, [pc |-> pc, kind |-> kind, old |-> jar.refresh, new |-> 0])
         /\ \A p \in PortalCalls : portalCall[p].pc = "idle"
BY DEF CookieTypes, BeginCall, Alters

\* Every step keeps the types.
LEMMA CookieNextTypes == CookieTypes /\ AskedWithToken /\ [PortalSessionNext]_cookieVars => CookieTypes'
<1> SUFFICES ASSUME CookieTypes, AskedWithToken, [PortalSessionNext]_cookieVars PROVE CookieTypes'
  OBVIOUS
<1> DEFINE C == [pc: {"idle", "looking", "rotating", "asking", "profile", "persisting", "failed",
             "loggingOut", "clearing"},
        kind: {"page", "route", "sign-in", "verify", "logout"},
        old: 0..MaxPortalTokens, new: 0..MaxPortalTokens]
           J == [access: {"fresh", "slack", "gone"}, refresh: 0..MaxPortalTokens, mfa: BOOLEAN]
<1>z. 0 \in 0..MaxPortalTokens
  BY PortalSessionAssumption
<1>m. ASSUME NEW q \in PortalCalls, NEW pc \in {"looking", "rotating", "asking", "profile", "persisting", "failed", "loggingOut", "clearing"},
             Move(q, pc)
      PROVE  portalCall' \in [PortalCalls -> C]
  BY <1>m DEF CookieTypes, Move
<1>e. ASSUME NEW q \in PortalCalls, End(q) PROVE portalCall' \in [PortalCalls -> C]
  BY <1>e, <1>z DEF CookieTypes, End, Idling
<1>b. ASSUME NEW q \in PortalCalls, NEW kind \in {"page", "route", "sign-in", "verify", "logout"},
             NEW pc \in {"looking", "asking", "failed", "loggingOut", "clearing"}, BeginCall(q, kind, pc)
      PROVE  portalCall' \in [PortalCalls -> C] /\ torn' \in BOOLEAN
  BY <1>b, <1>z DEF CookieTypes, BeginCall
<1>j. EmptyJar \in J
  BY <1>z DEF EmptyJar
<1>1. ASSUME NEW q \in PortalCalls, NEW kind \in {"page", "route"}, RefreshSession(q, kind) PROVE CookieTypes'
  <2>1. PICK pc \in {"looking", "failed"} : BeginCall(q, kind, pc)
    BY <1>1 DEF RefreshSession
  <2> QED BY <1>1, <2>1, <1>b DEF RefreshSession, CookieTypes
<1>2. ASSUME NEW q \in PortalCalls, LookUpToken(q) PROVE CookieTypes'
  <2>1. PICK pc \in {"rotating", "failed"} : Move(q, pc)
    BY <1>2 DEF LookUpToken
  <2> QED BY <1>2, <2>1, <1>m DEF LookUpToken, CookieTypes
<1>3. ASSUME NEW q \in PortalCalls, RotateToken(q) PROVE CookieTypes'
  <2>1. torn' \in BOOLEAN /\ Issue(q, family[portalCall[q].old]) /\ jar' = jar
    BY <1>3 DEF RotateToken
  <2>2. portalCall[q].old \in 0..MaxPortalTokens /\ portalCall[q].old # 0
    BY <1>3 DEF RotateToken, AskedWithToken, CookieTypes
  <2>3. family[portalCall[q].old] \in 0..MaxPortalTokens
    BY <2>2, PortalSessionAssumption DEF CookieTypes, PortalTokens
  <2> QED BY <2>1, <2>3, IssueGoesOn
<1>4. ASSUME NEW q \in PortalCalls, BackendFails(q) \/ FailRefresh(q) \/ ClearSession(q) PROVE CookieTypes'
  <2>1. Move(q, "failed") \/ End(q)
    BY <1>4 DEF BackendFails, FailRefresh, ClearSession
  <2>2. (jar' = jar \/ jar' = EmptyJar) /\ UNCHANGED <<family, torn>>
    BY <1>4 DEF BackendFails, FailRefresh, ClearSession
  <2> QED BY <2>1, <2>2, <1>j, <1>m, <1>e DEF CookieTypes
<1>5. ASSUME NEW q \in PortalCalls,
             AnswerIsLost(q) \/ FetchOwnProfile(q) \/ LogoutAtBackend(q) \/ LogoutUnheard(q)
      PROVE  CookieTypes'
  <2>1. PICK pc \in {"failed", "persisting", "clearing"} : Move(q, pc)
    BY <1>5 DEF AnswerIsLost, FetchOwnProfile, LogoutAtBackend, LogoutUnheard
  <2>2. torn' \in BOOLEAN /\ UNCHANGED <<family, jar>>
    BY <1>5 DEF AnswerIsLost, FetchOwnProfile, LogoutAtBackend, LogoutUnheard, CookieTypes
  <2> QED BY <2>1, <2>2, <1>m DEF CookieTypes
<1>6. ASSUME NEW q \in PortalCalls, PersistSession(q) PROVE CookieTypes'
  <2>1. (jar' = jar /\ Move(q, "failed")) \/ (End(q) /\ jar' = [access |-> "fresh", refresh |-> portalCall[q].new,
                            mfa |-> IF portalCall[q].kind = "route" THEN jar.mfa ELSE FALSE])
    BY <1>6 DEF PersistSession
  <2>2. jar' \in J
    <3> DEFINE m == IF portalCall[q].kind = "route" THEN jar.mfa ELSE FALSE
    <3>1. m \in BOOLEAN /\ portalCall[q].new \in 0..MaxPortalTokens /\ jar \in J
      BY DEF CookieTypes
    <3>2. jar' = jar \/ jar' = [access |-> "fresh", refresh |-> portalCall[q].new, mfa |-> m]
      BY <2>1
    <3> HIDE DEF m
    <3> QED BY <3>1, <3>2
  <2>3. UNCHANGED <<family, torn>>
    BY <1>6 DEF PersistSession
  <2> QED BY <2>1, <2>2, <2>3, <1>m, <1>e DEF CookieTypes
<1>7. ASSUME NEW q \in PortalCalls, BeginSignIn(q) \/ BeginVerifyMfa(q) PROVE CookieTypes'
  <2>1. PICK kind \in {"sign-in", "verify"} : BeginCall(q, kind, "asking")
    BY <1>7 DEF BeginSignIn, BeginVerifyMfa
  <2> QED BY <1>7, <2>1, <1>b DEF BeginSignIn, BeginVerifyMfa, CookieTypes
<1>8. ASSUME NEW q \in PortalCalls, AnswerSignIn(q) PROVE CookieTypes'
  <2>1. UNCHANGED <<torn>> 
    BY <1>8 DEF AnswerSignIn
  <2>4. (Issue(q, 0) /\ jar' = jar) \/ (End(q) /\ family' = family /\ (jar' = jar \/ jar' = [jar EXCEPT !.mfa = TRUE]))
    BY <1>8 DEF AnswerSignIn
  <2>2. CASE Issue(q, 0) /\ jar' = jar
    <3>1. torn' \in BOOLEAN
      BY <2>1 DEF CookieTypes
    <3> QED BY <2>2, <3>1, <1>z, IssueGoesOn
  <2>3. CASE End(q) /\ family' = family /\ (jar' = jar \/ jar' = [jar EXCEPT !.mfa = TRUE])
    <3>1. jar' \in J
      BY <2>3 DEF CookieTypes
    <3> QED BY <2>1, <2>3, <3>1, <1>e DEF CookieTypes
  <2> QED BY <2>2, <2>3, <2>4
<1>9. ASSUME NEW q \in PortalCalls, BeginLogout(q) PROVE CookieTypes'
  <2>1. PICK pc \in {"loggingOut", "clearing"} : BeginCall(q, "logout", pc)
    BY <1>9 DEF BeginLogout
  <2> QED BY <1>9, <2>1, <1>b DEF BeginLogout, CookieTypes
<1>10. CASE AccessExpires \/ PendingMfaExpires
  <2>1. jar' \in J /\ UNCHANGED <<family, portalCall, torn>>
    BY <1>10 DEF AccessExpires, PendingMfaExpires, CookieTypes
  <2> QED BY <2>1 DEF CookieTypes
<1>11. CASE UNCHANGED cookieVars
  BY <1>11 DEF cookieVars, CookieTypes
<1> QED BY <1>1, <1>2, <1>3, <1>4, <1>5, <1>6, <1>7, <1>8, <1>9, <1>10, <1>11 DEF PortalSessionNext

\* Every step keeps that a rotation was asked for with the token of the jar.
LEMMA AskedNext == CookieTypes /\ AskedWithToken /\ [PortalSessionNext]_cookieVars => AskedWithToken'
<1> SUFFICES ASSUME CookieTypes, AskedWithToken, [PortalSessionNext]_cookieVars PROVE AskedWithToken'
  OBVIOUS
<1>a. ASSUME NEW q \in PortalCalls, NEW c, Alters(q, c), c.pc \in {"looking", "rotating"} => c.old # 0
      PROVE  AskedWithToken'
  BY <1>a DEF AskedWithToken, Alters
<1>m. ASSUME NEW q \in PortalCalls, NEW pc \in {"rotating", "asking", "profile", "persisting", "failed", "loggingOut", "clearing"},
             Move(q, pc), pc = "rotating" => portalCall[q].pc = "looking"
      PROVE  AskedWithToken'
  <2>1. Alters(q, CallAfter(q, pc, portalCall[q].new))
    BY <1>m, MoveGoesOn
  <2>2. pc = "rotating" => portalCall[q].old # 0
    BY <1>m DEF AskedWithToken
  <2> QED BY <2>1, <2>2, <1>a DEF CallAfter
<1>e. ASSUME NEW q \in PortalCalls, End(q) PROVE AskedWithToken'
  BY <1>e, <1>a, EndGoesOn DEF Idling
<1>b. ASSUME NEW q \in PortalCalls, NEW kind, NEW pc, BeginCall(q, kind, pc), pc = "looking" => jar.refresh # 0, pc # "rotating"
      PROVE  AskedWithToken'
  BY <1>b DEF CookieTypes, BeginCall, AskedWithToken
<1>i. ASSUME NEW q \in PortalCalls, NEW f, Issue(q, f) PROVE AskedWithToken'
  BY <1>i DEF Issue, CookieTypes, AskedWithToken
<1>1. ASSUME NEW q \in PortalCalls, NEW kind \in {"page", "route"}, RefreshSession(q, kind) PROVE AskedWithToken'
  BY <1>1, <1>b DEF RefreshSession
<1>2. ASSUME NEW q \in PortalCalls, LookUpToken(q) PROVE AskedWithToken'
  <2>1. Move(q, "rotating") \/ Move(q, "failed")
    BY <1>2 DEF LookUpToken
  <2>2. portalCall[q].pc = "looking"
    BY <1>2 DEF LookUpToken
  <2> QED BY <2>1, <2>2, <1>m
<1>3. ASSUME NEW q \in PortalCalls, RotateToken(q) PROVE AskedWithToken'
  BY <1>3, <1>i DEF RotateToken
<1>4. ASSUME NEW q \in PortalCalls, BackendFails(q) \/ FailRefresh(q) \/ ClearSession(q) PROVE AskedWithToken'
  <2>1. Move(q, "failed") \/ End(q)
    BY <1>4 DEF BackendFails, FailRefresh, ClearSession
  <2> QED BY <2>1, <1>m, <1>e
<1>5. ASSUME NEW q \in PortalCalls,
             AnswerIsLost(q) \/ FetchOwnProfile(q) \/ LogoutAtBackend(q) \/ LogoutUnheard(q)
      PROVE  AskedWithToken'
  <2>1. PICK pc \in {"failed", "persisting", "clearing"} : Move(q, pc)
    BY <1>5 DEF AnswerIsLost, FetchOwnProfile, LogoutAtBackend, LogoutUnheard
  <2> QED BY <2>1, <1>m
<1>6. ASSUME NEW q \in PortalCalls, PersistSession(q) PROVE AskedWithToken'
  <2>1. Move(q, "failed") \/ End(q)
    BY <1>6 DEF PersistSession
  <2> QED BY <2>1, <1>m, <1>e
<1>7. ASSUME NEW q \in PortalCalls, BeginSignIn(q) \/ BeginVerifyMfa(q) PROVE AskedWithToken'
  <2>1. PICK kind \in {"sign-in", "verify"} : BeginCall(q, kind, "asking")
    BY <1>7 DEF BeginSignIn, BeginVerifyMfa
  <2> QED BY <2>1, <1>b
<1>8. ASSUME NEW q \in PortalCalls, AnswerSignIn(q) PROVE AskedWithToken'
  <2>1. Issue(q, 0) \/ End(q)
    BY <1>8 DEF AnswerSignIn
  <2> QED BY <2>1, <1>i, <1>e
<1>9. ASSUME NEW q \in PortalCalls, BeginLogout(q) PROVE AskedWithToken'
  <2>1. PICK pc \in {"loggingOut", "clearing"} : BeginCall(q, "logout", pc)
    BY <1>9 DEF BeginLogout
  <2> QED BY <2>1, <1>b
<1>10. CASE AccessExpires \/ PendingMfaExpires \/ UNCHANGED cookieVars
  BY <1>10 DEF AccessExpires, PendingMfaExpires, cookieVars, AskedWithToken
<1> QED BY <1>1, <1>2, <1>3, <1>4, <1>5, <1>6, <1>7, <1>8, <1>9, <1>10 DEF PortalSessionNext

-----------------------------------------------------------------------------
\* Unless two calls of the portal cross, the jar holds the newest token of its family.
LEMMA UntornNext == CookieInv /\ [PortalSessionNext]_cookieVars /\ ~ torn' => Untorn'
<1> SUFFICES ASSUME CookieInv, [PortalSessionNext]_cookieVars, ~ torn' PROVE Untorn'
  OBVIOUS
<1>t. CookieTypes
  BY DEF CookieInv
<1>u. ASSUME ~ torn PROVE Untorn
  BY <1>u DEF CookieInv
<1>g. ASSUME NEW q \in PortalCalls, NEW c, Untorn, Alters(q, c),
             portalCall[q].pc # "idle" \/ \A p \in PortalCalls : portalCall[p].pc = "idle",
             revoked' \subseteq IssuedTokens',
             CallSound(c, jar'.refresh, LiveTokens', strays'),
             \A t \in LiveTokens' : t = jar'.refresh \/ t \in strays' \/ t = c.new
      PROVE  Untorn'
  <2>1. \A p \in PortalCalls : p # q => portalCall[p].pc = "idle" /\ portalCall[p].new = 0
    BY <1>g DEF Untorn
  <2>2. c.pc = "idle" => c.new = 0
    BY <1>g DEF CallSound
  <2> QED BY <1>g, <1>t, <2>1, <2>2, OneCallGoesOn DEF Alters
\* What is known of the tokens while q is at work.
<1>k. ASSUME NEW q \in PortalCalls, Untorn, portalCall[q].pc # "idle"
      PROVE  /\ CallSound(portalCall[q], jar.refresh, LiveTokens, strays)
             /\ \A t \in LiveTokens : t = jar.refresh \/ t \in strays \/ t = portalCall[q].new
             /\ revoked \subseteq IssuedTokens /\ 0 \notin LiveTokens
  <2>1. \A p \in PortalCalls : p # q => portalCall[p].new = 0
    BY <1>k DEF Untorn
  <2>2. 0 \notin LiveTokens
    BY PortalSessionAssumption DEF LiveTokens, IssuedTokens, PortalTokens
  <2> QED BY <1>k, <2>1, <2>2 DEF Untorn
\* ... and while none is.
<1>i. ASSUME Untorn, \A p \in PortalCalls : portalCall[p].pc = "idle"
      PROVE  /\ \A t \in LiveTokens : t = jar.refresh \/ t \in strays
             /\ jar.refresh # 0 => jar.refresh \in LiveTokens
             /\ revoked \subseteq IssuedTokens /\ 0 \notin LiveTokens
  <2>1. \A p \in PortalCalls : portalCall[p].new = 0
    BY <1>i DEF Untorn
  <2>2. 0 \notin LiveTokens
    BY PortalSessionAssumption DEF LiveTokens, IssuedTokens, PortalTokens
  <2> QED BY <1>i, <2>1, <2>2 DEF Untorn
<1>s. UNCHANGED <<family, revoked>> => LiveTokens' = LiveTokens /\ IssuedTokens' = IssuedTokens
  BY DEF LiveTokens, IssuedTokens
<1>1. ASSUME NEW q \in PortalCalls, NEW kind \in {"page", "route"}, RefreshSession(q, kind) PROVE Untorn'
  <2> DEFINE pc == IF jar.refresh = 0 THEN "failed" ELSE "looking"
             c == [pc |-> pc, kind |-> kind, old |-> jar.refresh, new |-> 0]
  <2>1. BeginCall(q, kind, pc) /\ UNCHANGED <<family, revoked, jar, strays>> /\ ~ torn
    BY <1>1, <1>t DEF RefreshSession, BeginCall, CookieTypes
  <2>2. Alters(q, c) /\ \A p \in PortalCalls : portalCall[p].pc = "idle"
    BY <2>1, <1>t, BeginGoesOn
  <2>3. CallSound(c, jar.refresh, LiveTokens, strays)
    BY <2>1, <2>2, <1>u, <1>i DEF CallSound
  <2>4. Untorn /\ c.new = 0
    BY <2>1, <1>u
  <2> HIDE DEF c
  <2> QED BY <2>1, <2>2, <2>3, <2>4, <1>g, <1>i, <1>s
<1>2. ASSUME NEW q \in PortalCalls, LookUpToken(q) PROVE Untorn'
  <2>1. ~ torn /\ portalCall[q].pc = "looking"
    BY <1>2 DEF LookUpToken
  <2>2. portalCall[q].old \in LiveTokens
    BY <2>1, <1>u, <1>k DEF CallSound
  <2>3. Move(q, "rotating") /\ UNCHANGED <<family, revoked, jar, strays>>
    BY <1>2, <2>2 DEF LookUpToken, LiveTokens
  <2> DEFINE c == CallAfter(q, "rotating", portalCall[q].new)
  <2>4. Alters(q, c)
    BY <2>3, <1>t, MoveGoesOn
  <2>5. CallSound(c, jar.refresh, LiveTokens, strays) /\ c.new = portalCall[q].new
    BY <2>1, <1>u, <1>k DEF CallSound, CallAfter
  <2> HIDE DEF c
  <2> QED BY <2>1, <2>3, <2>4, <2>5, <1>g, <1>k, <1>s, <1>u
<1>3. ASSUME NEW q \in PortalCalls, RotateToken(q) PROVE Untorn'
  <2>1. /\ ~ torn /\ portalCall[q].kind # "page" /\ portalCall[q].pc = "rotating"
        /\ revoked' = revoked \cup {portalCall[q].old} /\ UNCHANGED <<jar, strays>> /\ torn' = torn
        /\ Issue(q, family[portalCall[q].old])
    BY <1>3, <1>t DEF RotateToken, CookieTypes
  <2>2. /\ portalCall[q].old = jar.refresh /\ jar.refresh \in LiveTokens /\ portalCall[q].kind = "route"
        /\ portalCall[q].new = 0
    BY <2>1, <1>u, <1>k DEF CallSound
  <2>3. family[portalCall[q].old] \in 0..MaxPortalTokens
    BY <2>2, <1>t DEF LiveTokens, IssuedTokens, CookieTypes
  <2>4. PICK t \in PortalTokens \ IssuedTokens :
          t # 0 /\ IssuedTokens' = IssuedTokens \cup {t} /\ Alters(q, CallAfter(q, "profile", t))
    <3>1. torn' \in BOOLEAN /\ UNCHANGED <<jar>>
      BY <2>1, <1>t DEF CookieTypes
    <3> QED BY <2>1, <2>3, <3>1, <1>t, IssueGoesOn
  <2>5. LiveTokens' = (LiveTokens \ {jar.refresh}) \cup {t} /\ revoked' \subseteq IssuedTokens'
    BY <2>1, <2>2, <2>4, <1>u, <1>k DEF LiveTokens
  <2> DEFINE c == CallAfter(q, "profile", t)
  <2>6. CallSound(c, jar'.refresh, LiveTokens', strays') /\ c.new = t
    BY <2>1, <2>2, <2>4, <2>5 DEF CallSound, CallAfter, LiveTokens
  <2>7. Alters(q, c)
    BY <2>4
  <2> HIDE DEF c
  <2> QED BY <2>1, <2>2, <2>5, <2>6, <2>7, <1>g, <1>k, <1>u
\* What leaves the tokens and the jar as they are.
<1>4. ASSUME NEW q \in PortalCalls, NEW c, portalCall[q].pc # "idle", ~ torn, Alters(q, c),
             UNCHANGED <<family, revoked, jar>>, strays \subseteq strays',
             portalCall[q].new = c.new \/ portalCall[q].new \in strays' \cup {0},
             CallSound(c, jar.refresh, LiveTokens, strays')
      PROVE  Untorn'
  <2>1. Untorn
    BY <1>4, <1>u
  <2>2. \A t \in LiveTokens : t = jar.refresh \/ t \in strays' \/ t = c.new
    BY <1>4, <2>1, <1>k
  <2>3. revoked' \subseteq IssuedTokens' /\ LiveTokens' = LiveTokens /\ jar' = jar
    BY <1>4, <2>1, <1>k, <1>s
  <2> QED BY <1>4, <2>1, <2>2, <2>3, <1>g
<1>5. ASSUME NEW q \in PortalCalls, BackendFails(q) PROVE Untorn'
  <2>1. /\ ~ torn /\ portalCall[q].pc \in {"looking", "profile"} /\ strays' = strays \cup ({portalCall[q].new} \ {0})
        /\ UNCHANGED <<family, revoked, jar>>
    BY <1>5 DEF BackendFails
  <2>2. CallSound(portalCall[q], jar.refresh, LiveTokens, strays)
    BY <2>1, <1>u, <1>k
  <2>3. CASE portalCall[q].kind \in {"page", "route"}
    <3> DEFINE c == CallAfter(q, "failed", portalCall[q].new)
    <3>1. Alters(q, c)
      BY <1>5, <2>3, <1>t, MoveGoesOn DEF BackendFails
    <3>2. CallSound(c, jar.refresh, LiveTokens, strays') /\ c.new = portalCall[q].new
      BY <2>1, <2>2, <2>3 DEF CallSound, CallAfter
    <3> HIDE DEF c
    <3> QED BY <2>1, <3>1, <3>2, <1>4
  <2>4. CASE portalCall[q].kind \notin {"page", "route"}
    <3>1. Alters(q, Idling)
      BY <1>5, <2>4, <1>t, EndGoesOn DEF BackendFails
    <3>2. CallSound(Idling, jar.refresh, LiveTokens, strays')
      BY <2>1, <2>2, <2>4 DEF CallSound, Idling
    <3> QED BY <2>1, <3>1, <3>2, <1>4
  <2> QED BY <2>3, <2>4
<1>6. ASSUME NEW q \in PortalCalls, FetchOwnProfile(q) PROVE Untorn'
  <2> DEFINE c == CallAfter(q, "persisting", portalCall[q].new)
  <2>1. ~ torn /\ portalCall[q].pc = "profile" /\ UNCHANGED <<family, revoked, jar, strays>> /\ Alters(q, c)
    BY <1>6, <1>t, MoveGoesOn DEF FetchOwnProfile
  <2>2. CallSound(c, jar.refresh, LiveTokens, strays') /\ c.new = portalCall[q].new
    BY <2>1, <1>u, <1>k DEF CallSound, CallAfter
  <2> HIDE DEF c
  <2> QED BY <2>1, <2>2, <1>4
<1>7. ASSUME NEW q \in PortalCalls, PersistSession(q) PROVE Untorn'
  <2>1. ~ torn /\ portalCall[q].pc = "persisting" /\ UNCHANGED <<family, revoked, strays>>
    BY <1>7 DEF PersistSession
  <2>2. CallSound(portalCall[q], jar.refresh, LiveTokens, strays) /\ portalCall[q].kind # "page"
    BY <2>1, <1>u, <1>k DEF CallSound
  <2>3. jar'.refresh = portalCall[q].new /\ End(q)
    BY <1>7, <2>2 DEF PersistSession
  <2>4. Alters(q, Idling)
    BY <2>3, <1>t, EndGoesOn
  <2>5. CallSound(Idling, jar'.refresh, LiveTokens, strays)
    BY <2>1, <2>2, <2>3 DEF CallSound, Idling
  <2>6. \A t \in LiveTokens : t = jar'.refresh \/ t \in strays
    BY <2>1, <2>2, <2>3, <1>u, <1>k DEF CallSound
  <2> QED BY <2>1, <2>4, <2>5, <2>6, <1>g, <1>k, <1>u, <1>s
<1>8. ASSUME NEW q \in PortalCalls, FailRefresh(q) PROVE Untorn'
  <2>1. ~ torn /\ portalCall[q].pc = "failed" /\ UNCHANGED <<family, revoked>> /\ Alters(q, Idling)
    BY <1>8, <1>t, EndGoesOn DEF FailRefresh
  <2>2. CallSound(portalCall[q], jar.refresh, LiveTokens, strays)
    BY <2>1, <1>u, <1>k
  <2>3. CASE portalCall[q].kind = "page"
    <3>1. UNCHANGED <<jar, strays>>
      BY <1>8, <2>3 DEF FailRefresh
    <3>2. CallSound(Idling, jar.refresh, LiveTokens, strays') /\ portalCall[q].new \in strays \cup {0}
      BY <2>1, <2>2, <2>3, <3>1 DEF CallSound, Idling
    <3> QED BY <2>1, <3>1, <3>2, <1>4
  <2>4. CASE portalCall[q].kind # "page"
    <3>1. jar'.refresh = 0 /\ strays' = strays \cup ({portalCall[q].old} \ {0})
      BY <1>8, <2>4 DEF FailRefresh, EmptyJar
    <3>2. CallSound(Idling, jar'.refresh, LiveTokens, strays') /\ portalCall[q].new \in strays \cup {0} /\ portalCall[q].old = jar.refresh
      BY <2>1, <2>2, <3>1 DEF CallSound, Idling
    <3>3. \A t \in LiveTokens : t \in strays'
      BY <2>1, <3>1, <3>2, <1>u, <1>k
    <3> QED BY <2>1, <3>2, <3>3, <1>g, <1>k, <1>u, <1>s
  <2> QED BY <2>3, <2>4
<1>9. ASSUME NEW q \in PortalCalls, BeginSignIn(q) \/ BeginVerifyMfa(q) PROVE Untorn'
  <2>1. PICK kind \in {"sign-in", "verify"} : BeginCall(q, kind, "asking")
    BY <1>9 DEF BeginSignIn, BeginVerifyMfa
  <2>2. jar.refresh = 0 /\ UNCHANGED <<family, revoked, jar, strays>> /\ ~ torn
    BY <1>9, <2>1, <1>t DEF BeginSignIn, BeginVerifyMfa, HasSession, BeginCall, CookieTypes
  <2> DEFINE c == [pc |-> "asking", kind |-> kind, old |-> jar.refresh, new |-> 0]
  <2>3. Alters(q, c) /\ \A p \in PortalCalls : portalCall[p].pc = "idle"
    BY <2>1, <1>t, BeginGoesOn
  <2>4. CallSound(c, jar.refresh, LiveTokens, strays)
    BY <2>2 DEF CallSound
  <2> HIDE DEF c
  <2> QED BY <2>2, <2>3, <2>4, <1>g, <1>i, <1>s, <1>u
<1>10. ASSUME NEW q \in PortalCalls, AnswerSignIn(q) PROVE Untorn'
  <2>1. ~ torn /\ portalCall[q].pc = "asking" /\ UNCHANGED <<revoked, strays, torn>>
    BY <1>10 DEF AnswerSignIn
  <2>2. CallSound(portalCall[q], jar.refresh, LiveTokens, strays) /\ jar.refresh = 0 /\ portalCall[q].new = 0
    BY <2>1, <1>u, <1>k DEF CallSound
  <2>3. CASE Issue(q, 0) /\ jar' = jar
    <3>1. torn' \in BOOLEAN /\ UNCHANGED <<jar>> /\ 0 \in 0..MaxPortalTokens
      BY <2>1, <2>3, <1>t, PortalSessionAssumption DEF CookieTypes
    <3>2. PICK t \in PortalTokens \ IssuedTokens :
            t # 0 /\ IssuedTokens' = IssuedTokens \cup {t} /\ Alters(q, CallAfter(q, "profile", t))
      BY <2>3, <3>1, <1>t, IssueGoesOn
    <3>3. LiveTokens' = LiveTokens \cup {t} /\ revoked' \subseteq IssuedTokens' /\ 0 \notin LiveTokens
      BY <2>1, <3>2, <1>u, <1>k DEF LiveTokens
    <3> DEFINE c == CallAfter(q, "profile", t)
    <3>4. CallSound(c, jar'.refresh, LiveTokens', strays') /\ c.new = t
      BY <2>1, <2>2, <2>3, <3>2, <3>3 DEF CallSound, CallAfter
    <3>5. Alters(q, c)
      BY <3>2
    <3> HIDE DEF c
    <3> QED BY <2>1, <2>2, <2>3, <3>3, <3>4, <3>5, <1>g, <1>k, <1>u
  <2>4. CASE End(q) /\ family' = family /\ jar'.refresh = jar.refresh
    <3>1. Alters(q, Idling)
      BY <2>4, <1>t, EndGoesOn
    <3>2. CallSound(Idling, jar'.refresh, LiveTokens, strays) /\ \A t \in LiveTokens : t = jar'.refresh \/ t \in strays
      BY <2>1, <2>2, <2>4, <1>u, <1>k DEF CallSound, Idling
    <3> QED BY <2>1, <2>4, <3>1, <3>2, <1>g, <1>k, <1>u, <1>s
  <2>5. (Issue(q, 0) /\ jar' = jar) \/ (End(q) /\ family' = family /\ (jar' = jar \/ jar' = [jar EXCEPT !.mfa = TRUE]))
    BY <1>10 DEF AnswerSignIn
  <2>6. jar' = [jar EXCEPT !.mfa = TRUE] => jar'.refresh = jar.refresh
    BY <1>t DEF CookieTypes
  <2> QED BY <2>3, <2>4, <2>5, <2>6
<1>11. ASSUME NEW q \in PortalCalls, BeginLogout(q) PROVE Untorn'
  <2> DEFINE pc == IF jar.access # "gone" /\ jar.refresh # 0 THEN "loggingOut" ELSE "clearing"
             c == [pc |-> pc, kind |-> "logout", old |-> jar.refresh, new |-> 0]
  <2>1. /\ BeginCall(q, "logout", pc) /\ UNCHANGED <<family, revoked, jar>> /\ ~ torn
        /\ strays' = IF jar.access = "gone" THEN strays \cup ({jar.refresh} \ {0}) ELSE strays
    BY <1>11, <1>t DEF BeginLogout, BeginCall, CookieTypes
  <2>2. Alters(q, c) /\ \A p \in PortalCalls : portalCall[p].pc = "idle"
    BY <2>1, <1>t, BeginGoesOn
  <2>3. CallSound(c, jar.refresh, LiveTokens, strays') /\ c.new = 0
    BY <2>1, <2>2, <1>u, <1>i DEF CallSound
  <2> HIDE DEF c
  <2> QED BY <2>1, <2>2, <2>3, <1>g, <1>i, <1>s, <1>u
<1>12. ASSUME NEW q \in PortalCalls, LogoutAtBackend(q) PROVE Untorn'
  <2> DEFINE c == CallAfter(q, "clearing", portalCall[q].new)
  <2>1. /\ ~ torn /\ portalCall[q].pc = "loggingOut" /\ Alters(q, c) /\ UNCHANGED <<family, jar, strays>>
        /\ revoked' = revoked \cup {portalCall[q].old}
    BY <1>12, <1>t, MoveGoesOn DEF LogoutAtBackend
  <2>2. CallSound(portalCall[q], jar.refresh, LiveTokens, strays) /\ portalCall[q].old = jar.refresh /\ portalCall[q].new = 0
    BY <2>1, <1>u, <1>k DEF CallSound
  <2>3. LiveTokens' = LiveTokens \ {jar.refresh} /\ IssuedTokens' = IssuedTokens
    BY <2>1, <2>2 DEF LiveTokens, IssuedTokens
  <2>4. CallSound(c, jar.refresh, LiveTokens', strays) /\ c.new = 0
    BY <2>2, <2>3 DEF CallSound, CallAfter
  <2>5. jar.refresh \in IssuedTokens
    BY <2>1, <1>u, <1>k DEF CallSound, LiveTokens
  <2> HIDE DEF c
  <2> QED BY <2>1, <2>2, <2>3, <2>4, <2>5, <1>g, <1>k, <1>u
<1>13. ASSUME NEW q \in PortalCalls, LogoutUnheard(q) PROVE Untorn'
  <2> DEFINE c == CallAfter(q, "clearing", portalCall[q].new)
  <2>1. /\ ~ torn /\ portalCall[q].pc = "loggingOut" /\ Alters(q, c) /\ UNCHANGED <<family, revoked, jar>>
        /\ strays' = strays \cup {portalCall[q].old}
    BY <1>13, <1>t, MoveGoesOn DEF LogoutUnheard
  <2>2. portalCall[q].old = jar.refresh /\ portalCall[q].new = 0
    BY <2>1, <1>u, <1>k DEF CallSound
  <2>3. CallSound(c, jar.refresh, LiveTokens, strays') /\ c.new = portalCall[q].new
    BY <2>1, <2>2 DEF CallSound, CallAfter
  <2> HIDE DEF c
  <2> QED BY <2>1, <2>3, <1>4
<1>14. ASSUME NEW q \in PortalCalls, ClearSession(q) PROVE Untorn'
  <2>1. /\ ~ torn /\ portalCall[q].pc = "clearing" /\ Alters(q, Idling) /\ jar'.refresh = 0
        /\ UNCHANGED <<family, revoked, strays>>
    BY <1>14, <1>t, EndGoesOn DEF ClearSession, EmptyJar
  <2>2. \A t \in LiveTokens : t \in strays
    BY <2>1, <1>u, <1>k DEF CallSound
  <2>3. CallSound(Idling, jar'.refresh, LiveTokens, strays)
    BY <2>1 DEF CallSound, Idling
  <2> QED BY <2>1, <2>2, <2>3, <1>g, <1>k, <1>u, <1>s
<1>15. CASE AccessExpires \/ PendingMfaExpires \/ UNCHANGED cookieVars
  <2>1. ~ torn /\ jar'.refresh = jar.refresh /\ UNCHANGED <<family, revoked, portalCall, strays>>
    BY <1>15, <1>t DEF AccessExpires, PendingMfaExpires, cookieVars, CookieTypes
  <2> QED BY <2>1, <1>u, <1>s DEF Untorn
<1>16. ASSUME NEW q \in PortalCalls, AnswerIsLost(q) PROVE FALSE
  BY <1>16 DEF AnswerIsLost
<1> QED BY <1>1, <1>2, <1>3, <1>5, <1>6, <1>7, <1>8, <1>9, <1>10, <1>11, <1>12, <1>13, <1>14, <1>15, <1>16 DEF PortalSessionNext

\* Every step keeps the invariant of the session.
LEMMA CookieNextInv == CookieInv /\ [PortalSessionNext]_cookieVars => CookieInv'
BY CookieNextTypes, AskedNext, UntornNext DEF CookieInv

\* What the invariant says once no call is under way.
LEMMA CookieInvMeans == CookieInv => PortalSessionAgrees
<1> SUFFICES ASSUME CookieInv, ~ torn, \A q \in PortalCalls : portalCall[q].pc = "idle"
             PROVE  (jar.refresh # 0 => jar.refresh \in LiveTokens) /\ LiveTokens \subseteq {jar.refresh} \cup strays
  BY DEF PortalSessionAgrees
<1>1. \A q \in PortalCalls : portalCall[q].new = 0
  BY DEF CookieInv, Untorn
<1>2. 0 \notin LiveTokens
  BY PortalSessionAssumption DEF LiveTokens, IssuedTokens, PortalTokens
<1> QED BY <1>1, <1>2 DEF CookieInv, Untorn

\* Between requests the browser holds the one token of its user the backend accepts,
\* but for those given up without a word, unless a page refreshed, requests overlapped
\* or an answer was lost (auth.ts, iam.service.ts).
THEOREM CookiesHoldTheSession == PortalSessionSpec => []PortalSessionAgrees
BY CookieInitInv, CookieNextInv, CookieInvMeans, PTL DEF PortalSessionSpec

-----------------------------------------------------------------------------
\* The streams of a call.  What the messages carry.
LEMMA MessagesCarry ==
  ASSUME NEW m \in ToViewer
  PROVE  /\ m.type = "join_ok" => m.speaker \in Speaker
         /\ m.type \in {"consume_ok", "resume_ok", "error"} => m.of \in Consumptions
         /\ m.type \in {"participant_joined", "mute_changed", "moderator_mute"} => m.muted \in BOOLEAN
         /\ m.type = "new_producer" => m.stream \in Streams
BY DEF ToViewer

\* The fields of a request on its way.
LEMMA RequestsCarry ==
  ASSUME NEW r \in Request
  PROVE  /\ r.type \in {"consume", "resume_consumer"} => r.of \in Consumptions
         /\ r.type \in {"join", "create_send_transport", "produce", "create_recv_transport"} => r = [type |-> r.type]
         /\ r.type \in {"join", "create_send_transport", "produce", "create_recv_transport", "consume", "resume_consumer"}
BY DEF Request

\* What a consumption names.
LEMMA ConsumptionsName ==
  /\ \A k \in Consumptions : k[1] \in Streams /\ k[2] \in {"listed", "announced"}
  /\ \A p \in Streams : <<p, "listed">> \in Consumptions /\ <<p, "announced">> \in Consumptions
BY DEF Consumptions

-----------------------------------------------------------------------------
\* connect() waits for one answer at a time, which it has not got twice.
StepRequests == {"join", "create_send_transport", "produce", "create_recv_transport"}
StepAnswers == {"join_ok", "send_ok", "produce_ok", "recv_ok"}

InTurn(type) ==
  \/ stage = "join" /\ type \in {"join", "join_ok"}
  \/ stage = "send" /\ type \in {"create_send_transport", "send_ok"}
  \/ stage = "produce" /\ type \in {"produce", "produce_ok"}
  \/ stage = "recv" /\ type \in {"create_recv_transport", "recv_ok"}

StepsInTurn ==
  /\ \A r \in requests : r.type \in StepRequests => InTurn(r.type)
  /\ \A i \in DOMAIN toViewer : toViewer[i].type \in StepAnswers =>
       /\ InTurn(toViewer[i].type)
       /\ \A r \in requests : r.type \notin StepRequests
       /\ \A j \in DOMAIN toViewer : toViewer[j].type \in StepAnswers => j = i

\* The viewer hears nothing before he has joined, and the answer to that comes first.
JoinedFirst ==
  /\ stage \in {"setup", "closed"} => ~viewerIn /\ requests = {}
  /\ ~viewerIn => toViewer = <<>> /\ stage \in {"setup", "join", "closed"}
  /\ viewerIn /\ stage = "join" => toViewer # <<>> /\ toViewer[1].type = "join_ok"
  /\ \A r \in requests : r.type = "join" => ~viewerIn

Early == stage \in {"setup", "join", "load", "send", "produce", "recv"}

NothingShownYet ==
  /\ Early => toConsume = {} /\ known = {} /\ \A k \in Consumptions : consuming[k] = "no"
  /\ stage = "connected" => toConsume = {}

\* A consumption that waits for the server waits for one answer.
InFlight ==
  /\ \A r \in requests :
       /\ r.type = "consume" => consuming[r.of] = "asked"
       /\ r.type = "resume_consumer" => consuming[r.of] = "resuming"
  /\ \A i \in DOMAIN toViewer :
       /\ toViewer[i].type = "consume_ok" => consuming[toViewer[i].of] = "asked"
       /\ toViewer[i].type = "resume_ok" => consuming[toViewer[i].of] = "resuming"
       /\ toViewer[i].type = "error" => consuming[toViewer[i].of] \in {"asked", "resuming"}
       /\ toViewer[i].type \in {"consume_ok", "resume_ok", "error"} =>
            /\ \A r \in requests : r.type \in {"consume", "resume_consumer"} => r.of # toViewer[i].of
            /\ \A j \in DOMAIN toViewer :
                 toViewer[j].type \in {"consume_ok", "resume_ok", "error"} /\ toViewer[j].of = toViewer[i].of => j = i

\* The streams that the answer to "join" names and are not consumed yet.
Coming ==
  IF stage = "join" /\ viewerIn THEN toViewer[1].speaker.producers
  ELSE IF stage \in {"load", "send", "produce", "recv"} THEN answer.producers ELSE toConsume

SpeakerAnnounced(i, p) == i \in DOMAIN toViewer /\ toViewer[i].type = "new_producer" /\ toViewer[i].stream = p

Idle(p) == \A k \in Consumptions : k[1] = p => consuming[k] = "no"

\* A stream is named to the client once, in the list or later, and consumed then.
ListedOnce == \A p \in Coming : p \notin known /\ Idle(p) /\ \A i : ~SpeakerAnnounced(i, p)

AnnouncedOnce ==
  \A p \in Streams : \A i : SpeakerAnnounced(i, p) =>
    p \in produced \ known /\ Idle(p) /\ \A j : SpeakerAnnounced(j, p) => j = i

ConsumedOnce ==
  \A k \in Consumptions : consuming[k] # "no" =>
    k[1] \in produced /\ \A l \in Consumptions : l[1] = k[1] /\ consuming[l] # "no" => l = k

NamedOnce ==
  /\ speaker.producers \subseteq produced /\ known \subseteq produced /\ Coming \subseteq produced
  /\ ListedOnce /\ AnnouncedOnce /\ ConsumedOnce

ShownOnce ==
  /\ \A p \in Streams : tile[p] = IF p \in known THEN 1 ELSE 0
  /\ \A k \in Consumptions : consuming[k] \in {"asked", "building"} => k[1] \notin known

\* A stream of the speaker is shown, or will be; ...
SoonShown == \A p \in speaker.producers : p \in Coming \cup known \cup unseen \/ ~Idle(p) \/ \E i : SpeakerAnnounced(i, p)

ResumedIsShown == \A k \in Consumptions : consuming[k] = "resuming" => k[1] \in known \/ k[1] \notin speaker.producers

ErrorsTell == \A i \in DOMAIN toViewer : toViewer[i].type = "error" => toViewer[i].of[1] \notin speaker.producers

LeftBefore ==
  \A i \in DOMAIN toViewer : toViewer[i].type = "participant_left" =>
    \A p \in speaker.producers : \E j : j > i /\ SpeakerAnnounced(j, p)

NoneIsMissed == (viewerIn => SoonShown) /\ ResumedIsShown /\ ErrorsTell /\ LeftBefore

\* ... and one that is gone is hidden when the client hears that the speaker left.
NoneLingers ==
  viewerIn => \A p \in Streams \ speaker.producers :
    /\ p \in known \/ (\E k \in Consumptions : k[1] = p /\ consuming[k] = "building") =>
         p \in late \/ \E i \in DOMAIN toViewer : toViewer[i].type = "participant_left"
    /\ \A i \in DOMAIN toViewer : toViewer[i].type = "consume_ok" /\ toViewer[i].of[1] = p =>
         \E j \in DOMAIN toViewer : j > i /\ toViewer[j].type = "participant_left"

\* The last that is said of the speaker is how he is; ...
OfSpeaker(i) == i \in DOMAIN toViewer /\ toViewer[i].type \in {"participant_joined", "participant_left", "mute_changed"}

Says(m) == IF m.type = "participant_left" THEN Absentee ELSE [here |-> TRUE, muted |-> m.muted]

FirstSight ==
  IF stage = "join" THEN [here |-> toViewer[1].speaker.here, muted |-> toViewer[1].speaker.muted]
  ELSE IF stage = "load" THEN [here |-> answer.here, muted |-> answer.muted] ELSE person

SightInv ==
  LET him == [here |-> speaker.here, muted |-> speaker.muted]
  IN  /\ \A i : OfSpeaker(i) /\ (\A j : j > i => ~OfSpeaker(j)) => Says(toViewer[i]) = him
      /\ viewerIn /\ ~stale /\ (\A i : ~OfSpeaker(i)) => FirstSight = him

\* ... and unless they crossed, the moderator's mutes and the viewer's own are not
\* under way together, and the last is how the viewer is.
Moderated(i) == i \in DOMAIN toViewer /\ toViewer[i].type = "moderator_mute"

MutesInv == ~crossed =>
  /\ setMutes = <<>> \/ \A i : ~Moderated(i)
  /\ ~viewerIn /\ stage # "closed" => ~mutedHere /\ setMutes = <<>>
  /\ viewerIn /\ setMutes # <<>> => setMutes[Len(setMutes)] = mutedHere
  /\ \A i : Moderated(i) /\ (\A j : j > i => ~Moderated(j)) => toViewer[i].muted = mutedThere
  /\ viewerIn /\ setMutes = <<>> /\ (\A i : ~Moderated(i)) => mutedHere = mutedThere

-----------------------------------------------------------------------------
\* The types hold at the start.
LEMMA StreamTypesInit == MediaStreamsInit => MediaStreamsTypeOK
<1> SUFFICES ASSUME MediaStreamsInit PROVE MediaStreamsTypeOK
  OBVIOUS
<1>1. toViewer \in Seq(ToViewer) /\ setMutes \in Seq(BOOLEAN)
  BY DEF MediaStreamsInit
<1>2. speaker \in Speaker /\ answer \in Speaker /\ person \in Person
  BY DEF MediaStreamsInit, Speaker, Person, Absentee
<1>3. /\ consuming \in [Consumptions -> {"no", "asked", "building", "resuming"}]
      /\ tile \in [Streams -> 0..2]
  BY DEF MediaStreamsInit
<1>4. stage \in Stages /\ streamMoves \in 0..MaxStreamMoves
  BY MediaStreamsAssumption DEF MediaStreamsInit, Stages
<1>5. requests \subseteq Request /\ speaker.producers = {}
  BY DEF MediaStreamsInit
<1> QED BY <1>1, <1>2, <1>3, <1>4, <1>5 DEF MediaStreamsInit, MediaStreamsTypeOK

\* Every step keeps the types.
LEMMA StreamTypesNext == MediaStreamsTypeOK /\ ShownOnce /\ [MediaStreamsNext]_streamVars => MediaStreamsTypeOK'
<1> SUFFICES ASSUME MediaStreamsTypeOK, ShownOnce, [MediaStreamsNext]_streamVars PROVE MediaStreamsTypeOK'
  OBVIOUS
<1>0. /\ \A b \in BOOLEAN : [type |-> "participant_joined", muted |-> b] \in ToViewer
      /\ \A b \in BOOLEAN : [type |-> "mute_changed", muted |-> b] \in ToViewer
      /\ \A b \in BOOLEAN : [type |-> "moderator_mute", muted |-> b] \in ToViewer
      /\ \A p \in Streams : [type |-> "new_producer", stream |-> p] \in ToViewer
      /\ [type |-> "participant_left"] \in ToViewer
      /\ [type |-> "send_ok"] \in ToViewer /\ [type |-> "produce_ok"] \in ToViewer /\ [type |-> "recv_ok"] \in ToViewer
      /\ [type |-> "join_ok", speaker |-> speaker] \in ToViewer
      /\ \A k \in Consumptions : /\ [type |-> "consume_ok", of |-> k] \in ToViewer
                                 /\ [type |-> "resume_ok", of |-> k] \in ToViewer
                                 /\ [type |-> "error", of |-> k] \in ToViewer
  BY DEF ToViewer, MediaStreamsTypeOK
<1>a. /\ [type |-> "join"] \in Request /\ [type |-> "create_send_transport"] \in Request
      /\ [type |-> "produce"] \in Request /\ [type |-> "create_recv_transport"] \in Request
      /\ \A k \in Consumptions : [type |-> "consume", of |-> k] \in Request /\ [type |-> "resume_consumer", of |-> k] \in Request
  BY DEF Request
<1>b. ASSUME NEW m \in ToViewer, Notify(m) PROVE toViewer' \in Seq(ToViewer)
  BY <1>b DEF Notify, MediaStreamsTypeOK
<1>c. ASSUME StreamMove PROVE streamMoves' \in 0..MaxStreamMoves
  BY <1>c, MediaStreamsAssumption DEF StreamMove, MediaStreamsTypeOK
<1>d. ASSUME toViewer # <<>>
      PROVE  Head(toViewer) \in ToViewer /\ Tail(toViewer) \in Seq(ToViewer)
  BY <1>d, WireShrinks DEF MediaStreamsTypeOK
<1> DEFINE m == Head(toViewer)
<1>1. CASE SpeakerJoins
  <2>1. speaker' \in Speaker
    BY <1>1 DEF SpeakerJoins, Speaker
  <2> QED BY <1>1, <1>0, <1>b, <1>c, <2>1 DEF SpeakerJoins, MediaStreamsTypeOK, clientVars
<1>2. ASSUME NEW p \in Streams, SpeakerProduces(p) PROVE MediaStreamsTypeOK'
  <2>1. speaker' \in Speaker /\ speaker'.here
    BY <1>2 DEF SpeakerProduces, Speaker, MediaStreamsTypeOK
  <2> QED BY <1>2, <1>0, <1>b, <1>c, <2>1 DEF SpeakerProduces, MediaStreamsTypeOK, clientVars
<1>3. CASE SpeakerMutes
  <2>1. speaker \in Speaker /\ speaker' = [speaker EXCEPT !.muted = ~speaker.muted] /\ speaker.here
    BY <1>3 DEF SpeakerMutes, MediaStreamsTypeOK
  <2>2. (~speaker.muted) \in BOOLEAN
    OBVIOUS
  <2>3. speaker' \in Speaker /\ speaker'.here
    BY <2>1, <2>2 DEF Speaker
  <2> QED BY <1>3, <1>0, <1>b, <1>c, <2>2, <2>3 DEF SpeakerMutes, MediaStreamsTypeOK, clientVars
<1>4. CASE SpeakerLeaves
  <2>1. speaker' \in Speaker /\ speaker'.producers = {}
    BY <1>4 DEF SpeakerLeaves, Speaker
  <2> QED BY <1>4, <1>0, <1>b, <1>c, <2>1 DEF SpeakerLeaves, MediaStreamsTypeOK, clientVars
<1>5. ASSUME NEW b \in BOOLEAN, ModeratorMutes(b) PROVE MediaStreamsTypeOK'
  BY <1>5, <1>0, <1>b, <1>c DEF ModeratorMutes, MediaStreamsTypeOK, clientVars
<1>6. CASE SetMute
  <2>1. Head(setMutes) \in BOOLEAN /\ setMutes' \in Seq(BOOLEAN)
    BY <1>6 DEF SetMute, MediaStreamsTypeOK
  <2> QED BY <1>6, <2>1 DEF SetMute, MediaStreamsTypeOK, clientVars
<1>7. ASSUME NEW r \in requests,
             ServeJoin(r) \/ ServeSendTransport(r) \/ ServeProduce(r) \/ ServeRecvTransport(r) \/ ServeConsume(r) \/ ServeResume(r)
      PROVE  MediaStreamsTypeOK'
  <2>1. r \in Request /\ (r.type \in {"consume", "resume_consumer"} => r.of \in Consumptions)
    BY RequestsCarry DEF MediaStreamsTypeOK
  <2>2. PICK e \in ToViewer : Answer(r, e)
    BY <1>7, <1>0, <2>1 DEF ServeJoin, ServeSendTransport, ServeProduce, ServeRecvTransport, ServeConsume, ServeResume
  <2>3. toViewer' \in Seq(ToViewer)
    BY <2>2 DEF Answer, MediaStreamsTypeOK
  <2>4. speaker' = speaker /\ produced' = produced /\ viewerIn' \in BOOLEAN /\ mutedThere' \in BOOLEAN
    BY <1>7 DEF ServeJoin, ServeSendTransport, ServeProduce, ServeRecvTransport, ServeConsume, ServeResume,
      serverVars, MediaStreamsTypeOK
  <2> QED BY <2>2, <2>3, <2>4 DEF Answer, clientVars, MediaStreamsTypeOK
<1>8. CASE OpenSocket \/ LoadDevice
  <2>1. person' \in Person
    BY <1>8 DEF OpenSocket, LoadDevice, Person, Speaker, MediaStreamsTypeOK
  <2> QED BY <1>8, <1>a, <2>1 DEF OpenSocket, LoadDevice, AskServer, Stages, serverVars, MediaStreamsTypeOK
<1>9. ASSUME NEW k \in Consumptions, BeginConsume(k) \/ UNCHANGED <<consuming, requests>>
      PROVE  /\ consuming' \in [Consumptions -> {"no", "asked", "building", "resuming"}]
             /\ requests' \subseteq Request
  <2>1. CASE BeginConsume(k) /\ k[1] \notin known
    <3>1. consuming' = [consuming EXCEPT ![k] = "asked"] /\ requests' = requests \cup {[type |-> "consume", of |-> k]}
      BY <2>1 DEF BeginConsume, AskServer
    <3> QED BY <1>a, <3>1 DEF MediaStreamsTypeOK
  <2>2. CASE UNCHANGED <<consuming, requests>>
    BY <2>2 DEF MediaStreamsTypeOK
  <2> QED BY <1>9, <2>1, <2>2 DEF BeginConsume
<1>10. ASSUME NEW p \in Streams, ConsumeListed(p) PROVE MediaStreamsTypeOK'
  BY <1>10, <1>9, ConsumptionsName DEF ConsumeListed, MediaStreamsTypeOK, serverVars
<1>11. CASE BecomeConnected \/ CloseClient
  <2>1. <<>> \in Seq(ToViewer) /\ <<>> \in Seq(BOOLEAN)
    OBVIOUS
  <2> QED BY <1>11, <2>1 DEF BecomeConnected, CloseClient, MediaStreamsTypeOK, serverVars, Stages
<1>12. ASSUME NEW k \in Consumptions, ShowStream(k) PROVE MediaStreamsTypeOK'
  <2>1. tile' \in [Streams -> 0..2]
    BY <1>12, ConsumptionsName DEF ShowStream, ShownOnce, MediaStreamsTypeOK
  <2> QED BY <1>12, <1>a, <2>1, ConsumptionsName DEF ShowStream, AskServer, MediaStreamsTypeOK, serverVars
<1>13. ASSUME NEW b \in BOOLEAN, UpdateMute(b) PROVE MediaStreamsTypeOK'
  <2>1. setMutes' \in Seq(BOOLEAN)
    BY <1>13, WireGrows DEF UpdateMute, MediaStreamsTypeOK
  <2> QED BY <1>13, <1>c, <2>1 DEF UpdateMute, MediaStreamsTypeOK, serverVars
<1>14. CASE TakeJoined \/ TakeSendTransport \/ TakeProduced \/ TakeRecvTransport
  <2>1. answer' \in Speaker /\ toConsume' \subseteq Streams
    BY <1>14, <1>d, MessagesCarry DEF TakeJoined, TakeSendTransport, TakeProduced, TakeRecvTransport,
      TakeMessage, Speaker, MediaStreamsTypeOK
  <2> QED BY <1>14, <1>d, <1>a, <2>1 DEF TakeJoined, TakeSendTransport, TakeProduced, TakeRecvTransport,
      TakeMessage, AskServer, Stages, MediaStreamsTypeOK, serverVars
<1>15. CASE TakeConsumed \/ TakeResumed \/ TakeError
  <2>1. m.of \in Consumptions
    BY <1>15, <1>d, MessagesCarry DEF TakeConsumed, TakeResumed, TakeError, TakeMessage
  <2> QED BY <1>15, <1>d, <2>1 DEF TakeConsumed, TakeResumed, TakeError, TakeMessage, Stages, MediaStreamsTypeOK, serverVars
<1>16. CASE TakeParticipantJoined \/ TakeParticipantLeft \/ TakeMuteChanged \/ TakeModeratorMute
  <2>1. m.type # "participant_left" => m.muted \in BOOLEAN
    BY <1>16, <1>d, MessagesCarry DEF TakeParticipantJoined, TakeParticipantLeft, TakeMuteChanged, TakeModeratorMute, TakeMessage
  <2>2. person' \in Person
    <3>1. CASE TakeParticipantJoined \/ TakeMuteChanged
      <4>1. m.muted \in BOOLEAN /\ person' = [here |-> TRUE, muted |-> m.muted]
        BY <2>1, <3>1 DEF TakeParticipantJoined, TakeMuteChanged, TakeMessage
      <4> QED BY <4>1 DEF Person
    <3>2. CASE TakeParticipantLeft \/ TakeModeratorMute
      <4>1. person' \in {Absentee, person}
        BY <3>2 DEF TakeParticipantLeft, TakeModeratorMute
      <4>2. Absentee \in Person
        BY DEF Person, Absentee
      <4> QED BY <4>1, <4>2 DEF MediaStreamsTypeOK
    <3> QED BY <1>16, <3>1, <3>2
  <2>3. tile' \in [Streams -> 0..2] /\ late' \subseteq Streams /\ mutedHere' \in BOOLEAN
    BY <1>16, <1>d, <2>1, ConsumptionsName DEF TakeParticipantJoined, TakeParticipantLeft, TakeMuteChanged, TakeModeratorMute,
      TakeMessage, MediaStreamsTypeOK
  <2> QED BY <1>16, <1>d, <2>2, <2>3 DEF TakeParticipantJoined, TakeParticipantLeft, TakeMuteChanged,
      TakeModeratorMute, TakeMessage, MediaStreamsTypeOK, serverVars
<1>17. CASE TakeNewProducer
  <2>1. m.stream \in Streams
    BY <1>17, <1>d, MessagesCarry DEF TakeNewProducer, TakeMessage
  <2>2. /\ consuming' \in [Consumptions -> {"no", "asked", "building", "resuming"}]
        /\ requests' \subseteq Request
    BY <1>17, <1>9, <2>1, ConsumptionsName DEF TakeNewProducer
  <2> QED BY <1>17, <1>d, <2>1, <2>2 DEF TakeNewProducer, TakeMessage, MediaStreamsTypeOK, serverVars
<1>18. CASE UNCHANGED streamVars
  BY <1>18 DEF streamVars, MediaStreamsTypeOK
<1> QED BY <1>1, <1>2, <1>3, <1>4, <1>5, <1>6, <1>7, <1>8, <1>10, <1>11, <1>12, <1>13, <1>14, <1>15, <1>16, <1>17, <1>18
     DEF MediaStreamsNext

-----------------------------------------------------------------------------
StreamInv ==
  /\ MediaStreamsTypeOK
  /\ StepsInTurn /\ JoinedFirst /\ NothingShownYet /\ InFlight
  /\ NamedOnce /\ ShownOnce /\ NoneIsMissed /\ NoneLingers
  /\ SightInv /\ MutesInv

\* What it gives once the client has caught up.
LEMMA StreamInvMeans == StreamInv => StreamsAreShown /\ SpeakerIsShown /\ OwnMuteAgrees
<1> SUFFICES ASSUME StreamInv PROVE StreamsAreShown /\ SpeakerIsShown /\ OwnMuteAgrees
  OBVIOUS
<1>1. ASSUME NEW p \in Streams PROVE tile[p] <= 1
  <2>1. tile[p] = IF p \in known THEN 1 ELSE 0
    BY DEF StreamInv, ShownOnce
  <2> QED BY <2>1
<1>2. ASSUME Caught
      PROVE  /\ viewerIn /\ Coming = {} /\ DOMAIN toViewer = {}
             /\ \A p \in Streams : Idle(p) /\ \A i : ~SpeakerAnnounced(i, p)
  <2>1. DOMAIN toViewer = {} /\ stage = "connected"
    BY <1>2 DEF Caught
  <2> QED BY <1>2, <2>1 DEF Caught, Coming, Idle, SpeakerAnnounced, StreamInv, JoinedFirst, NothingShownYet
<1>3. ASSUME Caught, NEW p \in Streams
      PROVE  /\ p \in speaker.producers => tile[p] = 1 \/ p \in unseen
             /\ tile[p] = 1 => p \in speaker.producers \/ p \in late
  <2>1. tile[p] = 1 <=> p \in known
    BY DEF StreamInv, ShownOnce
  <2>2. p \in speaker.producers => p \in Coming \cup known \cup unseen \/ ~Idle(p) \/ \E i : SpeakerAnnounced(i, p)
    BY <1>2, <1>3 DEF StreamInv, NoneIsMissed, SoonShown
  <2>3. p \notin speaker.producers /\ p \in known => p \in late \/ \E i \in DOMAIN toViewer : toViewer[i].type = "participant_left"
    BY <1>2, <1>3 DEF StreamInv, NoneLingers
  <2> QED BY <1>2, <1>3, <2>1, <2>2, <2>3
<1>4. SpeakerIsShown
  <2>1. Caught => stage = "connected" /\ \A i : ~OfSpeaker(i)
    BY <1>2 DEF Caught, OfSpeaker
  <2> QED BY <1>2, <2>1 DEF SpeakerIsShown, StreamInv, SightInv, FirstSight
<1>5. OwnMuteAgrees
  BY DEF OwnMuteAgrees, StreamInv, MutesInv, Moderated
<1> QED BY <1>1, <1>3, <1>4, <1>5 DEF StreamsAreShown

\* The invariant of the streams holds at the start.
LEMMA StreamInitInv == MediaStreamsInit => StreamInv
<1> SUFFICES ASSUME MediaStreamsInit PROVE StreamInv
  OBVIOUS
<1>1. DOMAIN toViewer = {} /\ requests = {} /\ stage = "setup" /\ ~viewerIn /\ setMutes = <<>> /\ toViewer = <<>>
  BY DEF MediaStreamsInit
<1>2. StepsInTurn /\ JoinedFirst /\ NothingShownYet /\ InFlight
  BY <1>1 DEF MediaStreamsInit, StepsInTurn, JoinedFirst, NothingShownYet, InFlight, Early
<1>3. NamedOnce /\ ShownOnce
  BY <1>1 DEF MediaStreamsInit, NamedOnce, ListedOnce, AnnouncedOnce, ConsumedOnce, SpeakerAnnounced, ShownOnce, Coming
<1>4. NoneIsMissed /\ NoneLingers
  BY <1>1 DEF MediaStreamsInit, NoneIsMissed, ResumedIsShown, ErrorsTell, LeftBefore, NoneLingers
<1>5. SightInv /\ MutesInv
  BY <1>1 DEF MediaStreamsInit, SightInv, MutesInv, OfSpeaker, Moderated
<1> QED BY <1>2, <1>3, <1>4, <1>5, StreamTypesInit DEF StreamInv

-----------------------------------------------------------------------------
Announcements == {"participant_joined", "participant_left", "mute_changed", "moderator_mute", "new_producer"}

\* The viewer is told something at the end, ...
EndsWith(n, m) ==
  /\ n \in Nat /\ DOMAIN toViewer = 1..n /\ DOMAIN toViewer' = 1..(n + 1)
  /\ toViewer'[n + 1] = m /\ \A i \in 1..n : toViewer'[i] = toViewer[i]
  /\ toViewer' # <<>> /\ (toViewer # <<>> <=> n > 0)

\* ... or takes the first that he was told.
BeganWith(n, m) ==
  /\ n \in Nat /\ DOMAIN toViewer = 1..(n + 1) /\ DOMAIN toViewer' = 1..n
  /\ toViewer[1] = m /\ m \in ToViewer /\ \A i \in 1..n : toViewer'[i] = toViewer[i + 1]
  /\ \A i \in 2..(n + 1) : i - 1 \in 1..n /\ toViewer[i] = toViewer'[i - 1]

\* What is known of an announcement appended to the messages.
LEMMA ToldAtTheEnd ==
  ASSUME MediaStreamsTypeOK, NEW m \in ToViewer, toViewer' = Append(toViewer, m)
  PROVE  \E n : EndsWith(n, m)
<1>1. EndsWith(Len(toViewer), m)
  BY WireGrows DEF EndsWith, MediaStreamsTypeOK
<1> QED BY <1>1

\* What is known of the message taken first.
LEMMA TakenFirst ==
  ASSUME MediaStreamsTypeOK, toViewer # <<>>, toViewer' = Tail(toViewer)
  PROVE  \E n : BeganWith(n, Head(toViewer))
<1> DEFINE q == toViewer
<1>1. q \in Seq(ToViewer)
  BY DEF MediaStreamsTypeOK
<1>2. /\ Tail(q) \in Seq(ToViewer) /\ Len(q) \in Nat /\ Len(q) >= 1
      /\ Head(q) = q[1] /\ Head(q) \in ToViewer
      /\ DOMAIN q = 1..Len(q) /\ DOMAIN Tail(q) = 1..(Len(q) - 1)
      /\ \A j \in 1..(Len(q) - 1) : Tail(q)[j] = q[j + 1]
  BY <1>1, WireShrinks
<1>3. \A i \in 2..Len(q) : i - 1 \in 1..(Len(q) - 1) /\ q[i] = Tail(q)[i - 1]
  BY <1>2
<1>4. BeganWith(Len(q) - 1, Head(q))
  BY <1>2, <1>3 DEF BeganWith
<1> QED BY <1>4

\* An announcement changes nothing of what the client waits for.
LEMMA AnnouncedKeeps ==
  ASSUME StreamInv, NEW m \in ToViewer, m.type \in Announcements, Notify(m),
         UNCHANGED <<viewerIn, requests, clientVars>>
  PROVE  StepsInTurn' /\ JoinedFirst' /\ NothingShownYet' /\ InFlight' /\ ShownOnce' /\ Coming' = Coming
<1> USE DEF clientVars
<1>1. NothingShownYet' /\ ShownOnce'
  BY DEF StreamInv, NothingShownYet, ShownOnce, Early
<1>2. CASE ~viewerIn
  <2>1. toViewer' = toViewer
    BY <1>2 DEF Notify
  <2> QED BY <1>1, <2>1 DEF StreamInv, StepsInTurn, InTurn, JoinedFirst, InFlight, Coming
<1>3. CASE viewerIn
  <2>1. PICK n : EndsWith(n, m)
    BY <1>3, ToldAtTheEnd DEF Notify, StreamInv
  <2>2. StepsInTurn'
    BY <2>1 DEF EndsWith, StreamInv, StepsInTurn, InTurn, StepAnswers, Announcements
  <2>3. JoinedFirst' /\ Coming' = Coming
    BY <1>3, <2>1 DEF EndsWith, StreamInv, JoinedFirst, Coming
  <2>4. InFlight'
    BY <2>1 DEF EndsWith, StreamInv, InFlight, Announcements
  <2> QED BY <1>1, <2>2, <2>3, <2>4
<1> QED BY <1>2, <1>3

\* While the viewer is not in the session he hears nothing of the speaker, and has seen
\* nothing, unless he has closed.
LEMMA OutsideKeeps ==
  ASSUME StreamInv, ~viewerIn, toViewer' = toViewer, viewerIn' = viewerIn, UNCHANGED <<consuming, tile, known, unseen, late>>,
         Coming' = Coming, produced \subseteq produced', speaker'.producers \subseteq produced',
         speaker'.producers \subseteq speaker.producers \cup (Streams \ produced)
  PROVE  NamedOnce' /\ NoneIsMissed' /\ NoneLingers'
<1>1. DOMAIN toViewer = {} /\ DOMAIN toViewer' = {}
  BY DEF StreamInv, JoinedFirst
<1>2. \A p : Idle(p)' <=> Idle(p)
  BY DEF Idle
<1>3. NamedOnce'
  BY <1>1, <1>2 DEF StreamInv, NamedOnce, ListedOnce, AnnouncedOnce, ConsumedOnce, SpeakerAnnounced
<1>4. NoneIsMissed'
  BY <1>1 DEF StreamInv, NoneIsMissed, ResumedIsShown, ErrorsTell, LeftBefore, NamedOnce, ConsumedOnce
<1>5. NoneLingers'
  BY DEF NoneLingers
<1> QED BY <1>3, <1>4, <1>5

\* The speaker opens a stream.
LEMMA SpeakerProducesKeeps == \A p \in Streams : StreamInv /\ SpeakerProduces(p) => StreamInv'
<1> SUFFICES ASSUME StreamInv, NEW p \in Streams, SpeakerProduces(p) PROVE StreamInv'
  OBVIOUS
<1> DEFINE m == [type |-> "new_producer", stream |-> p]
<1>1. /\ Notify(m) /\ UNCHANGED <<viewerIn, requests, clientVars, mutedThere, setMutes, crossed>>
      /\ m.type = "new_producer" /\ m.stream = p /\ m \in ToViewer /\ m.type \in Announcements
  BY DEF SpeakerProduces, ToViewer, Announcements
<1> HIDE DEF m
<1>2. MediaStreamsTypeOK'
  BY StreamTypesNext DEF StreamInv, MediaStreamsNext
<1>3. StepsInTurn' /\ JoinedFirst' /\ NothingShownYet' /\ InFlight' /\ ShownOnce' /\ Coming' = Coming
  BY <1>1, AnnouncedKeeps
<1>4. /\ speaker'.producers = speaker.producers \cup {p} /\ produced' = produced \cup {p} /\ p \notin produced
      /\ speaker'.here = speaker.here /\ speaker'.muted = speaker.muted
      /\ UNCHANGED <<consuming, tile, known, unseen, late, person, mutedHere, stale, stage, answer>>
  BY <1>1 DEF SpeakerProduces, StreamInv, MediaStreamsTypeOK, Speaker, clientVars
<1>5. CASE ~viewerIn
  <2>1. toViewer' = toViewer
    BY <1>1, <1>5 DEF Notify
  <2>2. NamedOnce' /\ NoneIsMissed' /\ NoneLingers'
    BY <1>1, <1>3, <1>4, <1>5, <2>1, OutsideKeeps DEF StreamInv, NamedOnce
  <2>3. SightInv' /\ MutesInv'
    BY <1>1, <1>4, <2>1 DEF StreamInv, SightInv, MutesInv, OfSpeaker, Says, FirstSight, Moderated
  <2> QED BY <1>2, <1>3, <2>2, <2>3 DEF StreamInv
<1>6. CASE viewerIn
  <2>1. PICK n : EndsWith(n, m)
    BY <1>1, <1>6, ToldAtTheEnd DEF Notify, StreamInv
  <2>2. \A q, i : SpeakerAnnounced(i, q)' <=> SpeakerAnnounced(i, q) \/ (i = n + 1 /\ q = p)
    BY <1>1, <2>1 DEF EndsWith, SpeakerAnnounced
  <2>3. \A q : Idle(q)' <=> Idle(q)
    BY <1>4 DEF Idle
  <2>4. p \notin known /\ p \notin Coming /\ Idle(p) /\ \A i : ~SpeakerAnnounced(i, p)
    BY <1>4 DEF StreamInv, NamedOnce, ListedOnce, AnnouncedOnce, ConsumedOnce, Idle
  <2>5. NamedOnce'
    <3>1. ListedOnce'
      BY <1>3, <1>4, <2>2, <2>3, <2>4 DEF StreamInv, NamedOnce, ListedOnce
    <3>2. AnnouncedOnce'
      BY <1>4, <2>1, <2>2, <2>3, <2>4 DEF StreamInv, NamedOnce, AnnouncedOnce
    <3>3. ConsumedOnce'
      BY <1>4 DEF StreamInv, NamedOnce, ConsumedOnce
    <3> QED BY <1>3, <1>4, <3>1, <3>2, <3>3 DEF StreamInv, NamedOnce
  <2>6. NoneIsMissed'
    <3>1. SoonShown'
      BY <1>3, <1>4, <1>6, <2>2, <2>3 DEF StreamInv, NoneIsMissed, SoonShown
    <3>2. ResumedIsShown' /\ ErrorsTell'
      BY <1>1, <1>4, <2>1, <2>4, ConsumptionsName, MessagesCarry
      DEF StreamInv, NoneIsMissed, ResumedIsShown, ErrorsTell, EndsWith, InFlight, Idle, MediaStreamsTypeOK
    <3>3. LeftBefore'
      BY <1>1, <1>4, <2>1, <2>2 DEF StreamInv, NoneIsMissed, LeftBefore, EndsWith
    <3> QED BY <1>4, <3>1, <3>2, <3>3 DEF NoneIsMissed
  <2>7. NoneLingers'
    BY <1>1, <1>4, <1>6, <2>1 DEF StreamInv, NoneLingers, EndsWith
  <2>8. SightInv'
    BY <1>1, <1>4, <1>6, <2>1 DEF StreamInv, SightInv, EndsWith, OfSpeaker, Says, FirstSight, JoinedFirst
  <2>9. MutesInv'
    BY <1>1, <1>4, <1>6, <2>1 DEF StreamInv, MutesInv, EndsWith, Moderated
  <2> QED BY <1>2, <1>3, <2>5, <2>6, <2>7, <2>8, <2>9 DEF StreamInv
<1> QED BY <1>5, <1>6

\* Announcements that name no stream.
LEMMA PlainAnnouncementKeeps ==
  ASSUME StreamInv, NEW m \in ToViewer, m.type \in {"participant_joined", "mute_changed", "moderator_mute"},
         Notify(m), UNCHANGED <<viewerIn, requests, clientVars, produced>>, speaker'.producers = speaker.producers
  PROVE  NamedOnce' /\ NoneIsMissed' /\ NoneLingers'
<1> USE DEF clientVars
<1>1. m.type \in Announcements
  BY DEF Announcements
<1>2. Coming' = Coming
  BY <1>1, AnnouncedKeeps
<1>3. CASE ~viewerIn
  <2>1. toViewer' = toViewer
    BY <1>3 DEF Notify
  <2> QED BY <1>2, <1>3, <2>1, OutsideKeeps DEF StreamInv, NamedOnce
<1>4. CASE viewerIn
  <2>1. PICK n : EndsWith(n, m)
    BY <1>4, ToldAtTheEnd DEF Notify, StreamInv
  <2>2. \A q, i : SpeakerAnnounced(i, q)' <=> SpeakerAnnounced(i, q)
    BY <2>1 DEF EndsWith, SpeakerAnnounced
  <2>3. \A q : Idle(q)' <=> Idle(q)
    BY DEF Idle
  <2>4. NamedOnce'
    BY <1>2, <2>2, <2>3 DEF StreamInv, NamedOnce, ListedOnce, AnnouncedOnce, ConsumedOnce
  <2>5. SoonShown'
    BY <1>2, <1>4, <2>2, <2>3 DEF StreamInv, NoneIsMissed, SoonShown
  <2>6. ResumedIsShown' /\ ErrorsTell' /\ LeftBefore'
    BY <2>1, <2>2 DEF StreamInv, NoneIsMissed, ResumedIsShown, ErrorsTell, LeftBefore, EndsWith
  <2>7. NoneLingers'
    BY <1>4, <2>1 DEF StreamInv, NoneLingers, EndsWith
  <2> QED BY <2>4, <2>5, <2>6, <2>7 DEF NoneIsMissed
<1> QED BY <1>3, <1>4

\* Mutes are under way as before, and so is what is said of the speaker.
LEMMA NotOfMutes ==
  ASSUME StreamInv, NEW m \in ToViewer, m.type # "moderator_mute", Notify(m) \/ toViewer' = Append(toViewer, m),
         UNCHANGED <<viewerIn, mutedThere, setMutes, crossed, mutedHere, stage>>
  PROVE  MutesInv'
<1>1. CASE toViewer' = toViewer
  BY <1>1 DEF StreamInv, MutesInv, Moderated
<1>2. CASE toViewer' = Append(toViewer, m)
  <2>1. PICK n : EndsWith(n, m)
    BY <1>2, ToldAtTheEnd DEF StreamInv
  <2>2. \A i : Moderated(i)' <=> Moderated(i)
    BY <2>1 DEF EndsWith, Moderated
  <2>3. \A i : Moderated(i) => toViewer'[i] = toViewer[i]
    BY <2>1 DEF EndsWith, Moderated
  <2> QED BY <2>2, <2>3 DEF StreamInv, MutesInv
<1> QED BY <1>1, <1>2 DEF Notify

\* The viewer is told of a turn of the speaker.
LEMMA OfTheSpeaker ==
  ASSUME StreamInv, NEW m \in ToViewer, m.type \in {"participant_joined", "participant_left", "mute_changed"}, Notify(m),
         Says(m) = [here |-> speaker'.here, muted |-> speaker'.muted],
         UNCHANGED <<viewerIn, stage, answer, person, stale>>
  PROVE  SightInv'
<1>1. CASE ~viewerIn
  <2>1. DOMAIN toViewer' = {}
    BY <1>1 DEF Notify, StreamInv, JoinedFirst
  <2> QED BY <1>1, <2>1 DEF SightInv, OfSpeaker
<1>2. CASE viewerIn
  <2>1. PICK n : EndsWith(n, m)
    BY <1>2, ToldAtTheEnd DEF Notify, StreamInv
  <2>2. OfSpeaker(n + 1)' /\ \A i : OfSpeaker(i)' => i = n + 1 \/ n + 1 > i
    BY <2>1 DEF EndsWith, OfSpeaker
  <2>3. toViewer'[n + 1] = m
    BY <2>1 DEF EndsWith
  <2>4. Says(toViewer'[n + 1]) = [here |-> speaker'.here, muted |-> speaker'.muted]
    BY <2>3
  <2> QED BY <2>2, <2>4 DEF SightInv, Says, Absentee
<1> QED BY <1>1, <1>2

\* The speaker joins, or mutes himself.
LEMMA SpeakerTurnsKeep == StreamInv /\ (SpeakerJoins \/ SpeakerMutes) => StreamInv'
<1> SUFFICES ASSUME StreamInv, SpeakerJoins \/ SpeakerMutes PROVE StreamInv'
  OBVIOUS
<1>1. PICK m \in ToViewer :
        /\ Notify(m) /\ m.type \in {"participant_joined", "mute_changed"}
        /\ speaker'.here /\ m.muted = speaker'.muted
        /\ speaker'.producers = speaker.producers
  <2>1. CASE SpeakerJoins
    <3>1. [type |-> "participant_joined", muted |-> FALSE] \in ToViewer
      BY DEF ToViewer
    <3> QED BY <2>1, <3>1 DEF SpeakerJoins, StreamInv, MediaStreamsTypeOK
  <2>2. CASE SpeakerMutes
    <3>1. speaker \in Speaker /\ (~speaker.muted) \in BOOLEAN
      BY DEF StreamInv, MediaStreamsTypeOK
    <3>2. [type |-> "mute_changed", muted |-> ~speaker.muted] \in ToViewer
      BY <3>1 DEF ToViewer
    <3>3. speaker'.here /\ speaker'.muted = (~speaker.muted) /\ speaker'.producers = speaker.producers
      BY <2>2, <3>1 DEF SpeakerMutes, Speaker
    <3> QED BY <2>2, <3>2, <3>3 DEF SpeakerMutes
  <2> QED BY <2>1, <2>2
<1>2. UNCHANGED <<viewerIn, requests, clientVars, produced, mutedThere, setMutes, crossed>>
  BY DEF SpeakerJoins, SpeakerMutes
<1>3. MediaStreamsTypeOK'
  BY StreamTypesNext DEF StreamInv, MediaStreamsNext
<1>4. StepsInTurn' /\ JoinedFirst' /\ NothingShownYet' /\ InFlight' /\ ShownOnce'
  BY <1>1, <1>2, AnnouncedKeeps DEF Announcements
<1>5. NamedOnce' /\ NoneIsMissed' /\ NoneLingers'
  BY <1>1, <1>2, PlainAnnouncementKeeps
<1>6. MutesInv'
  BY <1>1, <1>2, NotOfMutes DEF clientVars
<1>7. Says(m) = [here |-> speaker'.here, muted |-> speaker'.muted]
  <2>1. speaker' \in Speaker
    BY <1>3 DEF MediaStreamsTypeOK
  <2>2. speaker'.here = TRUE
    BY <1>1, <2>1 DEF Speaker
  <2>3. Says(m) = [here |-> TRUE, muted |-> m.muted]
    BY <1>1 DEF Says
  <2> QED BY <1>1, <2>2, <2>3
<1>8. SightInv'
  BY <1>1, <1>2, <1>7, OfTheSpeaker DEF clientVars
<1> QED BY <1>3, <1>4, <1>5, <1>6, <1>8 DEF StreamInv

\* A moderator mutes the viewer.
LEMMA ModeratorMutesKeeps == \A b \in BOOLEAN : StreamInv /\ ModeratorMutes(b) => StreamInv'
<1> SUFFICES ASSUME StreamInv, NEW b \in BOOLEAN, ModeratorMutes(b) PROVE StreamInv'
  OBVIOUS
<1> DEFINE m == [type |-> "moderator_mute", muted |-> b]
<1>1. m \in ToViewer /\ m.type = "moderator_mute" /\ m.muted = b
  BY DEF ToViewer
<1>2. /\ Notify(m) /\ viewerIn /\ mutedThere' = b /\ crossed' = (crossed \/ setMutes # <<>>)
      /\ UNCHANGED <<speaker, produced, viewerIn, requests, setMutes, clientVars>>
  BY DEF ModeratorMutes
<1> HIDE DEF m
<1>3. MediaStreamsTypeOK'
  BY StreamTypesNext DEF StreamInv, MediaStreamsNext
<1>4. StepsInTurn' /\ JoinedFirst' /\ NothingShownYet' /\ InFlight' /\ ShownOnce'
  BY <1>1, <1>2, AnnouncedKeeps DEF Announcements
<1>5. NamedOnce' /\ NoneIsMissed' /\ NoneLingers'
  BY <1>1, <1>2, PlainAnnouncementKeeps
<1>6. PICK n : EndsWith(n, m)
  BY <1>1, <1>2, ToldAtTheEnd DEF Notify, StreamInv
<1>7. MutesInv'
  <2>1. Moderated(n + 1)' /\ \A i : Moderated(i)' => i = n + 1 \/ n + 1 > i
    BY <1>1, <1>6 DEF EndsWith, Moderated
  <2>2. toViewer'[n + 1].muted = b
    BY <1>1, <1>6 DEF EndsWith
  <2> QED BY <1>2, <2>1, <2>2 DEF MutesInv, clientVars
<1>8. SightInv'
  <2>1. \A i : OfSpeaker(i)' <=> OfSpeaker(i)
    BY <1>1, <1>6 DEF EndsWith, OfSpeaker
  <2>2. \A i : OfSpeaker(i) => toViewer'[i] = toViewer[i]
    BY <1>6 DEF EndsWith, OfSpeaker
  <2>3. stage = "join" => toViewer'[1] = toViewer[1]
    BY <1>2, <1>6 DEF EndsWith, StreamInv, JoinedFirst
  <2> QED BY <1>2, <2>1, <2>2, <2>3 DEF StreamInv, SightInv, FirstSight, Says, clientVars
<1> QED BY <1>3, <1>4, <1>5, <1>7, <1>8 DEF StreamInv

\* The speaker leaves.
LEMMA SpeakerLeavesKeeps == StreamInv /\ SpeakerLeaves => StreamInv'
<1> SUFFICES ASSUME StreamInv, SpeakerLeaves PROVE StreamInv'
  OBVIOUS
<1> DEFINE m == [type |-> "participant_left"]
<1>1. m \in ToViewer /\ m.type = "participant_left"
  BY DEF ToViewer
<1>2. /\ Notify(m) /\ speaker' = [here |-> FALSE, muted |-> FALSE, producers |-> {}]
      /\ UNCHANGED <<produced, viewerIn, requests, mutedThere, setMutes, crossed, clientVars>>
  BY DEF SpeakerLeaves
<1> HIDE DEF m
<1>3. MediaStreamsTypeOK'
  BY StreamTypesNext DEF StreamInv, MediaStreamsNext
<1>4. StepsInTurn' /\ JoinedFirst' /\ NothingShownYet' /\ InFlight' /\ ShownOnce' /\ Coming' = Coming
  BY <1>1, <1>2, AnnouncedKeeps DEF Announcements
<1>5. speaker'.producers = {} /\ speaker'.here = FALSE /\ speaker'.muted = FALSE
  BY <1>2
<1>6. NamedOnce' /\ NoneIsMissed' /\ NoneLingers'
  <2> USE DEF clientVars
  <2>1. CASE ~viewerIn
    <3>1. toViewer' = toViewer
      BY <1>2, <2>1 DEF Notify
    <3> QED BY <1>2, <1>4, <1>5, <2>1, <3>1, OutsideKeeps DEF StreamInv, NamedOnce
  <2>2. CASE viewerIn
    <3>1. PICK n : EndsWith(n, m)
      BY <1>1, <1>2, <2>2, ToldAtTheEnd DEF Notify, StreamInv
    <3>2. \A q, i : SpeakerAnnounced(i, q)' <=> SpeakerAnnounced(i, q)
      BY <1>1, <3>1 DEF EndsWith, SpeakerAnnounced
    <3>3. \A q : Idle(q)' <=> Idle(q)
      BY <1>2 DEF Idle
    <3>4. NamedOnce'
      BY <1>2, <1>4, <1>5, <3>2, <3>3 DEF StreamInv, NamedOnce, ListedOnce, AnnouncedOnce, ConsumedOnce
    <3>5. NoneIsMissed'
      BY <1>5 DEF NoneIsMissed, SoonShown, ResumedIsShown, ErrorsTell, LeftBefore
    <3>6. n + 1 \in DOMAIN toViewer' /\ toViewer'[n + 1].type = "participant_left"
          /\ \A i \in DOMAIN toViewer' : i = n + 1 \/ n + 1 > i
      BY <1>1, <3>1 DEF EndsWith
    <3>7. NoneLingers'
      BY <3>6 DEF NoneLingers
    <3> QED BY <3>4, <3>5, <3>7
  <2> QED BY <2>1, <2>2
<1>7. MutesInv'
  BY <1>1, <1>2, NotOfMutes DEF clientVars
<1>8. Says(m) = [here |-> speaker'.here, muted |-> speaker'.muted]
  BY <1>1, <1>5 DEF Says, Absentee
<1>9. SightInv'
  BY <1>1, <1>2, <1>8, OfTheSpeaker DEF clientVars
<1> QED BY <1>3, <1>4, <1>6, <1>7, <1>9 DEF StreamInv

-----------------------------------------------------------------------------
\* The server answers.
Pairs(r, m) ==
  \/ r.type = "join" /\ m.type = "join_ok"
  \/ r.type = "create_send_transport" /\ m.type = "send_ok"
  \/ r.type = "produce" /\ m.type = "produce_ok"
  \/ r.type = "create_recv_transport" /\ m.type = "recv_ok"
  \/ r.type = "consume" /\ m.type \in {"consume_ok", "error"} /\ m.of = r.of
  \/ r.type = "resume_consumer" /\ m.type \in {"resume_ok", "error"} /\ m.of = r.of

\* A request of a kind is not there twice.
LEMMA RequestsAreSingle ==
  ASSUME StreamInv, NEW r \in requests, NEW q \in requests, q # r
  PROVE  /\ r.type \in StepRequests => q.type \notin StepRequests
         /\ r.type \notin StepRequests /\ q.type \notin StepRequests => q.of # r.of
<1>1. r \in Request /\ q \in Request
  BY DEF StreamInv, MediaStreamsTypeOK
<1>2. ASSUME r.type \in StepRequests, q.type \in StepRequests PROVE FALSE
  <2>1. InTurn(r.type) /\ InTurn(q.type)
    BY <1>2 DEF StreamInv, StepsInTurn
  <2>2. r.type = q.type
    BY <1>2, <2>1 DEF InTurn, StepRequests
  <2> QED BY <1>1, <1>2, <2>2, RequestsCarry DEF StepRequests
<1>3. ASSUME r.type \notin StepRequests, q.type \notin StepRequests, q.of = r.of PROVE FALSE
  <2>1. r.type \in {"consume", "resume_consumer"} /\ q.type \in {"consume", "resume_consumer"}
    BY <1>1, <1>3, RequestsCarry DEF StepRequests
  <2>2. r.type = q.type
    BY <1>3, <2>1 DEF StreamInv, InFlight
  <2>3. r = [type |-> r.type, of |-> r.of] /\ q = [type |-> q.type, of |-> q.of]
    BY <1>1, <2>1 DEF Request
  <2> QED BY <1>3, <2>2, <2>3
<1> QED BY <1>2, <1>3

\* The server answers a request of the viewer.
LEMMA AnsweredKeeps ==
  ASSUME StreamInv, NEW r \in requests, NEW m \in ToViewer, Pairs(r, m), Answer(r, m)
  PROVE  StepsInTurn' /\ InFlight' /\ NothingShownYet' /\ ShownOnce'
<1>1. PICK n : EndsWith(n, m)
  BY ToldAtTheEnd DEF Answer, StreamInv
<1>2. requests' \subseteq requests /\ r \notin requests' /\ UNCHANGED clientVars
  BY DEF Answer
<1>3. NothingShownYet' /\ ShownOnce'
  BY <1>2 DEF StreamInv, NothingShownYet, ShownOnce, Early, clientVars
<1>4. \A q \in requests' :
        /\ r.type \in StepRequests => q.type \notin StepRequests
        /\ r.type \notin StepRequests /\ q.type \notin StepRequests => q.of # r.of
  BY <1>2, RequestsAreSingle
<1>5. m.type \in StepAnswers => r.type \in StepRequests /\ InTurn(m.type)
  BY DEF Pairs, StepAnswers, StepRequests, StreamInv, StepsInTurn, InTurn
<1>6. r.type \in StepRequests => \A i \in DOMAIN toViewer : toViewer[i].type \notin StepAnswers
  BY DEF StreamInv, StepsInTurn
<1>7. StepsInTurn'
  BY <1>1, <1>2, <1>4, <1>5, <1>6 DEF StreamInv, StepsInTurn, InTurn, EndsWith, clientVars
<1>8. m.type \in {"consume_ok", "resume_ok", "error"} =>
        /\ r.type \in {"consume", "resume_consumer"} /\ m.of = r.of
        /\ m.type = "consume_ok" => r.type = "consume"
        /\ m.type = "resume_ok" => r.type = "resume_consumer"
  BY DEF Pairs
<1>9. InFlight'
  <2>1. \A q \in requests' : /\ q.type = "consume" => consuming'[q.of] = "asked"
                             /\ q.type = "resume_consumer" => consuming'[q.of] = "resuming"
    BY <1>2 DEF StreamInv, InFlight, clientVars
  <2>2. ASSUME m.type \in {"consume_ok", "resume_ok", "error"}
        PROVE  /\ m.type = "consume_ok" => consuming'[m.of] = "asked"
               /\ m.type = "resume_ok" => consuming'[m.of] = "resuming"
               /\ m.type = "error" => consuming'[m.of] \in {"asked", "resuming"}
               /\ \A q \in requests' : q.type \in {"consume", "resume_consumer"} => q.of # m.of
               /\ \A i \in DOMAIN toViewer : toViewer[i].type \in {"consume_ok", "resume_ok", "error"} => toViewer[i].of # m.of
    BY <1>2, <1>4, <1>8, <2>2 DEF StreamInv, InFlight, clientVars, StepRequests
  <2> QED BY <1>1, <1>2, <2>1, <2>2 DEF StreamInv, InFlight, EndsWith, clientVars
<1> QED BY <1>3, <1>7, <1>9

\* Only somebody in the session asks for more than to join.
LEMMA OnlyMembersAsk ==
  ASSUME StreamInv, NEW r \in requests, r.type # "join"
  PROVE  viewerIn
<1>1. r \in Request
  BY DEF StreamInv, MediaStreamsTypeOK
<1>2. stage \notin {"setup", "join", "closed"}
  BY <1>1, RequestsCarry
  DEF StreamInv, JoinedFirst, StepsInTurn, InTurn, StepRequests, InFlight, NothingShownYet, Early
<1> QED BY <1>2 DEF StreamInv, JoinedFirst

\* The answer to a request other than that to join.
LEMMA OtherAnswersKeep ==
  ASSUME StreamInv, NEW r \in requests, NEW m \in ToViewer, Pairs(r, m), Answer(r, m), r.type # "join",
         UNCHANGED serverVars,
         m.type = "consume_ok" => m.of[1] \in speaker.producers,
         m.type = "error" => m.of[1] \notin speaker.producers
  PROVE  StreamInv'
<1> USE DEF clientVars, serverVars
<1>1. viewerIn /\ UNCHANGED <<clientVars, setMutes, streamMoves, crossed>> /\ requests' = requests \ {r}
  BY OnlyMembersAsk DEF Answer
<1>2. PICK n : EndsWith(n, m)
  BY ToldAtTheEnd DEF Answer, StreamInv
<1>3. StepsInTurn' /\ InFlight' /\ NothingShownYet' /\ ShownOnce'
  BY AnsweredKeeps
<1>4. MediaStreamsTypeOK'
  <2>1. toViewer' \in Seq(ToViewer)
    BY DEF Answer, StreamInv, MediaStreamsTypeOK
  <2> QED BY <1>1, <2>1 DEF StreamInv, MediaStreamsTypeOK
<1>5. JoinedFirst' /\ Coming' = Coming
  BY <1>1, <1>2 DEF StreamInv, JoinedFirst, Coming, EndsWith
<1>6. /\ \A q, i : SpeakerAnnounced(i, q)' <=> SpeakerAnnounced(i, q)
      /\ \A i : OfSpeaker(i)' <=> OfSpeaker(i)
      /\ m.type \notin {"participant_left", "moderator_mute"}
  BY <1>2 DEF EndsWith, SpeakerAnnounced, OfSpeaker, Pairs
<1>7. \A q : Idle(q)' <=> Idle(q)
  BY <1>1 DEF Idle
<1>8. NamedOnce'
  BY <1>1, <1>5, <1>6, <1>7 DEF StreamInv, NamedOnce, ListedOnce, AnnouncedOnce, ConsumedOnce
<1>9. NoneIsMissed'
  <2>1. SoonShown'
    BY <1>1, <1>5, <1>6, <1>7 DEF StreamInv, NoneIsMissed, SoonShown
  <2> QED BY <1>1, <1>2, <1>6, <2>1 DEF StreamInv, NoneIsMissed, ResumedIsShown, ErrorsTell, LeftBefore, EndsWith
<1>10. NoneLingers'
  BY <1>1, <1>2, <1>6 DEF StreamInv, NoneLingers, EndsWith
<1>11. MutesInv'
  BY <1>6, NotOfMutes DEF Answer
<1>12. SightInv'
  <2>1. \A i : OfSpeaker(i) => toViewer'[i] = toViewer[i]
    BY <1>2 DEF EndsWith, OfSpeaker
  <2>2. stage = "join" => toViewer'[1] = toViewer[1]
    BY <1>1, <1>2 DEF EndsWith, StreamInv, JoinedFirst
  <2> QED BY <1>1, <1>6, <2>1, <2>2 DEF StreamInv, SightInv, FirstSight, Says
<1> QED BY <1>3, <1>4, <1>5, <1>8, <1>9, <1>10, <1>11, <1>12 DEF StreamInv

\* The server lets the viewer in and lists the streams it has.
LEMMA ServeJoinKeeps == \A r \in requests : StreamInv /\ ServeJoin(r) => StreamInv'
<1> SUFFICES ASSUME StreamInv, NEW r \in requests, ServeJoin(r) PROVE StreamInv'
  OBVIOUS
<1> USE DEF clientVars
<1> DEFINE m == [type |-> "join_ok", speaker |-> speaker]
<1>1. m \in ToViewer /\ m.type = "join_ok" /\ m.speaker = speaker
  BY DEF ToViewer, StreamInv, MediaStreamsTypeOK
<1>2. /\ Answer(r, m) /\ r.type = "join" /\ viewerIn' = TRUE /\ mutedThere' = FALSE
      /\ UNCHANGED <<speaker, produced, clientVars, setMutes, crossed>>
  BY DEF ServeJoin, Answer
<1> HIDE DEF m
<1>3. MediaStreamsTypeOK'
  BY StreamTypesNext DEF StreamInv, MediaStreamsNext
<1>4. StepsInTurn' /\ InFlight' /\ NothingShownYet' /\ ShownOnce'
  BY <1>1, <1>2, AnsweredKeeps DEF Pairs
<1>5. ~viewerIn /\ stage = "join" /\ toViewer = <<>> /\ requests' \subseteq requests /\ r \notin requests'
  BY <1>2 DEF StreamInv, JoinedFirst, StepsInTurn, InTurn, StepRequests, Answer
<1>6. DOMAIN toViewer' = {1} /\ toViewer'[1] = m /\ toViewer' # <<>>
  <2>1. PICK n : EndsWith(n, m)
    BY <1>1, <1>2, ToldAtTheEnd DEF Answer, StreamInv
  <2> QED BY <1>5, <2>1 DEF EndsWith
<1>7. JoinedFirst'
  <2>1. \A q \in requests' : q.type # "join"
    BY <1>2, <1>5, RequestsAreSingle DEF StepRequests
  <2> QED BY <1>1, <1>2, <1>5, <1>6, <2>1 DEF JoinedFirst
<1>8. Coming' = speaker.producers /\ (\A q, i : ~SpeakerAnnounced(i, q)') /\ (\A q \in Streams : Idle(q)') /\ known' = {}
      /\ \A k \in Consumptions : consuming'[k] = "no"
  BY <1>1, <1>2, <1>5, <1>6 DEF Coming, SpeakerAnnounced, Idle, StreamInv, NothingShownYet, Early
<1>9. NamedOnce' /\ NoneIsMissed'
  <2>1. ListedOnce' /\ AnnouncedOnce' /\ ConsumedOnce'
    BY <1>2, <1>8 DEF ListedOnce, AnnouncedOnce, ConsumedOnce, StreamInv, NamedOnce, MediaStreamsTypeOK, Idle
  <2>2. SoonShown' /\ ResumedIsShown' /\ ErrorsTell' /\ LeftBefore'
    BY <1>1, <1>2, <1>6, <1>8 DEF SoonShown, ResumedIsShown, ErrorsTell, LeftBefore
  <2> QED BY <1>2, <1>8, <2>1, <2>2 DEF NamedOnce, NoneIsMissed, StreamInv
<1>10. NoneLingers'
  BY <1>1, <1>6, <1>8 DEF NoneLingers
<1>11. SightInv'
  BY <1>1, <1>2, <1>5, <1>6 DEF SightInv, FirstSight, OfSpeaker
<1>12. MutesInv'
  BY <1>1, <1>2, <1>5, <1>6 DEF StreamInv, MutesInv, Moderated, MediaStreamsTypeOK
<1> QED BY <1>3, <1>4, <1>7, <1>9, <1>10, <1>11, <1>12 DEF StreamInv

\* The server serves a request.
LEMMA ServesKeep ==
  \A r \in requests :
    StreamInv /\ (ServeSendTransport(r) \/ ServeProduce(r) \/ ServeRecvTransport(r) \/ ServeConsume(r) \/ ServeResume(r)) => StreamInv'
<1> SUFFICES ASSUME StreamInv, NEW r \in requests,
                    ServeSendTransport(r) \/ ServeProduce(r) \/ ServeRecvTransport(r) \/ ServeConsume(r) \/ ServeResume(r)
             PROVE  StreamInv'
  OBVIOUS
<1>1. r \in Request
  BY DEF StreamInv, MediaStreamsTypeOK
<1>2. /\ [type |-> "send_ok"] \in ToViewer /\ [type |-> "produce_ok"] \in ToViewer /\ [type |-> "recv_ok"] \in ToViewer
      /\ \A k \in Consumptions : /\ [type |-> "consume_ok", of |-> k] \in ToViewer
                                 /\ [type |-> "resume_ok", of |-> k] \in ToViewer
                                 /\ [type |-> "error", of |-> k] \in ToViewer
  BY DEF ToViewer
<1>3. r.type \in {"consume", "resume_consumer"} => r.of \in Consumptions
  BY <1>1, RequestsCarry
<1>4. PICK m \in ToViewer :
        /\ Pairs(r, m) /\ Answer(r, m) /\ r.type # "join" /\ UNCHANGED serverVars
        /\ m.type = "consume_ok" => m.of[1] \in speaker.producers
        /\ m.type = "error" => m.of[1] \notin speaker.producers
  <2>1. CASE ServeSendTransport(r) \/ ServeProduce(r) \/ ServeRecvTransport(r)
    BY <1>2, <2>1 DEF ServeSendTransport, ServeProduce, ServeRecvTransport, Pairs
  <2>2. CASE ServeConsume(r)
    BY <1>2, <1>3, <2>2 DEF ServeConsume, Pairs
  <2>3. CASE ServeResume(r)
    BY <1>2, <1>3, <2>3 DEF ServeResume, Pairs
  <2> QED BY <2>1, <2>2, <2>3
<1> QED BY <1>4, OtherAnswersKeep

-----------------------------------------------------------------------------
\* The client takes what it was told first.
LEMMA TakingBegins ==
  ASSUME StreamInv, NEW type, TakeMessage(type)
  PROVE  /\ \E n : BeganWith(n, Head(toViewer))
         /\ Head(toViewer).type = type /\ Head(toViewer) \in ToViewer
         /\ viewerIn /\ stage \notin {"setup", "closed"} /\ (stage = "join" <=> type = "join_ok")
         /\ UNCHANGED <<serverVars, setMutes, streamMoves, crossed>>
<1>1. toViewer # <<>> /\ toViewer' = Tail(toViewer) /\ Head(toViewer).type = type
      /\ UNCHANGED <<serverVars, setMutes, streamMoves, crossed>>
  BY DEF TakeMessage
<1>2. PICK n : BeganWith(n, Head(toViewer))
  BY <1>1, TakenFirst DEF StreamInv
<1>3. viewerIn /\ stage \notin {"setup", "closed"}
  BY <1>1 DEF StreamInv, JoinedFirst
<1>4. 1 \in DOMAIN toViewer /\ toViewer[1] = Head(toViewer)
  BY <1>2 DEF BeganWith
<1>5. stage = "join" => type = "join_ok"
  BY <1>1, <1>3, <1>4 DEF StreamInv, JoinedFirst
<1>6. type = "join_ok" => stage = "join"
  BY <1>1, <1>4 DEF StreamInv, StepsInTurn, InTurn, StepAnswers
<1> QED BY <1>1, <1>2, <1>3, <1>5, <1>6 DEF BeganWith

\* What is left is as it was, one place earlier.
LEMMA TheRestMovesUp ==
  ASSUME NEW n, NEW m, BeganWith(n, m)
  PROVE  /\ \A p, i : SpeakerAnnounced(i, p)' <=> i \in 1..n /\ SpeakerAnnounced(i + 1, p)
         /\ \A i : OfSpeaker(i)' <=> i \in 1..n /\ OfSpeaker(i + 1)
         /\ \A i : Moderated(i)' <=> i \in 1..n /\ Moderated(i + 1)
         /\ \A i \in 1..n : toViewer'[i] = toViewer[i + 1]
BY DEF BeganWith, SpeakerAnnounced, OfSpeaker, Moderated

\* A message is taken: what is still on its way is in order.
LEMMA TakenKeeps ==
  ASSUME StreamInv, NEW n, NEW m, BeganWith(n, m), viewerIn, stage \notin {"setup", "join", "closed"},
         UNCHANGED <<viewerIn, requests, stage, consuming>>
  PROVE  StepsInTurn' /\ InFlight' /\ JoinedFirst'
<1>a. /\ n \in Nat /\ DOMAIN toViewer' = 1..n
      /\ \A i \in 1..n : i + 1 \in DOMAIN toViewer /\ toViewer'[i] = toViewer[i + 1]
      /\ \A i, j \in 1..n : i + 1 = j + 1 => i = j
  BY DEF BeganWith
<1>1. StepsInTurn'
  <2>1. ASSUME NEW i \in 1..n, toViewer'[i].type \in StepAnswers
        PROVE  /\ InTurn(toViewer[i].type)'
               /\ \A r \in requests' : r.type \notin StepRequests
               /\ \A j \in 1..n : toViewer'[j].type \in StepAnswers => j = i
    <3>1. i + 1 \in DOMAIN toViewer /\ toViewer[i + 1].type \in StepAnswers /\ toViewer'[i] = toViewer[i + 1]
      BY <1>a, <2>1
    <3>2. /\ InTurn(toViewer[i + 1].type)
          /\ \A r \in requests : r.type \notin StepRequests
          /\ \A j \in DOMAIN toViewer : toViewer[j].type \in StepAnswers => j = i + 1
      BY <3>1 DEF StreamInv, StepsInTurn
    <3> QED BY <1>a, <3>1, <3>2 DEF InTurn
  <2> QED BY <1>a, <2>1 DEF StreamInv, StepsInTurn, InTurn
<1>2. InFlight'
  <2> DEFINE Types == {"consume_ok", "resume_ok", "error"}
  <2>1. ASSUME NEW i \in 1..n
        PROVE  /\ toViewer'[i].type = "consume_ok" => consuming'[toViewer'[i].of] = "asked"
               /\ toViewer'[i].type = "resume_ok" => consuming'[toViewer'[i].of] = "resuming"
               /\ toViewer'[i].type = "error" => consuming'[toViewer'[i].of] \in {"asked", "resuming"}
               /\ toViewer'[i].type \in Types =>
                    /\ \A r \in requests' : r.type \in {"consume", "resume_consumer"} => r.of # toViewer'[i].of
                    /\ \A j \in 1..n : toViewer'[j].type \in Types /\ toViewer'[j].of = toViewer'[i].of => j = i
    <3>1. i + 1 \in DOMAIN toViewer /\ toViewer'[i] = toViewer[i + 1]
      BY <1>a, <2>1
    <3>2. toViewer[i + 1].type \in Types =>
            \A j \in DOMAIN toViewer : toViewer[j].type \in Types /\ toViewer[j].of = toViewer[i + 1].of => j = i + 1
      BY <3>1 DEF StreamInv, InFlight
    <3>3. toViewer'[i].type \in Types =>
            \A j \in 1..n : toViewer'[j].type \in Types /\ toViewer'[j].of = toViewer'[i].of => j = i
      BY <1>a, <3>1, <3>2
    <3> QED BY <3>1, <3>3 DEF StreamInv, InFlight
  <2> QED BY <1>a, <2>1 DEF StreamInv, InFlight
<1>3. JoinedFirst'
  BY DEF StreamInv, JoinedFirst
<1> QED BY <1>1, <1>2, <1>3

\* What was not of the speaker, or of mutes, leaves those as they were.
LEMMA TakenNotOfMutes ==
  ASSUME StreamInv, NEW n, NEW m, BeganWith(n, m), viewerIn, m.type # "moderator_mute",
         UNCHANGED <<viewerIn, mutedThere, setMutes, crossed, mutedHere>>
  PROVE  MutesInv'
<1>1. ~Moderated(1) /\ n \in Nat
  BY DEF BeganWith, Moderated
<1>2. \A i : Moderated(i) => i \in 2..(n + 1) /\ Moderated(i - 1)' /\ i - 1 \in 1..n
  BY <1>1 DEF BeganWith, Moderated
<1>3. \A i : Moderated(i)' => i \in 1..n /\ Moderated(i + 1) /\ toViewer'[i] = toViewer[i + 1]
  BY TheRestMovesUp
<1>4. ASSUME ~crossed, NEW i, Moderated(i)', (\A j : j > i => ~Moderated(j))'
      PROVE  toViewer'[i].muted = mutedThere
  <2>1. \A j : j > i + 1 => ~Moderated(j)
    <3> SUFFICES ASSUME NEW j, j > i + 1, Moderated(j) PROVE FALSE
      OBVIOUS
    <3>1. j \in 2..(n + 1) /\ i \in 1..n /\ Moderated(j - 1)'
      BY <1>2, <1>3, <1>4
    <3>2. j - 1 > i
      BY <1>1, <3>1
    <3> QED BY <1>4, <3>1, <3>2
  <2> QED BY <1>3, <1>4, <2>1 DEF StreamInv, MutesInv
<1>5. (\A i : ~Moderated(i)') <=> \A i : ~Moderated(i)
  BY <1>2, <1>3
<1> QED BY <1>4, <1>5 DEF StreamInv, MutesInv

\* A message that is not about the speaker is taken.
LEMMA TakenNotOfSpeaker ==
  ASSUME StreamInv, NEW n, NEW m, BeganWith(n, m), viewerIn,
         m.type \notin {"participant_joined", "participant_left", "mute_changed"},
         UNCHANGED <<viewerIn, speaker, stale>>, FirstSight' = FirstSight
  PROVE  SightInv'
<1>1. ~OfSpeaker(1) /\ n \in Nat
  BY DEF BeganWith, OfSpeaker
<1>2. \A i : OfSpeaker(i) => i \in 2..(n + 1) /\ OfSpeaker(i - 1)' /\ i - 1 \in 1..n
  BY <1>1 DEF BeganWith, OfSpeaker
<1>3. \A i : OfSpeaker(i)' => i \in 1..n /\ OfSpeaker(i + 1) /\ toViewer'[i] = toViewer[i + 1]
  BY TheRestMovesUp
<1>4. ASSUME NEW i, OfSpeaker(i)', (\A j : j > i => ~OfSpeaker(j))'
      PROVE  Says(toViewer[i + 1]) = [here |-> speaker.here, muted |-> speaker.muted]
  <2>1. \A j : j > i + 1 => ~OfSpeaker(j)
    <3> SUFFICES ASSUME NEW j, j > i + 1, OfSpeaker(j) PROVE FALSE
      OBVIOUS
    <3>1. j \in 2..(n + 1) /\ i \in 1..n /\ OfSpeaker(j - 1)'
      BY <1>2, <1>3, <1>4
    <3>2. j - 1 > i
      BY <1>1, <3>1
    <3> QED BY <1>4, <3>1, <3>2
  <2> QED BY <1>3, <1>4, <2>1 DEF StreamInv, SightInv
<1>5. (\A i : ~OfSpeaker(i)') <=> \A i : ~OfSpeaker(i)
  BY <1>2, <1>3
<1> QED BY <1>3, <1>4, <1>5 DEF StreamInv, SightInv, Says

\* The person shown is what was said last of him.
LEMMA TakenOfSpeaker ==
  ASSUME StreamInv, NEW n, NEW m, BeganWith(n, m), viewerIn, stage # "join",
         m.type \in {"participant_joined", "participant_left", "mute_changed"},
         UNCHANGED <<viewerIn, speaker, stage>>, person' = Says(m), stale' = (stale \/ stage = "load")
  PROVE  SightInv'
<1>1. OfSpeaker(1) /\ n \in Nat
  BY DEF BeganWith, OfSpeaker
<1>2. \A i : OfSpeaker(i) => i = 1 \/ (i \in 2..(n + 1) /\ OfSpeaker(i - 1)' /\ i - 1 \in 1..n)
  BY <1>1 DEF BeganWith, OfSpeaker
<1>3. \A i : OfSpeaker(i)' => i \in 1..n /\ OfSpeaker(i + 1) /\ toViewer'[i] = toViewer[i + 1]
  BY TheRestMovesUp
<1>4. ASSUME NEW i, OfSpeaker(i)', (\A j : j > i => ~OfSpeaker(j))'
      PROVE  Says(toViewer[i + 1]) = [here |-> speaker.here, muted |-> speaker.muted]
  <2>1. \A j : j > i + 1 => ~OfSpeaker(j)
    <3> SUFFICES ASSUME NEW j, j > i + 1, OfSpeaker(j) PROVE FALSE
      OBVIOUS
    <3>1. i \in 1..n /\ j # 1
      BY <1>1, <1>3, <1>4
    <3>2. j \in 2..(n + 1) /\ OfSpeaker(j - 1)' /\ j - 1 > i
      BY <1>1, <1>2, <3>1
    <3> QED BY <1>4, <3>2
  <2> QED BY <1>3, <1>4, <2>1 DEF StreamInv, SightInv
<1>5. ASSUME \A i : ~OfSpeaker(i)' PROVE Says(m) = [here |-> speaker.here, muted |-> speaker.muted]
  <2>1. \A j : j > 1 => ~OfSpeaker(j)
    BY <1>2, <1>5
  <2> QED BY <1>1, <2>1 DEF StreamInv, SightInv, BeganWith
<1>6. ~stale' => FirstSight' = person'
  BY DEF FirstSight
<1> QED BY <1>3, <1>4, <1>5, <1>6 DEF SightInv, Says

\* Neither a stream was named nor did the speaker leave: what was named is named still, ...
LEMMA StillNamed ==
  ASSUME NEW n, NEW m, BeganWith(n, m), m.type # "new_producer"
  PROVE  /\ \A p, i : SpeakerAnnounced(i, p) => SpeakerAnnounced(i - 1, p)' /\ i - 1 \in 1..n /\ i \in 2..(n + 1)
         /\ \A p : (\E i : SpeakerAnnounced(i, p)') <=> (\E i : SpeakerAnnounced(i, p))
         /\ n \in Nat
<1>1. \A p, i : SpeakerAnnounced(i, p) => SpeakerAnnounced(i - 1, p)' /\ i - 1 \in 1..n /\ i \in 2..(n + 1)
  BY DEF BeganWith, SpeakerAnnounced
<1> QED BY <1>1, TheRestMovesUp DEF BeganWith

\* What the messages left name.
LEMMA TakenNamesKeep ==
  ASSUME StreamInv, NEW n, NEW m, BeganWith(n, m), m.type # "new_producer",
         UNCHANGED <<produced, known, speaker>>, Coming' = Coming, ConsumedOnce',
         \A p \in Streams : Idle(p) => Idle(p)'
  PROVE  NamedOnce'
<1>1. ListedOnce'
  <2>1. \A p \in Coming : p \in Streams
    BY DEF StreamInv, NamedOnce, MediaStreamsTypeOK
  <2> QED BY <2>1, StillNamed DEF StreamInv, NamedOnce, ListedOnce
<1>2. AnnouncedOnce'
  <2>1. ASSUME NEW p \in Streams, NEW i, SpeakerAnnounced(i, p)'
        PROVE  p \in produced \ known /\ Idle(p) /\ \A j : SpeakerAnnounced(j, p)' => j = i
    <3>1. i \in 1..n /\ SpeakerAnnounced(i + 1, p) /\ n \in Nat
      BY <2>1, TheRestMovesUp DEF BeganWith
    <3>2. \A j : SpeakerAnnounced(j, p)' => j \in 1..n /\ j + 1 = i + 1
      BY <3>1, TheRestMovesUp DEF StreamInv, NamedOnce, AnnouncedOnce
    <3>3. \A j : SpeakerAnnounced(j, p)' => j = i
      BY <3>1, <3>2
    <3> QED BY <3>1, <3>3 DEF StreamInv, NamedOnce, AnnouncedOnce
  <2> QED BY <2>1 DEF AnnouncedOnce
<1> QED BY <1>1, <1>2 DEF StreamInv, NamedOnce

\* ... what is not, will be shown, ...
LEMMA TakenMissesNone ==
  ASSUME StreamInv, NEW n, NEW m, BeganWith(n, m), m.type # "new_producer",
         UNCHANGED <<speaker, viewerIn>>,
         viewerIn => \A p \in speaker.producers :
           p \in Coming \cup known \cup unseen \/ ~Idle(p) => p \in Coming' \cup known' \cup unseen' \/ ~Idle(p)',
         ResumedIsShown'
  PROVE  NoneIsMissed'
<1>1. viewerIn => SoonShown'
  <2> SUFFICES ASSUME viewerIn, NEW p \in speaker.producers
               PROVE  p \in Coming' \cup known' \cup unseen' \/ ~Idle(p)' \/ \E i : SpeakerAnnounced(i, p)'
    BY DEF SoonShown
  <2>1. p \in Coming \cup known \cup unseen \/ ~Idle(p) \/ \E i : SpeakerAnnounced(i, p)
    BY DEF StreamInv, NoneIsMissed, SoonShown
  <2> QED BY <2>1, StillNamed
<1>2. ErrorsTell'
  BY DEF StreamInv, NoneIsMissed, ErrorsTell, BeganWith
<1>3. LeftBefore'
  <2> SUFFICES ASSUME NEW i \in 1..n, toViewer'[i].type = "participant_left", NEW p \in speaker.producers
               PROVE  \E j : j > i /\ SpeakerAnnounced(j, p)'
    BY DEF LeftBefore, BeganWith
  <2>1. n \in Nat /\ i + 1 \in DOMAIN toViewer /\ toViewer[i + 1].type = "participant_left"
    BY DEF BeganWith
  <2>2. PICK j : j > i + 1 /\ SpeakerAnnounced(j, p)
    BY <2>1 DEF StreamInv, NoneIsMissed, LeftBefore
  <2>3. SpeakerAnnounced(j - 1, p)' /\ j \in 2..(n + 1)
    BY <2>2, StillNamed
  <2>4. j - 1 > i
    BY <2>1, <2>2, <2>3
  <2> QED BY <2>3, <2>4
<1> QED BY <1>1, <1>2, <1>3 DEF NoneIsMissed

\* ... and what is gone, hidden.
LEMMA TakenHidesIt ==
  ASSUME StreamInv, NEW n, NEW m, BeganWith(n, m), viewerIn, m.type # "participant_left", viewerIn' = viewerIn,
         UNCHANGED <<speaker, late>>,
         \A p \in Streams \ speaker.producers :
           (p \in known' \/ \E k \in Consumptions : k[1] = p /\ consuming'[k] = "building") =>
             \/ p \in known \/ \E k \in Consumptions : k[1] = p /\ consuming[k] = "building"
             \/ m.type = "consume_ok" /\ m.of[1] = p
  PROVE  NoneLingers'
<1>1. ASSUME NEW i \in DOMAIN toViewer, toViewer[i].type = "participant_left"
      PROVE  i - 1 \in DOMAIN toViewer' /\ toViewer'[i - 1].type = "participant_left" /\ i \in 2..(n + 1)
  BY <1>1 DEF BeganWith
<1>2. ASSUME NEW p \in Streams \ speaker.producers,
             p \in known' \/ \E k \in Consumptions : k[1] = p /\ consuming'[k] = "building"
      PROVE  p \in late \/ \E i \in DOMAIN toViewer' : toViewer'[i].type = "participant_left"
  <2>1. CASE p \in known \/ \E k \in Consumptions : k[1] = p /\ consuming[k] = "building"
    <3>1. p \in late \/ \E i \in DOMAIN toViewer : toViewer[i].type = "participant_left"
      BY <1>2, <2>1 DEF StreamInv, NoneLingers
    <3> QED BY <1>1, <3>1
  <2>2. CASE m.type = "consume_ok" /\ m.of[1] = p
    <3>1. 1 \in DOMAIN toViewer /\ toViewer[1] = m
      BY DEF BeganWith
    <3>2. \E j \in DOMAIN toViewer : j > 1 /\ toViewer[j].type = "participant_left"
      BY <1>2, <2>2, <3>1 DEF StreamInv, NoneLingers
    <3> QED BY <1>1, <3>2
  <2> QED BY <1>2, <2>1, <2>2
<1>3. ASSUME NEW p \in Streams \ speaker.producers,
             NEW i \in DOMAIN toViewer', toViewer'[i].type = "consume_ok", toViewer'[i].of[1] = p
      PROVE  \E j \in DOMAIN toViewer' : j > i /\ toViewer'[j].type = "participant_left"
  <2>1. i \in 1..n /\ n \in Nat /\ i + 1 \in DOMAIN toViewer /\ toViewer[i + 1] = toViewer'[i]
    BY <1>3 DEF BeganWith
  <2>2. PICK j \in DOMAIN toViewer : j > i + 1 /\ toViewer[j].type = "participant_left"
    BY <1>3, <2>1 DEF StreamInv, NoneLingers
  <2>3. j - 1 > i
    BY <1>1, <2>1, <2>2
  <2> QED BY <1>1, <2>2, <2>3
<1> QED BY <1>2, <1>3 DEF NoneLingers

\* Nothing of the client's changed but who is shown.
LEMMA TakeSpeakerKeeps == StreamInv /\ (TakeParticipantJoined \/ TakeMuteChanged) => StreamInv'
<1> SUFFICES ASSUME StreamInv, TakeParticipantJoined \/ TakeMuteChanged PROVE StreamInv'
  OBVIOUS
<1> USE DEF serverVars
<1> DEFINE m == Head(toViewer)
<1>1. PICK type \in {"participant_joined", "mute_changed"} : TakeMessage(type)
  BY DEF TakeParticipantJoined, TakeMuteChanged
<1>2. PICK n : BeganWith(n, m)
  BY <1>1, TakingBegins
<1>3. /\ m.type = type /\ viewerIn /\ stage \notin {"setup", "join", "closed"} /\ m \in ToViewer
      /\ UNCHANGED <<serverVars, setMutes, crossed>>
  BY <1>1, TakingBegins
<1>4. /\ person' = Says(m) /\ stale' = (stale \/ stage = "load")
      /\ UNCHANGED <<requests, stage, answer, toConsume, consuming, tile, known, mutedHere, unseen, late>>
  BY <1>3 DEF TakeParticipantJoined, TakeMuteChanged, Says
<1> HIDE DEF m
<1>5. MediaStreamsTypeOK'
  BY StreamTypesNext DEF StreamInv, MediaStreamsNext
<1>6. StepsInTurn' /\ InFlight' /\ JoinedFirst'
  BY <1>2, <1>3, <1>4, TakenKeeps
<1>7. NothingShownYet' /\ ShownOnce' /\ Coming' = Coming /\ ConsumedOnce' /\ \A p : Idle(p)' <=> Idle(p)
  BY <1>3, <1>4 DEF StreamInv, NothingShownYet, ShownOnce, Early, Coming, NamedOnce, ConsumedOnce, Idle
<1>8. NamedOnce'
  BY <1>2, <1>3, <1>4, <1>7, TakenNamesKeep
<1>9. NoneIsMissed'
  <2>1. ResumedIsShown'
    BY <1>3, <1>4 DEF StreamInv, NoneIsMissed, ResumedIsShown
  <2> QED BY <1>2, <1>3, <1>4, <1>7, <2>1, TakenMissesNone
<1>10. NoneLingers'
  BY <1>2, <1>3, <1>4, TakenHidesIt
<1>11. MutesInv'
  BY <1>2, <1>3, <1>4, TakenNotOfMutes
<1>12. SightInv'
  BY <1>2, <1>3, <1>4, TakenOfSpeaker
<1> QED BY <1>5, <1>6, <1>7, <1>8, <1>9, <1>10, <1>11, <1>12 DEF StreamInv

\* The viewer is told that he was muted.
LEMMA TakeModeratorMuteKeeps == StreamInv /\ TakeModeratorMute => StreamInv'
<1> SUFFICES ASSUME StreamInv, TakeModeratorMute PROVE StreamInv'
  OBVIOUS
<1> USE DEF serverVars
<1> DEFINE m == Head(toViewer)
<1>1. TakeMessage("moderator_mute")
  BY DEF TakeModeratorMute
<1>2. PICK n : BeganWith(n, m)
  BY <1>1, TakingBegins
<1>3. /\ m.type = "moderator_mute" /\ viewerIn /\ stage \notin {"setup", "join", "closed"} /\ m \in ToViewer
      /\ UNCHANGED <<serverVars, setMutes, crossed>>
  BY <1>1, TakingBegins
<1>4. /\ mutedHere' = m.muted
      /\ UNCHANGED <<requests, stage, answer, toConsume, consuming, tile, known, person, unseen, late, stale>>
  BY DEF TakeModeratorMute
<1> HIDE DEF m
<1>5. MediaStreamsTypeOK'
  BY StreamTypesNext DEF StreamInv, MediaStreamsNext
<1>6. StepsInTurn' /\ InFlight' /\ JoinedFirst'
  BY <1>2, <1>3, <1>4, TakenKeeps
<1>7. NothingShownYet' /\ ShownOnce' /\ Coming' = Coming /\ ConsumedOnce' /\ \A p : Idle(p)' <=> Idle(p)
  BY <1>3, <1>4 DEF StreamInv, NothingShownYet, ShownOnce, Early, Coming, NamedOnce, ConsumedOnce, Idle
<1>8. NamedOnce'
  BY <1>2, <1>3, <1>4, <1>7, TakenNamesKeep
<1>9. NoneIsMissed'
  <2>1. ResumedIsShown'
    BY <1>3, <1>4 DEF StreamInv, NoneIsMissed, ResumedIsShown
  <2> QED BY <1>2, <1>3, <1>4, <1>7, <2>1, TakenMissesNone
<1>10. NoneLingers'
  BY <1>2, <1>3, <1>4, TakenHidesIt
<1>11. SightInv'
  <2>1. FirstSight' = FirstSight
    BY <1>3, <1>4 DEF FirstSight
  <2> QED BY <1>2, <1>3, <1>4, <2>1, TakenNotOfSpeaker
<1>12. MutesInv'
  <2>1. Moderated(1) /\ n \in Nat /\ toViewer[1] = m
    BY <1>2, <1>3 DEF BeganWith, Moderated
  <2>2. \A i : Moderated(i) => i = 1 \/ (i \in 2..(n + 1) /\ Moderated(i - 1)' /\ i - 1 \in 1..n)
    BY <1>2 DEF BeganWith, Moderated
  <2>3. \A i : Moderated(i)' => i \in 1..n /\ Moderated(i + 1) /\ toViewer'[i] = toViewer[i + 1]
    BY <1>2, TheRestMovesUp
  <2>4. ASSUME ~crossed, NEW i, Moderated(i)', (\A j : j > i => ~Moderated(j))'
        PROVE  toViewer'[i].muted = mutedThere
    <3>1. \A j : j > i + 1 => ~Moderated(j)
      <4> SUFFICES ASSUME NEW j, j > i + 1, Moderated(j) PROVE FALSE
        OBVIOUS
      <4>1. i \in 1..n /\ j # 1
        BY <2>1, <2>3, <2>4
      <4>2. j \in 2..(n + 1) /\ Moderated(j - 1)' /\ j - 1 > i
        BY <2>1, <2>2, <4>1
      <4> QED BY <2>4, <4>2
    <3> QED BY <2>3, <2>4, <3>1 DEF StreamInv, MutesInv
  <2>5. ASSUME ~crossed, \A i : ~Moderated(i)' PROVE mutedHere' = mutedThere
    <3>1. \A j : j > 1 => ~Moderated(j)
      BY <2>2, <2>5
    <3> QED BY <1>4, <2>1, <2>5, <3>1 DEF StreamInv, MutesInv
  <2>6. ~crossed => setMutes = <<>>
    BY <2>1 DEF StreamInv, MutesInv
  <2> QED BY <1>3, <2>4, <2>5, <2>6 DEF MutesInv
<1> QED BY <1>5, <1>6, <1>7, <1>8, <1>9, <1>10, <1>11, <1>12 DEF StreamInv

\* Everything shown of the speaker goes, and what is being consumed counts as late.
LEMMA TakeLeftKeeps == StreamInv /\ TakeParticipantLeft => StreamInv'
<1> SUFFICES ASSUME StreamInv, TakeParticipantLeft PROVE StreamInv'
  OBVIOUS
<1> USE DEF serverVars
<1> DEFINE m == Head(toViewer)
<1>1. TakeMessage("participant_left")
  BY DEF TakeParticipantLeft
<1>2. PICK n : BeganWith(n, m)
  BY <1>1, TakingBegins
<1>3. /\ m.type = "participant_left" /\ viewerIn /\ stage \notin {"setup", "join", "closed"} /\ m \in ToViewer
      /\ UNCHANGED <<serverVars, setMutes, crossed>>
  BY <1>1, TakingBegins
<1>4. /\ person' = Says(m) /\ stale' = (stale \/ stage = "load")
      /\ tile' = [p \in Streams |-> 0]
      /\ late' = late \cup {k[1] : k \in {c \in Consumptions : consuming[c] = "building"}}
      /\ UNCHANGED <<requests, stage, answer, toConsume, consuming, mutedHere, unseen>>
  BY <1>3 DEF TakeParticipantLeft, Says
<1>5. known' = {}
  BY DEF TakeParticipantLeft, StreamInv, ShownOnce, MediaStreamsTypeOK
<1> HIDE DEF m
<1>6. MediaStreamsTypeOK'
  BY StreamTypesNext DEF StreamInv, MediaStreamsNext
<1>7. StepsInTurn' /\ InFlight' /\ JoinedFirst'
  BY <1>2, <1>3, <1>4, TakenKeeps
<1>8. NothingShownYet' /\ ShownOnce' /\ Coming' = Coming /\ ConsumedOnce' /\ \A p : Idle(p)' <=> Idle(p)
  BY <1>3, <1>4, <1>5 DEF StreamInv, NothingShownYet, ShownOnce, Early, Coming, NamedOnce, ConsumedOnce, Idle
<1>a. /\ \A p, i : SpeakerAnnounced(i, p) => SpeakerAnnounced(i - 1, p)' /\ i - 1 \in 1..n /\ i \in 2..(n + 1)
      /\ \A p, i : SpeakerAnnounced(i, p)' => i \in 1..n /\ SpeakerAnnounced(i + 1, p)
      /\ n \in Nat /\ 1 \in DOMAIN toViewer /\ toViewer[1] = m
  <2>1. n \in Nat /\ 1 \in DOMAIN toViewer /\ toViewer[1] = m
    BY <1>2 DEF BeganWith
  <2>2. \A p, i : SpeakerAnnounced(i, p)' => i \in 1..n /\ SpeakerAnnounced(i + 1, p)
    BY <1>2, TheRestMovesUp
  <2>3. \A p, i : SpeakerAnnounced(i, p) => SpeakerAnnounced(i - 1, p)' /\ i - 1 \in 1..n /\ i \in 2..(n + 1)
    BY <1>2, <1>3, StillNamed
  <2> QED BY <2>1, <2>2, <2>3
<1>b. \A p \in speaker.producers : \E i : SpeakerAnnounced(i, p)
  BY <1>3, <1>a DEF StreamInv, NoneIsMissed, LeftBefore
<1>9. NamedOnce'
  <2>1. ListedOnce'
    <3>1. \A p \in Coming : p \in Streams
      BY DEF StreamInv, NamedOnce, MediaStreamsTypeOK
    <3> QED BY <1>5, <1>8, <1>a, <3>1 DEF StreamInv, NamedOnce, ListedOnce
  <2>2. AnnouncedOnce'
    <3>1. ASSUME NEW p \in Streams, NEW i, SpeakerAnnounced(i, p)'
          PROVE  p \in produced /\ Idle(p) /\ \A j : SpeakerAnnounced(j, p)' => j = i
      <4>1. i \in 1..n /\ SpeakerAnnounced(i + 1, p) /\ n \in Nat
        BY <1>a, <3>1
      <4>2. \A j : SpeakerAnnounced(j, p)' => j \in 1..n /\ j + 1 = i + 1
        BY <1>a, <4>1 DEF StreamInv, NamedOnce, AnnouncedOnce
      <4>3. \A j : SpeakerAnnounced(j, p)' => j = i
        BY <4>1, <4>2
      <4> QED BY <4>1, <4>3 DEF StreamInv, NamedOnce, AnnouncedOnce
    <3> QED BY <1>3, <1>5, <1>8, <3>1 DEF AnnouncedOnce
  <2> QED BY <1>3, <1>5, <1>8, <2>1, <2>2 DEF StreamInv, NamedOnce
<1>10. NoneIsMissed'
  <2>1. SoonShown'
    BY <1>3, <1>a, <1>b DEF SoonShown
  <2>2. ResumedIsShown'
    <3>1. ASSUME NEW k \in Consumptions, consuming[k] = "resuming" PROVE k[1] \notin speaker.producers
      <4>1. k[1] \in Streams /\ ~Idle(k[1])
        BY <3>1, ConsumptionsName DEF Idle
      <4> QED BY <1>b, <4>1 DEF StreamInv, NamedOnce, AnnouncedOnce
    <3> QED BY <1>3, <1>4, <3>1 DEF ResumedIsShown
  <2>3. ErrorsTell'
    BY <1>2, <1>3 DEF StreamInv, NoneIsMissed, ErrorsTell, BeganWith
  <2>4. LeftBefore'
    <3> SUFFICES ASSUME NEW i \in 1..n, toViewer'[i].type = "participant_left", NEW p \in speaker.producers
                 PROVE  \E j : j > i /\ SpeakerAnnounced(j, p)'
      BY <1>2, <1>3 DEF LeftBefore, BeganWith
    <3>1. i + 1 \in DOMAIN toViewer /\ toViewer[i + 1].type = "participant_left"
      BY <1>2 DEF BeganWith
    <3>2. PICK j : j > i + 1 /\ SpeakerAnnounced(j, p)
      BY <3>1 DEF StreamInv, NoneIsMissed, LeftBefore
    <3>3. SpeakerAnnounced(j - 1, p)' /\ j \in 2..(n + 1) /\ j - 1 > i
      BY <1>a, <3>2
    <3> QED BY <3>3
  <2> QED BY <2>1, <2>2, <2>3, <2>4 DEF NoneIsMissed
<1>11. NoneLingers'
  <2>1. ASSUME NEW k \in Consumptions, consuming'[k] = "building" PROVE k[1] \in late'
    BY <1>4, <2>1
  <2>2. ASSUME NEW p \in Streams \ speaker.producers,
               NEW i \in DOMAIN toViewer', toViewer'[i].type = "consume_ok", toViewer'[i].of[1] = p
        PROVE  \E j \in DOMAIN toViewer' : j > i /\ toViewer'[j].type = "participant_left"
    <3>1. i \in 1..n /\ i + 1 \in DOMAIN toViewer /\ toViewer[i + 1] = toViewer'[i]
      BY <1>2, <2>2 DEF BeganWith
    <3>2. PICK j \in DOMAIN toViewer : j > i + 1 /\ toViewer[j].type = "participant_left"
      BY <1>3, <2>2, <3>1 DEF StreamInv, NoneLingers
    <3>3. j - 1 \in DOMAIN toViewer' /\ toViewer'[j - 1] = toViewer[j] /\ j - 1 > i
      BY <1>2, <1>a, <3>1, <3>2 DEF BeganWith
    <3> QED BY <3>2, <3>3
  <2> QED BY <1>3, <1>5, <2>1, <2>2 DEF NoneLingers
<1>12. MutesInv'
  BY <1>2, <1>3, <1>4, TakenNotOfMutes
<1>13. SightInv'
  BY <1>2, <1>3, <1>4, TakenOfSpeaker
<1> QED BY <1>6, <1>7, <1>8, <1>9, <1>10, <1>11, <1>12, <1>13 DEF StreamInv

\* A consumption that begins is the only one of its stream, and nothing of it is under way.
LEMMA ConsumptionBegins ==
  ASSUME StreamInv, NEW k \in Consumptions, ~Early, k[1] \in produced \ known, Idle(k[1]),
         BeginConsume(k), UNCHANGED <<known, tile, produced, viewerIn, stage>>
  PROVE  /\ consuming' = [consuming EXCEPT ![k] = "asked"]
         /\ requests' = requests \cup {[type |-> "consume", of |-> k]}
         /\ ConsumedOnce' /\ ShownOnce' /\ ~Idle(k[1])'
         /\ \A p : p # k[1] => (Idle(p)' <=> Idle(p))
         /\ \A c \in Consumptions : c # k => consuming'[c] = consuming[c]
         /\ consuming'[k] = "asked"
<1>1. consuming' = [consuming EXCEPT ![k] = "asked"] /\ requests' = requests \cup {[type |-> "consume", of |-> k]}
  BY DEF BeginConsume, AskServer
<1>2. (\A c \in Consumptions : c # k => consuming'[c] = consuming[c]) /\ consuming'[k] = "asked"
  BY <1>1 DEF StreamInv, MediaStreamsTypeOK
<1>3. \A c \in Consumptions : c[1] = k[1] => consuming[c] = "no"
  BY DEF Idle
<1>4. ConsumedOnce'
  BY <1>2, <1>3 DEF StreamInv, NamedOnce, ConsumedOnce
<1>5. ShownOnce'
  BY <1>2 DEF StreamInv, ShownOnce
<1>6. ~Idle(k[1])' /\ \A p : p # k[1] => (Idle(p)' <=> Idle(p))
  BY <1>2 DEF Idle
<1> QED BY <1>1, <1>2, <1>4, <1>5, <1>6

\* The client asks for more while the wire is as it was.
LEMMA AskedKeepsFlight ==
  ASSUME StreamInv, NEW k \in Consumptions, toViewer' = toViewer \/ (\E n, m : BeganWith(n, m) /\ viewerIn),
         consuming[k] \in {"no", "building"}, UNCHANGED <<viewerIn, stage>>, stage \notin {"setup", "join", "closed"},
         \/ consuming'[k] = "asked" /\ requests' = requests \cup {[type |-> "consume", of |-> k]}
         \/ consuming'[k] = "resuming" /\ requests' = requests \cup {[type |-> "resume_consumer", of |-> k]},
         \A c \in Consumptions : c # k => consuming'[c] = consuming[c]
  PROVE  StepsInTurn' /\ InFlight' /\ JoinedFirst'
<1>1. PICK r : requests' = requests \cup {r} /\ r.of = k /\ r.type \in {"consume", "resume_consumer"}
         /\ (r.type = "consume" => consuming'[k] = "asked") /\ (r.type = "resume_consumer" => consuming'[k] = "resuming")
  <2>1. CASE consuming'[k] = "asked" /\ requests' = requests \cup {[type |-> "consume", of |-> k]}
    <3> DEFINE r == [type |-> "consume", of |-> k]
    <3>1. r.of = k /\ r.type = "consume" /\ requests' = requests \cup {r}
      BY <2>1
    <3> HIDE DEF r
    <3> QED BY <2>1, <3>1
  <2>2. CASE consuming'[k] = "resuming" /\ requests' = requests \cup {[type |-> "resume_consumer", of |-> k]}
    <3> DEFINE r == [type |-> "resume_consumer", of |-> k]
    <3>1. r.of = k /\ r.type = "resume_consumer" /\ requests' = requests \cup {r}
      BY <2>2
    <3> HIDE DEF r
    <3> QED BY <2>2, <3>1
  <2> QED BY <2>1, <2>2
<1>a. /\ \A i \in DOMAIN toViewer : toViewer[i] \in ToViewer
      /\ \A q \in requests : q \in Request
  BY DEF StreamInv, MediaStreamsTypeOK
<1>2. /\ \A q \in requests : q.type \in {"consume", "resume_consumer"} => q.of \in Consumptions /\ q.of # k
      /\ \A i \in DOMAIN toViewer : toViewer[i].type \in {"consume_ok", "resume_ok", "error"} =>
           toViewer[i].of \in Consumptions /\ toViewer[i].of # k
  BY <1>a, MessagesCarry, RequestsCarry DEF StreamInv, InFlight
<1>3. viewerIn
  BY DEF StreamInv, JoinedFirst
<1>4. CASE toViewer' = toViewer
  <2>1. StepsInTurn'
    BY <1>1, <1>4 DEF StreamInv, StepsInTurn, InTurn, StepRequests
  <2>2. InFlight'
    BY <1>1, <1>2, <1>4 DEF StreamInv, InFlight
  <2>3. JoinedFirst'
    BY <1>1, <1>3 DEF StreamInv, JoinedFirst
  <2> QED BY <2>1, <2>2, <2>3
<1>5. ASSUME NEW n, NEW m, BeganWith(n, m) PROVE StepsInTurn' /\ InFlight' /\ JoinedFirst'
  <2>a. /\ n \in Nat /\ DOMAIN toViewer' = 1..n
        /\ \A i \in 1..n : i + 1 \in DOMAIN toViewer /\ toViewer'[i] = toViewer[i + 1]
        /\ \A i, j \in 1..n : i + 1 = j + 1 => i = j
    BY <1>5 DEF BeganWith
  <2>1. StepsInTurn'
    <3>1. ASSUME NEW i \in 1..n, toViewer'[i].type \in StepAnswers
          PROVE  /\ InTurn(toViewer[i].type)'
                 /\ \A q \in requests' : q.type \notin StepRequests
                 /\ \A j \in 1..n : toViewer'[j].type \in StepAnswers => j = i
      <4>1. i + 1 \in DOMAIN toViewer /\ toViewer[i + 1].type \in StepAnswers /\ toViewer'[i] = toViewer[i + 1]
        BY <2>a, <3>1
      <4>2. /\ InTurn(toViewer[i + 1].type)
            /\ \A q \in requests : q.type \notin StepRequests
            /\ \A j \in DOMAIN toViewer : toViewer[j].type \in StepAnswers => j = i + 1
        BY <4>1 DEF StreamInv, StepsInTurn
      <4> QED BY <1>1, <2>a, <4>1, <4>2 DEF InTurn, StepRequests
    <3> QED BY <1>1, <2>a, <3>1 DEF StreamInv, StepsInTurn, InTurn, StepRequests
  <2>2. InFlight'
    <3> DEFINE Types == {"consume_ok", "resume_ok", "error"}
    <3>1. ASSUME NEW i \in 1..n
          PROVE  /\ toViewer'[i].type = "consume_ok" => consuming'[toViewer'[i].of] = "asked"
                 /\ toViewer'[i].type = "resume_ok" => consuming'[toViewer'[i].of] = "resuming"
                 /\ toViewer'[i].type = "error" => consuming'[toViewer'[i].of] \in {"asked", "resuming"}
                 /\ toViewer'[i].type \in Types =>
                      /\ \A q \in requests' : q.type \in {"consume", "resume_consumer"} => q.of # toViewer'[i].of
                      /\ \A j \in 1..n : toViewer'[j].type \in Types /\ toViewer'[j].of = toViewer'[i].of => j = i
      <4>1. i + 1 \in DOMAIN toViewer /\ toViewer'[i] = toViewer[i + 1]
        BY <2>a, <3>1
      <4>2. toViewer[i + 1].type \in Types =>
              \A j \in DOMAIN toViewer : toViewer[j].type \in Types /\ toViewer[j].of = toViewer[i + 1].of => j = i + 1
        BY <4>1 DEF StreamInv, InFlight
      <4>3. toViewer'[i].type \in Types =>
              \A j \in 1..n : toViewer'[j].type \in Types /\ toViewer'[j].of = toViewer'[i].of => j = i
        BY <2>a, <4>1, <4>2
      <4> QED BY <1>1, <1>2, <4>1, <4>3 DEF StreamInv, InFlight
    <3>2. \A q \in requests' : /\ q.type = "consume" => consuming'[q.of] = "asked"
                               /\ q.type = "resume_consumer" => consuming'[q.of] = "resuming"
      BY <1>1, <1>2 DEF StreamInv, InFlight
    <3> QED BY <2>a, <3>1, <3>2 DEF InFlight
  <2>3. JoinedFirst'
    BY <1>1, <1>3 DEF StreamInv, JoinedFirst
  <2> QED BY <2>1, <2>2, <2>3
<1> QED BY <1>4, <1>5

\* A stream announced before there is a transport is never seen; later it is consumed.
LEMMA TakeNewProducerKeeps == StreamInv /\ TakeNewProducer => StreamInv'
<1> SUFFICES ASSUME StreamInv, TakeNewProducer PROVE StreamInv'
  OBVIOUS
<1> USE DEF serverVars
<1> DEFINE m == Head(toViewer)
<1>1. TakeMessage("new_producer")
  BY DEF TakeNewProducer
<1>2. PICK n : BeganWith(n, m)
  BY <1>1, TakingBegins
<1>3. /\ m.type = "new_producer" /\ viewerIn /\ stage \notin {"setup", "join", "closed"} /\ m \in ToViewer
      /\ UNCHANGED <<serverVars, setMutes, crossed>>
  BY <1>1, TakingBegins
<1>p. PICK p \in Streams : p = m.stream
  BY <1>3, MessagesCarry
<1>k. PICK k : k = <<p, "announced">>
  OBVIOUS
<1>4. k \in Consumptions /\ k[1] = p
  BY <1>p, <1>k, ConsumptionsName
<1>5. /\ UNCHANGED <<stage, answer, toConsume, tile, known, person, mutedHere, late, stale>>
      /\ \/ Receiving /\ BeginConsume(k) /\ unseen' = unseen
         \/ ~Receiving /\ unseen' = unseen \cup {p} /\ UNCHANGED <<consuming, requests>>
  BY <1>p, <1>k DEF TakeNewProducer
<1> HIDE DEF m
<1>a. SpeakerAnnounced(1, p) /\ n \in Nat
  BY <1>2, <1>3, <1>p DEF SpeakerAnnounced, BeganWith
<1>b. p \in produced \ known /\ Idle(p) /\ (\A j : SpeakerAnnounced(j, p) => j = 1) /\ p \notin Coming
  BY <1>4, <1>a DEF StreamInv, NamedOnce, AnnouncedOnce, ListedOnce
<1>c. Receiving <=> ~Early
  BY <1>3 DEF Receiving, Early, StreamInv, MediaStreamsTypeOK, Stages
<1>6. MediaStreamsTypeOK'
  BY StreamTypesNext DEF StreamInv, MediaStreamsNext
<1>7. Receiving => consuming'[k] = "asked" /\ requests' = requests \cup {[type |-> "consume", of |-> k]}
      /\ \A c \in Consumptions : c # k => consuming'[c] = consuming[c]
  BY <1>3, <1>4, <1>5, <1>b, <1>c, ConsumptionBegins
<1>8. StepsInTurn' /\ InFlight' /\ JoinedFirst'
  <2>1. CASE Receiving
    <3>1. consuming[k] = "no"
      BY <1>4, <1>b DEF Idle
    <3> QED BY <1>2, <1>3, <1>4, <1>5, <1>7, <2>1, <3>1, AskedKeepsFlight
  <2>2. CASE ~Receiving
    BY <1>2, <1>3, <1>5, <2>2, TakenKeeps
  <2> QED BY <2>1, <2>2
<1>9. /\ Coming' = Coming /\ NothingShownYet' /\ ShownOnce' /\ ConsumedOnce'
      /\ \A q : q # p => (Idle(q)' <=> Idle(q))
      /\ p \in unseen' \/ ~Idle(p)'
  <2>1. Coming' = Coming
    BY <1>3, <1>5 DEF Coming
  <2>2. NothingShownYet'
    BY <1>5, <1>c DEF StreamInv, NothingShownYet, Early
  <2>3. CASE Receiving
    BY <1>3, <1>4, <1>5, <1>b, <1>c, <2>1, <2>2, <2>3, ConsumptionBegins
  <2>4. CASE ~Receiving
    BY <1>3, <1>5, <2>1, <2>2, <2>4 DEF StreamInv, ShownOnce, NamedOnce, ConsumedOnce, Idle
  <2> QED BY <2>3, <2>4
<1>d. \A q, i : SpeakerAnnounced(i, q)' => i \in 1..n /\ SpeakerAnnounced(i + 1, q) /\ q # p
  <2>1. \A q, i : SpeakerAnnounced(i, q)' => i \in 1..n /\ SpeakerAnnounced(i + 1, q)
    BY <1>2, TheRestMovesUp
  <2>2. \A i \in 1..n : i + 1 # 1
    BY <1>a
  <2> QED BY <1>b, <2>1, <2>2
<1>e. \A q, i : q # p /\ SpeakerAnnounced(i, q) => SpeakerAnnounced(i - 1, q)' /\ i - 1 \in 1..n /\ i \in 2..(n + 1)
  BY <1>2, <1>a DEF SpeakerAnnounced, BeganWith
<1>10. NamedOnce'
  <2>1. ListedOnce'
    BY <1>5, <1>9, <1>b, <1>d DEF StreamInv, NamedOnce, ListedOnce
  <2>2. AnnouncedOnce'
    <3>1. ASSUME NEW q \in Streams, NEW i, SpeakerAnnounced(i, q)'
          PROVE  q \in produced \ known /\ Idle(q)' /\ \A j : SpeakerAnnounced(j, q)' => j = i
      <4>1. i \in 1..n /\ SpeakerAnnounced(i + 1, q) /\ q # p
        BY <1>d, <3>1
      <4>2. \A j : SpeakerAnnounced(j, q)' => j \in 1..n /\ j + 1 = i + 1
        BY <1>d, <4>1 DEF StreamInv, NamedOnce, AnnouncedOnce
      <4>3. \A j : SpeakerAnnounced(j, q)' => j = i
        BY <1>a, <4>1, <4>2
      <4> QED BY <1>9, <4>1, <4>3 DEF StreamInv, NamedOnce, AnnouncedOnce
    <3> QED BY <1>3, <1>5, <3>1 DEF AnnouncedOnce
  <2> QED BY <1>3, <1>5, <1>9, <2>1, <2>2 DEF StreamInv, NamedOnce
<1>11. NoneIsMissed'
  <2>1. SoonShown'
    <3> SUFFICES ASSUME NEW q \in speaker.producers
                 PROVE  q \in Coming \cup known \cup unseen' \/ ~Idle(q)' \/ \E i : SpeakerAnnounced(i, q)'
      BY <1>3, <1>5, <1>9 DEF SoonShown
    <3>1. CASE q = p
      BY <1>9, <3>1
    <3>2. CASE q # p
      <4>1. q \in Coming \cup known \cup unseen \/ ~Idle(q) \/ \E i : SpeakerAnnounced(i, q)
        BY <1>3 DEF StreamInv, NoneIsMissed, SoonShown
      <4> QED BY <1>5, <1>9, <1>e, <3>2, <4>1
    <3> QED BY <3>1, <3>2
  <2>2. ResumedIsShown'
    BY <1>3, <1>5, <1>7 DEF StreamInv, NoneIsMissed, ResumedIsShown
  <2>3. ErrorsTell'
    BY <1>2, <1>3 DEF StreamInv, NoneIsMissed, ErrorsTell, BeganWith
  <2>4. LeftBefore'
    <3> SUFFICES ASSUME NEW i \in 1..n, toViewer'[i].type = "participant_left", NEW q \in speaker.producers
                 PROVE  \E j : j > i /\ SpeakerAnnounced(j, q)'
      BY <1>2, <1>3 DEF LeftBefore, BeganWith
    <3>1. i + 1 \in DOMAIN toViewer /\ toViewer[i + 1].type = "participant_left"
      BY <1>2 DEF BeganWith
    <3>2. PICK j : j > i + 1 /\ SpeakerAnnounced(j, q)
      BY <3>1 DEF StreamInv, NoneIsMissed, LeftBefore
    <3>3. q # p
      BY <1>a, <1>b, <3>2
    <3>4. SpeakerAnnounced(j - 1, q)' /\ j \in 2..(n + 1)
      BY <1>e, <3>2, <3>3
    <3>5. j - 1 > i
      BY <1>a, <3>2, <3>4
    <3> QED BY <3>4, <3>5
  <2> QED BY <2>1, <2>2, <2>3, <2>4 DEF NoneIsMissed
<1>12. NoneLingers'
  <2>1. \A c \in Consumptions : consuming'[c] = "building" => consuming[c] = "building"
    BY <1>5, <1>7
  <2> QED BY <1>2, <1>3, <1>5, <2>1, TakenHidesIt
<1>13. MutesInv'
  BY <1>2, <1>3, <1>5, TakenNotOfMutes
<1>14. SightInv'
  <2>1. FirstSight' = FirstSight
    BY <1>3, <1>5 DEF FirstSight
  <2> QED BY <1>2, <1>3, <1>5, <2>1, TakenNotOfSpeaker
<1> QED BY <1>6, <1>8, <1>9, <1>10, <1>11, <1>12, <1>13, <1>14 DEF StreamInv

\* An answer to a consumption is the only thing of it that is under way.
LEMMA ConsumptionAnswered ==
  ASSUME StreamInv, NEW n, NEW m \in ToViewer, BeganWith(n, m), viewerIn, stage \notin {"setup", "join", "closed"},
         m.type \in {"consume_ok", "resume_ok", "error"}, viewerIn' = viewerIn,
         NEW v \in {"building", "no"}, consuming' = [consuming EXCEPT ![m.of] = v], v = "building" <=> m.type = "consume_ok",
         stage' \in {stage, "broken"}, requests' = requests,
         UNCHANGED <<speaker, produced, toConsume, tile, known, person, unseen, late, stale, answer,
           mutedThere, setMutes, crossed, mutedHere>>
  PROVE  /\ StepsInTurn' /\ JoinedFirst' /\ NothingShownYet' /\ InFlight' /\ NamedOnce' /\ ShownOnce'
         /\ NoneIsMissed' /\ NoneLingers' /\ SightInv' /\ MutesInv'
<1>1. PICK k \in Consumptions : k = m.of /\ k[1] \in Streams
  BY MessagesCarry, ConsumptionsName
<1>2. consuming'[k] = v /\ \A c \in Consumptions : c # k => consuming'[c] = consuming[c]
  BY <1>1 DEF StreamInv, MediaStreamsTypeOK
<1>3. /\ n \in Nat /\ 1 \in DOMAIN toViewer /\ toViewer[1] = m /\ DOMAIN toViewer' = 1..n
      /\ \A i \in 1..n : i + 1 \in DOMAIN toViewer /\ toViewer'[i] = toViewer[i + 1] /\ i + 1 # 1
      /\ \A i, j \in 1..n : i + 1 = j + 1 => i = j
  BY DEF BeganWith
<1>4. /\ consuming[k] \in {"asked", "resuming"}
      /\ m.type = "consume_ok" => consuming[k] = "asked"
      /\ m.type = "resume_ok" => consuming[k] = "resuming"
      /\ \A r \in requests : r.type \in {"consume", "resume_consumer"} => r.of # k
      /\ \A j \in DOMAIN toViewer : toViewer[j].type \in {"consume_ok", "resume_ok", "error"} /\ toViewer[j].of = k => j = 1
  BY <1>1, <1>3 DEF StreamInv, InFlight
<1>5. ~Early /\ ~Early'
  BY <1>1, <1>4 DEF StreamInv, NothingShownYet, Early
<1>6. \A type \in StepRequests \cup StepAnswers : ~InTurn(type)
  BY <1>5 DEF Early, InTurn
<1>7. StepsInTurn'
  BY <1>3, <1>6 DEF StreamInv, StepsInTurn
<1>8. JoinedFirst' /\ NothingShownYet'
  BY <1>5 DEF StreamInv, JoinedFirst, NothingShownYet, Early
<1>a. /\ \A i \in DOMAIN toViewer : toViewer[i] \in ToViewer
      /\ \A q \in requests : q \in Request
  BY DEF StreamInv, MediaStreamsTypeOK
<1>9. InFlight'
  <2> DEFINE Types == {"consume_ok", "resume_ok", "error"}
  <2>1. ASSUME NEW i \in 1..n
        PROVE  /\ toViewer'[i].type = "consume_ok" => consuming'[toViewer'[i].of] = "asked"
               /\ toViewer'[i].type = "resume_ok" => consuming'[toViewer'[i].of] = "resuming"
               /\ toViewer'[i].type = "error" => consuming'[toViewer'[i].of] \in {"asked", "resuming"}
               /\ toViewer'[i].type \in Types =>
                    /\ \A q \in requests' : q.type \in {"consume", "resume_consumer"} => q.of # toViewer'[i].of
                    /\ \A j \in 1..n : toViewer'[j].type \in Types /\ toViewer'[j].of = toViewer'[i].of => j = i
    <3>1. i + 1 \in DOMAIN toViewer /\ toViewer'[i] = toViewer[i + 1] /\ i + 1 # 1
      BY <1>3, <2>1
    <3>2. toViewer[i + 1].type \in Types =>
            /\ toViewer[i + 1].of \in Consumptions /\ toViewer[i + 1].of # k
            /\ \A j \in DOMAIN toViewer : toViewer[j].type \in Types /\ toViewer[j].of = toViewer[i + 1].of => j = i + 1
      BY <1>4, <1>a, <3>1, MessagesCarry DEF StreamInv, InFlight
    <3>3. toViewer'[i].type \in Types =>
            \A j \in 1..n : toViewer'[j].type \in Types /\ toViewer'[j].of = toViewer'[i].of => j = i
      BY <1>3, <3>1, <3>2
    <3> QED BY <1>2, <3>1, <3>2, <3>3 DEF StreamInv, InFlight
  <2>2. \A q \in requests : /\ q.type = "consume" => consuming'[q.of] = "asked"
                            /\ q.type = "resume_consumer" => consuming'[q.of] = "resuming"
    BY <1>2, <1>4, <1>a, RequestsCarry DEF StreamInv, InFlight
  <2> QED BY <1>3, <2>1, <2>2 DEF InFlight
<1>b. /\ \A p : p # k[1] => (Idle(p)' <=> Idle(p))
      /\ v = "building" => ~Idle(k[1])'
      /\ ~Idle(k[1])
      /\ \A p : Idle(p) => Idle(p)'
  BY <1>1, <1>2, <1>4 DEF Idle
<1>c. ConsumedOnce' /\ ShownOnce'
  BY <1>2, <1>4 DEF StreamInv, NamedOnce, ConsumedOnce, ShownOnce
<1>d. Coming' = Coming
  BY <1>5 DEF Coming, Early
<1>10. NamedOnce'
  BY <1>b, <1>c, <1>d, TakenNamesKeep
<1>11. NoneIsMissed'
  <2>1. ResumedIsShown'
    BY <1>2 DEF StreamInv, NoneIsMissed, ResumedIsShown
  <2>2. ASSUME k[1] \in speaker.producers, v = "no" PROVE k[1] \in known
    <3>1. m.type # "error"
      BY <1>1, <1>3, <2>2 DEF StreamInv, NoneIsMissed, ErrorsTell
    <3> QED BY <1>4, <2>2, <3>1 DEF StreamInv, NoneIsMissed, ResumedIsShown
  <2> QED BY <1>b, <1>d, <2>1, <2>2, TakenMissesNone
<1>12. NoneLingers'
  <2>1. \A c \in Consumptions : consuming'[c] = "building" => consuming[c] = "building" \/ (m.type = "consume_ok" /\ m.of[1] = c[1])
    BY <1>1, <1>2
  <2> QED BY <2>1, TakenHidesIt
<1>13. MutesInv'
  BY TakenNotOfMutes
<1>14. SightInv'
  <2>1. FirstSight' = FirstSight
    BY <1>5 DEF FirstSight, Early
  <2> QED BY <2>1, TakenNotOfSpeaker
<1> QED BY <1>7, <1>8, <1>9, <1>c, <1>10, <1>11, <1>12, <1>13, <1>14

\* The viewer takes the answer to a consumption, its resumption or an error.
LEMMA TakeAnswersKeep == StreamInv /\ (TakeConsumed \/ TakeResumed \/ TakeError) => StreamInv'
<1> SUFFICES ASSUME StreamInv, TakeConsumed \/ TakeResumed \/ TakeError PROVE StreamInv'
  OBVIOUS
<1> USE DEF serverVars
<1> DEFINE m == Head(toViewer)
<1>1. PICK type \in {"consume_ok", "resume_ok", "error"} : TakeMessage(type)
  BY DEF TakeConsumed, TakeResumed, TakeError
<1>2. PICK n : BeganWith(n, m)
  BY <1>1, TakingBegins
<1>3. /\ m.type = type /\ viewerIn /\ stage \notin {"setup", "join", "closed"} /\ m \in ToViewer
      /\ UNCHANGED <<serverVars, setMutes, crossed>>
  BY <1>1, TakingBegins
<1>4. PICK v \in {"building", "no"} :
        /\ consuming' = [consuming EXCEPT ![m.of] = v]
        /\ v = "building" <=> m.type = "consume_ok"
        /\ stage' \in {stage, "broken"}
        /\ UNCHANGED <<requests, answer, toConsume, tile, known, person, mutedHere, unseen, late, stale>>
  <2>1. CASE TakeConsumed
    BY <1>3, <2>1 DEF TakeConsumed, TakeMessage
  <2>2. CASE TakeResumed
    BY <1>3, <2>2 DEF TakeResumed, TakeMessage
  <2>3. CASE TakeError
    BY <1>3, <2>3 DEF TakeError, TakeMessage
  <2> QED BY <2>1, <2>2, <2>3
<1> HIDE DEF m
<1>5. MediaStreamsTypeOK'
  BY StreamTypesNext DEF StreamInv, MediaStreamsNext
<1> QED BY <1>2, <1>3, <1>4, <1>5, ConsumptionAnswered DEF StreamInv

-----------------------------------------------------------------------------
\* A step of connect() ends: nothing is asked for and answered but the next.
LEMMA TakeStepsKeep == StreamInv /\ (TakeJoined \/ TakeSendTransport \/ TakeProduced \/ TakeRecvTransport) => StreamInv'
<1> SUFFICES ASSUME StreamInv, TakeJoined \/ TakeSendTransport \/ TakeProduced \/ TakeRecvTransport PROVE StreamInv'
  OBVIOUS
<1> USE DEF serverVars
<1> DEFINE m == Head(toViewer)
<1>1. PICK type \in StepAnswers : TakeMessage(type)
  BY DEF TakeJoined, TakeSendTransport, TakeProduced, TakeRecvTransport, StepAnswers
<1>2. PICK n : BeganWith(n, m)
  BY <1>1, TakingBegins
<1>3. /\ m.type = type /\ viewerIn /\ m \in ToViewer /\ (stage = "join" <=> type = "join_ok")
      /\ UNCHANGED <<serverVars, setMutes, crossed>>
  BY <1>1, TakingBegins
<1>4. /\ n \in Nat /\ 1 \in DOMAIN toViewer /\ toViewer[1] = m /\ DOMAIN toViewer' = 1..n
      /\ \A i \in 1..n : i + 1 \in DOMAIN toViewer /\ toViewer'[i] = toViewer[i + 1] /\ i + 1 # 1
      /\ \A i, j \in 1..n : i + 1 = j + 1 => i = j
  BY <1>2 DEF BeganWith
<1>5. /\ InTurn(m.type)
      /\ \A r \in requests : r.type \notin StepRequests
      /\ \A i \in DOMAIN toViewer' : toViewer'[i].type \notin StepAnswers
  BY <1>3, <1>4 DEF StreamInv, StepsInTurn
<1>6. /\ UNCHANGED <<consuming, tile, known, person, mutedHere, unseen, late, stale>>
      /\ \/ /\ stage = "join" /\ stage' = "load" /\ answer' = m.speaker
            /\ UNCHANGED <<requests, toConsume>>
         \/ /\ stage = "send" /\ stage' = "produce" /\ requests' = requests \cup {[type |-> "produce"]}
            /\ UNCHANGED <<answer, toConsume>>
         \/ /\ stage = "produce" /\ stage' = "recv" /\ requests' = requests \cup {[type |-> "create_recv_transport"]}
            /\ UNCHANGED <<answer, toConsume>>
         \/ /\ stage = "recv" /\ stage' = "consume" /\ toConsume' = answer.producers
            /\ UNCHANGED <<requests, answer>>
  <2>1. CASE TakeJoined
    BY <1>5, <2>1 DEF TakeJoined, TakeMessage, InTurn
  <2>2. CASE TakeSendTransport
    BY <1>5, <2>2 DEF TakeSendTransport, TakeMessage, InTurn, AskServer
  <2>3. CASE TakeProduced
    BY <1>5, <2>3 DEF TakeProduced, TakeMessage, InTurn, AskServer
  <2>4. CASE TakeRecvTransport
    BY <1>5, <2>4 DEF TakeRecvTransport, TakeMessage, InTurn
  <2> QED BY <2>1, <2>2, <2>3, <2>4
<1>a. MediaStreamsTypeOK'
  BY StreamTypesNext DEF StreamInv, MediaStreamsNext
<1> HIDE DEF m
<1>b. Early /\ known = {} /\ toConsume = {} /\ \A k \in Consumptions : consuming[k] = "no"
  BY <1>6 DEF StreamInv, NothingShownYet, Early
<1>7. PICK q : /\ requests' \subseteq requests \cup {q} /\ q.type \in {"produce", "create_recv_transport"}
               /\ q \in requests' => stage' = IF q.type = "produce" THEN "produce" ELSE "recv"
  <2>1. CASE requests' = requests \cup {[type |-> "create_recv_transport"]} /\ stage' = "recv"
    <3> DEFINE q == [type |-> "create_recv_transport"]
    <3>1. requests' \subseteq requests \cup {q} /\ q.type = "create_recv_transport"
      BY <2>1
    <3> HIDE DEF q
    <3> QED BY <2>1, <3>1
  <2>2. CASE requests' = requests \/ (requests' = requests \cup {[type |-> "produce"]} /\ stage' = "produce")
    <3> DEFINE q == [type |-> "produce"]
    <3>1. requests' \subseteq requests \cup {q} /\ q.type = "produce"
      BY <2>2
    <3>2. q \notin requests
      BY <1>5, <3>1 DEF StepRequests
    <3> HIDE DEF q
    <3>3. q \in requests' => stage' = "produce"
      BY <2>2, <3>2
    <3> QED BY <3>1, <3>3
  <2> QED BY <1>6, <2>1, <2>2
<1>8. StepsInTurn'
  BY <1>5, <1>7 DEF StepsInTurn, InTurn, StepRequests
<1>9. JoinedFirst'
  BY <1>3, <1>5, <1>6, <1>7 DEF JoinedFirst, StepRequests
<1>10. NothingShownYet' /\ ShownOnce'
  BY <1>6, <1>b DEF StreamInv, NothingShownYet, ShownOnce, Early
<1>11. InFlight'
  <2>1. \A r \in requests : r.type \notin {"consume", "resume_consumer"}
    <3>1. \A r \in requests : r \in Request
      BY DEF StreamInv, MediaStreamsTypeOK
    <3> QED BY <1>b, <3>1, RequestsCarry DEF StreamInv, InFlight
  <2>2. \A i \in DOMAIN toViewer : toViewer[i].type \notin {"consume_ok", "resume_ok", "error"}
    <3>1. \A i \in DOMAIN toViewer : toViewer[i] \in ToViewer
      BY DEF StreamInv, MediaStreamsTypeOK
    <3> QED BY <1>b, <3>1, MessagesCarry DEF StreamInv, InFlight
  <2> QED BY <1>4, <1>7, <2>1, <2>2 DEF InFlight
<1>12. Coming' = Coming
  <2>1. CASE stage = "join"
    BY <1>3, <1>4, <1>6, <2>1 DEF Coming
  <2>2. CASE stage # "join"
    BY <1>6, <2>2 DEF Coming
  <2> QED BY <2>1, <2>2
<1>13. ConsumedOnce' /\ \A p : Idle(p)' <=> Idle(p)
  BY <1>3, <1>6 DEF StreamInv, NamedOnce, ConsumedOnce, Idle
<1>c. m.type \notin {"new_producer", "participant_left", "moderator_mute", "participant_joined", "mute_changed", "consume_ok"}
  BY <1>3 DEF StepAnswers
<1>14. NamedOnce'
  BY <1>2, <1>3, <1>6, <1>12, <1>13, <1>c, TakenNamesKeep
<1>15. NoneIsMissed'
  <2>1. ResumedIsShown'
    BY <1>6, <1>b DEF ResumedIsShown
  <2> QED BY <1>2, <1>3, <1>6, <1>12, <1>13, <1>c, <2>1, TakenMissesNone
<1>16. NoneLingers'
  BY <1>2, <1>3, <1>6, <1>c, TakenHidesIt
<1>17. MutesInv'
  BY <1>2, <1>3, <1>6, <1>c, TakenNotOfMutes
<1>18. SightInv'
  <2>1. FirstSight' = FirstSight
    BY <1>4, <1>6 DEF FirstSight
  <2> QED BY <1>2, <1>3, <1>6, <1>c, <2>1, TakenNotOfSpeaker
<1> QED BY <1>a, <1>8, <1>9, <1>10, <1>11, <1>14, <1>15, <1>16, <1>17, <1>18 DEF StreamInv

-----------------------------------------------------------------------------
\* The client goes on by itself: what was said stays said.
LEMMA NothingSaid ==
  ASSUME toViewer' = toViewer
  PROVE  /\ \A p, i : SpeakerAnnounced(i, p)' <=> SpeakerAnnounced(i, p)
         /\ \A i : OfSpeaker(i)' <=> OfSpeaker(i)
         /\ \A i : Moderated(i)' <=> Moderated(i)
BY DEF SpeakerAnnounced, OfSpeaker, Moderated

\* The socket opens and the device is loaded.
LEMMA OpenAndLoadKeep == StreamInv /\ (OpenSocket \/ LoadDevice) => StreamInv'
<1> SUFFICES ASSUME StreamInv, OpenSocket \/ LoadDevice PROVE StreamInv'
  OBVIOUS
<1> USE DEF serverVars
<1>1. MediaStreamsTypeOK'
  BY StreamTypesNext DEF StreamInv, MediaStreamsNext
<1>2. /\ UNCHANGED <<serverVars, setMutes, toViewer, answer, toConsume, consuming, tile, known, mutedHere, unseen, late, stale, crossed>>
      /\ \/ /\ stage = "setup" /\ stage' = "join" /\ requests' = requests \cup {[type |-> "join"]} /\ person' = person
         \/ /\ stage = "load" /\ stage' = "send" /\ requests' = requests \cup {[type |-> "create_send_transport"]}
            /\ person' = [here |-> answer.here, muted |-> answer.muted]
  BY DEF OpenSocket, LoadDevice, AskServer
<1>3. PICK q : /\ requests' = requests \cup {q} /\ q.type \in {"join", "create_send_transport"}
               /\ stage' = IF q.type = "join" THEN "join" ELSE "send"
               /\ stage = IF q.type = "join" THEN "setup" ELSE "load"
  <2>1. CASE stage = "setup" /\ stage' = "join" /\ requests' = requests \cup {[type |-> "join"]}
    <3> DEFINE q == [type |-> "join"]
    <3>1. requests' = requests \cup {q} /\ q.type = "join"
      BY <2>1
    <3> HIDE DEF q
    <3> QED BY <2>1, <3>1
  <2>2. CASE stage = "load" /\ stage' = "send" /\ requests' = requests \cup {[type |-> "create_send_transport"]}
    <3> DEFINE q == [type |-> "create_send_transport"]
    <3>1. requests' = requests \cup {q} /\ q.type = "create_send_transport"
      BY <2>2
    <3> HIDE DEF q
    <3> QED BY <2>2, <3>1
  <2> QED BY <1>2, <2>1, <2>2
<1>4. StepsInTurn'
  BY <1>2, <1>3 DEF StreamInv, StepsInTurn, InTurn, StepRequests, StepAnswers
<1>5. JoinedFirst'
  BY <1>2, <1>3 DEF StreamInv, JoinedFirst
<1>6. NothingShownYet' /\ ShownOnce'
  BY <1>2 DEF StreamInv, NothingShownYet, ShownOnce, Early
<1>7. InFlight'
  BY <1>2, <1>3 DEF StreamInv, InFlight
<1>8. Coming' = Coming
  BY <1>2 DEF StreamInv, Coming, JoinedFirst
<1>9. \A p : Idle(p)' <=> Idle(p)
  BY <1>2 DEF Idle
<1>10. NamedOnce'
  BY <1>2, <1>8, <1>9, NothingSaid DEF StreamInv, NamedOnce, ListedOnce, AnnouncedOnce, ConsumedOnce
<1>11. NoneIsMissed'
  BY <1>2, <1>8, <1>9, NothingSaid DEF StreamInv, NoneIsMissed, SoonShown, ResumedIsShown, ErrorsTell, LeftBefore
<1>12. NoneLingers'
  BY <1>2 DEF StreamInv, NoneLingers
<1>13. SightInv'
  <2>1. viewerIn => FirstSight' = FirstSight
    BY <1>2 DEF FirstSight, StreamInv, JoinedFirst
  <2> QED BY <1>2, <2>1, NothingSaid DEF StreamInv, SightInv, Says
<1>14. MutesInv'
  BY <1>2, NothingSaid DEF StreamInv, MutesInv
<1> QED BY <1>1, <1>4, <1>5, <1>6, <1>7, <1>10, <1>11, <1>12, <1>13, <1>14 DEF StreamInv

\* The viewer asks for a stream that the server listed.
LEMMA ConsumeListedKeeps == \A p \in Streams : StreamInv /\ ConsumeListed(p) => StreamInv'
<1> SUFFICES ASSUME StreamInv, NEW p \in Streams, ConsumeListed(p) PROVE StreamInv'
  OBVIOUS
<1> USE DEF serverVars
<1>1. MediaStreamsTypeOK'
  BY StreamTypesNext DEF StreamInv, MediaStreamsNext
<1>2. PICK k \in Consumptions : k = <<p, "listed">> /\ k[1] = p
  BY ConsumptionsName
<1>3. /\ stage = "consume" /\ p \in toConsume /\ toConsume' = toConsume \ {p} /\ BeginConsume(k)
      /\ UNCHANGED <<serverVars, setMutes, toViewer, stage, answer, tile, known, person, mutedHere, unseen, late, stale, crossed>>
  BY <1>2 DEF ConsumeListed
<1>4. /\ Coming = toConsume /\ Coming' = Coming \ {p} /\ ~Early
      /\ p \in produced \ known /\ Idle(p) /\ \A i : ~SpeakerAnnounced(i, p)
  BY <1>3 DEF Coming, Early, StreamInv, NamedOnce, ListedOnce
<1>5. /\ requests' = requests \cup {[type |-> "consume", of |-> k]}
      /\ ConsumedOnce' /\ ShownOnce' /\ ~Idle(p)'
      /\ \A q : q # p => (Idle(q)' <=> Idle(q))
      /\ \A c \in Consumptions : c # k => consuming'[c] = consuming[c]
      /\ consuming'[k] = "asked"
  BY <1>2, <1>3, <1>4, ConsumptionBegins
<1>6. StepsInTurn' /\ InFlight' /\ JoinedFirst'
  <2>1. consuming[k] = "no"
    BY <1>2, <1>4 DEF Idle
  <2> QED BY <1>3, <1>5, <2>1, AskedKeepsFlight
<1>7. NothingShownYet'
  BY <1>3 DEF NothingShownYet, Early
<1>8. NamedOnce'
  BY <1>3, <1>4, <1>5, NothingSaid DEF StreamInv, NamedOnce, ListedOnce, AnnouncedOnce
<1>9. NoneIsMissed'
  <2>1. SoonShown' \/ ~viewerIn
    <3> SUFFICES ASSUME viewerIn, NEW q \in speaker.producers
                 PROVE  q \in Coming' \cup known \cup unseen \/ ~Idle(q)' \/ \E i : SpeakerAnnounced(i, q)
      BY <1>3, NothingSaid DEF SoonShown
    <3>1. q \in Coming \cup known \cup unseen \/ ~Idle(q) \/ \E i : SpeakerAnnounced(i, q)
      BY DEF StreamInv, NoneIsMissed, SoonShown
    <3> QED BY <1>4, <1>5, <3>1
  <2>2. ResumedIsShown'
    BY <1>3, <1>5 DEF StreamInv, NoneIsMissed, ResumedIsShown
  <2> QED BY <1>3, <2>1, <2>2, NothingSaid DEF StreamInv, NoneIsMissed, ErrorsTell, LeftBefore
<1>10. NoneLingers'
  BY <1>3, <1>5 DEF StreamInv, NoneLingers
<1>11. SightInv' /\ MutesInv'
  BY <1>3, NothingSaid DEF StreamInv, SightInv, FirstSight, Says, MutesInv
<1> QED BY <1>1, <1>5, <1>6, <1>7, <1>8, <1>9, <1>10, <1>11 DEF StreamInv

\* A stream that was resumed is shown.
LEMMA ShowStreamKeeps == \A k \in Consumptions : StreamInv /\ ShowStream(k) => StreamInv'
<1> SUFFICES ASSUME StreamInv, NEW k \in Consumptions, ShowStream(k) PROVE StreamInv'
  OBVIOUS
<1> USE DEF serverVars
<1>1. MediaStreamsTypeOK'
  BY StreamTypesNext DEF StreamInv, MediaStreamsNext
<1>2. /\ consuming[k] = "building" /\ consuming' = [consuming EXCEPT ![k] = "resuming"]
      /\ tile' = [tile EXCEPT ![k[1]] = @ + 1] /\ known' = known \cup {k[1]}
      /\ requests' = requests \cup {[type |-> "resume_consumer", of |-> k]} /\ stage # "closed"
      /\ UNCHANGED <<serverVars, setMutes, toViewer, stage, answer, toConsume, person, mutedHere, unseen, late, stale, crossed>>
  BY DEF ShowStream, AskServer, Connected
<1>3. k[1] \in Streams /\ k[1] \notin known
  BY <1>2, ConsumptionsName DEF StreamInv, ShownOnce
<1>4. consuming'[k] = "resuming" /\ \A c \in Consumptions : c # k => consuming'[c] = consuming[c]
  BY <1>2 DEF StreamInv, MediaStreamsTypeOK
<1>5. ~Early /\ stage \notin {"setup", "join", "closed"}
  BY <1>2 DEF StreamInv, NothingShownYet, Early
<1>6. StepsInTurn' /\ InFlight' /\ JoinedFirst'
  BY <1>2, <1>4, <1>5, AskedKeepsFlight
<1>7. NothingShownYet'
  BY <1>2, <1>5 DEF StreamInv, NothingShownYet, Early
<1>8. \A q : Idle(q)' <=> Idle(q)
  BY <1>2, <1>4 DEF Idle
<1>9. Coming' = Coming /\ k[1] \in produced /\ ~Idle(k[1])
  BY <1>2 DEF Coming, StreamInv, NamedOnce, ConsumedOnce, Idle
<1>10. ShownOnce'
  <2>1. ASSUME NEW p \in Streams PROVE tile'[p] = IF p \in known' THEN 1 ELSE 0
    <3>1. tile[p] = IF p \in known THEN 1 ELSE 0
      BY DEF StreamInv, ShownOnce
    <3>2. CASE p = k[1]
      BY <1>2, <1>3, <3>1, <3>2 DEF StreamInv, MediaStreamsTypeOK
    <3>3. CASE p # k[1]
      BY <1>2, <3>1, <3>3 DEF StreamInv, MediaStreamsTypeOK
    <3> QED BY <3>2, <3>3
  <2>2. ASSUME NEW c \in Consumptions, consuming'[c] \in {"asked", "building"} PROVE c[1] \notin known'
    <3>1. c # k /\ consuming[c] \in {"asked", "building"}
      BY <1>4, <2>2
    <3>2. c[1] # k[1]
      BY <1>2, <3>1 DEF StreamInv, NamedOnce, ConsumedOnce
    <3> QED BY <1>2, <3>1, <3>2 DEF StreamInv, ShownOnce
  <2> QED BY <2>1, <2>2 DEF ShownOnce
<1>11. NamedOnce'
  <2>1. ListedOnce' /\ AnnouncedOnce'
    BY <1>2, <1>8, <1>9, NothingSaid DEF StreamInv, NamedOnce, ListedOnce, AnnouncedOnce
  <2>2. ConsumedOnce'
    BY <1>2, <1>4 DEF StreamInv, NamedOnce, ConsumedOnce
  <2> QED BY <1>2, <1>9, <2>1, <2>2 DEF StreamInv, NamedOnce
<1>12. NoneIsMissed'
  BY <1>2, <1>4, <1>8, <1>9, NothingSaid DEF StreamInv, NoneIsMissed, SoonShown, ResumedIsShown, ErrorsTell, LeftBefore
<1>13. NoneLingers'
  <2>1. viewerIn
    BY <1>5 DEF StreamInv, JoinedFirst
  <2> QED BY <1>2, <1>4, <2>1 DEF StreamInv, NoneLingers
<1>14. SightInv' /\ MutesInv'
  BY <1>2, NothingSaid DEF StreamInv, SightInv, FirstSight, Says, MutesInv
<1> QED BY <1>1, <1>6, <1>7, <1>10, <1>11, <1>12, <1>13, <1>14 DEF StreamInv

\* The client is connected.
LEMMA ConnectedKeeps == StreamInv /\ BecomeConnected => StreamInv'
<1> SUFFICES ASSUME StreamInv, BecomeConnected PROVE StreamInv'
  OBVIOUS
<1> USE DEF serverVars
<1>1. MediaStreamsTypeOK'
  BY StreamTypesNext DEF StreamInv, MediaStreamsNext
<1>2. /\ stage = "consume" /\ toConsume = {} /\ stage' = "connected"
      /\ UNCHANGED <<serverVars, requests, setMutes, toViewer, answer, toConsume, consuming, tile, known,
           person, mutedHere, unseen, late, stale, crossed>>
  BY DEF BecomeConnected
<1>3. StepsInTurn' /\ JoinedFirst' /\ NothingShownYet' /\ InFlight' /\ ShownOnce'
  BY <1>2 DEF StreamInv, StepsInTurn, InTurn, JoinedFirst, NothingShownYet, InFlight, ShownOnce, Early
<1>4. Coming' = Coming /\ \A q : Idle(q)' <=> Idle(q)
  BY <1>2 DEF Coming, Idle
<1>5. NamedOnce' /\ NoneIsMissed' /\ NoneLingers'
  BY <1>2, <1>4, NothingSaid DEF StreamInv, NamedOnce, ListedOnce, AnnouncedOnce, ConsumedOnce, NoneIsMissed, SoonShown,
    ResumedIsShown, ErrorsTell, LeftBefore, NoneLingers
<1>6. SightInv' /\ MutesInv'
  BY <1>2, NothingSaid DEF StreamInv, SightInv, FirstSight, Says, MutesInv
<1> QED BY <1>1, <1>3, <1>5, <1>6 DEF StreamInv

\* The viewer mutes himself, here and then on the server.
LEMMA OwnMutesKeep == StreamInv /\ (SetMute \/ \E b \in BOOLEAN : UpdateMute(b)) => StreamInv'
<1> SUFFICES ASSUME StreamInv, SetMute \/ \E b \in BOOLEAN : UpdateMute(b) PROVE StreamInv'
  OBVIOUS
<1> USE DEF serverVars, clientVars
<1>1. MediaStreamsTypeOK'
  BY StreamTypesNext DEF StreamInv, MediaStreamsNext
<1>2. UNCHANGED <<speaker, produced, viewerIn, requests, toViewer, stage, answer, toConsume, consuming, tile, known,
        person, unseen, late, stale>>
  BY DEF SetMute, UpdateMute
<1>3. StepsInTurn' /\ JoinedFirst' /\ NothingShownYet' /\ InFlight' /\ ShownOnce'
  BY <1>2 DEF StreamInv, StepsInTurn, InTurn, JoinedFirst, NothingShownYet, InFlight, ShownOnce, Early
<1>4. Coming' = Coming /\ \A q : Idle(q)' <=> Idle(q)
  BY <1>2 DEF Coming, Idle
<1>5. NamedOnce' /\ NoneIsMissed' /\ NoneLingers'
  BY <1>2, <1>4, NothingSaid DEF StreamInv, NamedOnce, ListedOnce, AnnouncedOnce, ConsumedOnce, NoneIsMissed, SoonShown,
    ResumedIsShown, ErrorsTell, LeftBefore, NoneLingers
<1>6. SightInv'
  BY <1>2, NothingSaid DEF StreamInv, SightInv, FirstSight, Says
<1>7. MutesInv'
  <2>1. CASE SetMute
    <3>1. /\ setMutes \in Seq(BOOLEAN) /\ setMutes # <<>>
          /\ setMutes' = Tail(setMutes) /\ mutedThere' = (IF viewerIn THEN Head(setMutes) ELSE mutedThere)
          /\ UNCHANGED <<mutedHere, crossed>>
      BY <2>1 DEF SetMute, StreamInv, MediaStreamsTypeOK
    <3>w. /\ Len(setMutes) \in Nat /\ Len(setMutes) >= 1 /\ Head(setMutes) = setMutes[1]
          /\ setMutes' \in Seq(BOOLEAN) /\ DOMAIN setMutes' = 1..(Len(setMutes) - 1)
          /\ \A j \in 1..(Len(setMutes) - 1) : setMutes'[j] = setMutes[j + 1]
      BY <3>1, WireShrinks
    <3>l. Len(setMutes') = Len(setMutes) - 1
      BY <3>w
    <3>a. ASSUME setMutes' = <<>> PROVE Head(setMutes) = setMutes[Len(setMutes)]
      <4>1. Len(setMutes') = 0
        BY <3>a
      <4>2. Len(setMutes) = 1
        BY <4>1, <3>l, <3>w
      <4>3. Head(setMutes) = setMutes[1]
        BY <3>w
      <4> QED BY <4>2, <4>3
    <3>b. ASSUME setMutes' # <<>> PROVE setMutes'[Len(setMutes')] = setMutes[Len(setMutes)]
      <4>1. Len(setMutes') # 0
        BY <3>b, <3>w
      <4>2. Len(setMutes) - 1 \in 1..(Len(setMutes) - 1)
        BY <4>1, <3>l, <3>w
      <4> QED BY <4>2, <3>l, <3>w
    <3>2. /\ setMutes' = <<>> => Head(setMutes) = setMutes[Len(setMutes)]
          /\ setMutes' # <<>> => setMutes'[Len(setMutes')] = setMutes[Len(setMutes)]
      BY <3>a, <3>b
    <3> QED BY <1>2, <3>1, <3>2, NothingSaid DEF StreamInv, MutesInv
  <2>2. ASSUME NEW b \in BOOLEAN, UpdateMute(b) PROVE MutesInv'
    <3>1. /\ mutedHere' = b /\ setMutes' = (IF stage = "setup" THEN setMutes ELSE Append(setMutes, b))
          /\ crossed' = (crossed \/ ~viewerIn \/ \E i \in DOMAIN toViewer : toViewer[i].type = "moderator_mute")
          /\ mutedThere' = mutedThere /\ stage # "closed"
      BY <2>2 DEF UpdateMute, Connected
    <3>2. ASSUME ~crossed' PROVE viewerIn /\ stage # "setup" /\ \A i : ~Moderated(i)
      BY <3>1, <3>2 DEF Moderated, StreamInv, JoinedFirst
    <3>3. ASSUME ~crossed' PROVE setMutes' # <<>> /\ setMutes'[Len(setMutes')] = b
      <4>1. setMutes \in Seq(BOOLEAN) /\ setMutes' = Append(setMutes, b)
        BY <3>1, <3>2, <3>3 DEF StreamInv, MediaStreamsTypeOK
      <4> QED BY <4>1
    <3> QED BY <1>2, <3>1, <3>2, <3>3, NothingSaid DEF MutesInv
  <2> QED BY <2>1, <2>2
<1> QED BY <1>1, <1>3, <1>5, <1>6, <1>7 DEF StreamInv

\* The client is closed.
LEMMA StreamCloseKeeps == StreamInv /\ CloseClient => StreamInv'
<1> SUFFICES ASSUME StreamInv, CloseClient PROVE StreamInv'
  OBVIOUS
<1>1. MediaStreamsTypeOK'
  BY StreamTypesNext DEF StreamInv, MediaStreamsNext
<1>2. /\ stage' = "closed" /\ viewerIn' = FALSE /\ requests' = {} /\ setMutes' = <<>> /\ DOMAIN toViewer' = {} /\ toViewer' = <<>>
      /\ UNCHANGED <<speaker, produced, answer, toConsume, consuming, tile, known, unseen, late>>
  BY DEF CloseClient
<1>3. StepsInTurn' /\ JoinedFirst' /\ NothingShownYet' /\ InFlight' /\ ShownOnce'
  BY <1>2 DEF StreamInv, StepsInTurn, JoinedFirst, NothingShownYet, InFlight, ShownOnce, Early
<1>5. (\A q, i : ~SpeakerAnnounced(i, q)') /\ \A q : Idle(q)' <=> Idle(q)
  BY <1>2 DEF SpeakerAnnounced, Idle
<1>6. Coming' \subseteq Coming
  BY <1>2 DEF Coming, StreamInv, NothingShownYet, Early
<1>7. NamedOnce'
  BY <1>2, <1>5, <1>6 DEF StreamInv, NamedOnce, ListedOnce, AnnouncedOnce, ConsumedOnce
<1>8. NoneIsMissed' /\ NoneLingers'
  BY <1>2 DEF StreamInv, NoneIsMissed, ResumedIsShown, ErrorsTell, LeftBefore, NoneLingers
<1>9. SightInv' /\ MutesInv'
  BY <1>2 DEF SightInv, OfSpeaker, MutesInv, Moderated
<1> QED BY <1>1, <1>3, <1>7, <1>8, <1>9 DEF StreamInv

\* Every step of the specification keeps the inductive invariant.
LEMMA StreamNextInv == StreamInv /\ [MediaStreamsNext]_streamVars => StreamInv'
<1> SUFFICES ASSUME StreamInv, [MediaStreamsNext]_streamVars PROVE StreamInv'
  OBVIOUS
<1>1. CASE UNCHANGED streamVars
  <2> USE <1>1 DEF streamVars
  <2>1. Coming' = Coming /\ FirstSight' = FirstSight /\ \A q : Idle(q)' <=> Idle(q)
    BY DEF Coming, FirstSight, Idle
  <2>2. MediaStreamsTypeOK' /\ StepsInTurn' /\ JoinedFirst' /\ NothingShownYet' /\ InFlight' /\ ShownOnce'
    BY DEF StreamInv, MediaStreamsTypeOK, StepsInTurn, InTurn, JoinedFirst, NothingShownYet, InFlight, ShownOnce, Early
  <2>3. NamedOnce' /\ NoneIsMissed' /\ NoneLingers'
    BY <2>1, NothingSaid DEF StreamInv, NamedOnce, ListedOnce, AnnouncedOnce, ConsumedOnce, NoneIsMissed, SoonShown,
      ResumedIsShown, ErrorsTell, LeftBefore, NoneLingers
  <2>4. SightInv' /\ MutesInv'
    BY <2>1, NothingSaid DEF StreamInv, SightInv, Says, MutesInv
  <2> QED BY <2>2, <2>3, <2>4 DEF StreamInv
<1>2. CASE MediaStreamsNext
  BY <1>2, SpeakerTurnsKeep, SpeakerLeavesKeeps, SpeakerProducesKeeps, ModeratorMutesKeeps, ServeJoinKeeps, ServesKeep,
    TakeSpeakerKeeps, TakeModeratorMuteKeeps, TakeLeftKeeps, TakeNewProducerKeeps, TakeAnswersKeep, TakeStepsKeep,
    OpenAndLoadKeep, ConsumeListedKeeps, ShowStreamKeeps, ConnectedKeeps, OwnMutesKeep, StreamCloseKeeps
  DEF MediaStreamsNext
<1> QED BY <1>1, <1>2

\* For any streams and any number of moves: what a participant sees and hears of another is
\* what the server knows of him, once it has caught up, but for the named gaps
\* (MediaCallClient.tsx, signaling-handler.ts).
THEOREM CallsShowTheSpeaker == MediaStreamsSpec => [](StreamsAreShown /\ SpeakerIsShown /\ OwnMuteAgrees)
BY StreamInitInv, StreamNextInv, StreamInvMeans, PTL DEF MediaStreamsSpec

-----------------------------------------------------------------------------
\* The clients among the other parts.
ClientSteps ==
  /\ [MediaStreamsNext]_streamVars /\ [PortalThreadNext]_threadVars
  /\ [PortalSessionNext]_cookieVars /\ [MapClientNext]_mapVars

\* A step of the sum is a step of each client, or leaves it alone.
LEMMA PeopleStepsAreClientSteps == [MCNext]_allVars => ClientSteps
<1>1. CASE UNCHANGED allVars
  BY <1>1 DEF allVars, ClientSteps
<1>2. CASE MCNext
  BY <1>2 DEF MCNext, OthersWait, Only, ClientSteps
<1> QED BY <1>1, <1>2

\* What the clients show agrees with the server once nothing is under way, whatever the
\* constants and the order in which messages, answers and timers reach them: the streams
\* and mutes of a call, the thread and the session of the portal, and the maps.
THEOREM PeopleSeeTheServer == MCSpec => []ClientsShowTheServer
<1> DEFINE Inv == /\ StreamInv /\ ThreadInv /\ RoomInv /\ CookieInv /\ MapsInv
<1>1. MCInit => Inv
  BY StreamInitInv, ThreadInitInv, CookieInitInv, MapsInitInv DEF MCInit
<1>2. Inv /\ [MCNext]_allVars => Inv'
  BY PeopleStepsAreClientSteps, StreamNextInv, ThreadNextInv, RoomNextInv,
     CookieNextInv, MapsNextInv DEF ClientSteps
<1>3. Inv => ClientsShowTheServer
  BY StreamInvMeans, ThreadInvMeans, CookieInvMeans DEF MapsInv, ClientsShowTheServer
<1> HIDE DEF Inv
<1> QED BY <1>1, <1>2, <1>3, PTL DEF MCSpec

=============================================================================
