---------------------------- MODULE OutboxProofs ----------------------------
(***************************************************************************)
(* The safety of Outbox for any number of rows, calls, attempts and        *)
(* operator commands.  The invariants of the rows depend on what the       *)
(* in-memory copies of running calls may still write back, so the          *)
(* inductive invariant speaks about both.                                  *)
(***************************************************************************)
EXTENDS Outbox, TLAPS

\* A copy that is still to be emitted has an attempt left.
WaitingCopy(c) == c.status \in {"pending", "failed"} /\ c.attempts < MaxAttempts

\* A copy about to be saved by dispatchStoredEvent, when em has been emitted.
OutcomeCopy(em, c) ==
  /\ c.status \in {"dispatched", "failed", "dead_letter"}
  /\ c.status = "dispatched" => c.event \in em
  /\ c.status = "failed" => c.attempts < MaxAttempts
  /\ c.status = "dead_letter" => c.attempts = MaxAttempts

\* What a call at pc holds in memory, when em has been emitted.
CallInv(em, pc, todo) ==
  /\ pc \in {"emit", "reset"} => WaitingCopy(todo[1])
  /\ pc = "save" => OutcomeCopy(em, todo[1])
  /\ pc = "bury" => todo[1].status = "dead_letter"
  /\ \A i \in 2..Len(todo) : WaitingCopy(todo[i])

JobInv == \A w \in Workers : CallInv(emitted, job[w].pc, job[w].todo)

\* What the rows satisfy.
RowInv == DispatchedWasEmitted /\ WaitingHasAttemptsLeft /\ DeadLetterIsJustified

\* The inductive invariant.
IInv == TypeOK /\ JobInv /\ RowInv

\* The row an entity is saved to gets the entity's columns, the others stay.
LEMMA SavedFacts ==
  ASSUME TypeOK, NEW c \in Entity
  PROVE  /\ Saved(c) \in [Events -> Row]
         /\ c.event \in Events
         /\ Saved(c)[c.event].status = c.status
         /\ Saved(c)[c.event].attempts = c.attempts
         /\ \A e \in Events \ {c.event} : Saved(c)[e] = row[e]
BY DEF TypeOK, Saved, Entity, Row, Statuses

\* A running call holds at least the entity it works on.
LEMMA BusyHasEntity ==
  ASSUME TypeOK, NEW w \in Workers, job[w].pc # "idle"
  PROVE  /\ job[w].todo \in Seq(Entity)
         /\ Len(job[w].todo) \in Nat \ {0}
         /\ 1 \in DOMAIN job[w].todo
         /\ job[w].todo[1] \in Entity
         /\ Head(job[w].todo) = job[w].todo[1]
BY DEF TypeOK, Job

\* The type of the calls.
JobType ==
  /\ job \in [Workers -> Job]
  /\ \A w \in Workers : job[w].pc = "idle" <=> job[w].todo = <<>>

\* A step that changes one call, and hands events to the bus at most, keeps the
\* calls well-formed if the new call is.
LEMMA OneCallChanges ==
  ASSUME JobType, JobInv,
         NEW w \in Workers, NEW pc \in {"idle", "emit", "save", "reset", "bury"},
         NEW todo \in Seq(Entity),
         pc = "idle" <=> todo = <<>>,
         CallInv(emitted', pc, todo),
         emitted \subseteq emitted',
         job' = [job EXCEPT ![w] = [pc |-> pc, todo |-> todo]]
  PROVE  JobType' /\ JobInv'
<1>1. /\ job'[w].pc = pc /\ job'[w].todo = todo
      /\ \A v \in Workers \ {w} : job'[v] = job[v]
  BY DEF JobType
<1>2. JobType'
  BY DEF JobType, Job
<1>3. ASSUME NEW v \in Workers PROVE CallInv(emitted, job[v].pc, job[v].todo)'
  <2>1. CASE v = w
    BY <1>1, <2>1
  <2>2. CASE v # w
    <3>1. CallInv(emitted, job[v].pc, job[v].todo)
      BY DEF JobInv
    <3>2. job'[v] = job[v]
      BY <1>1, <2>2
    <3> QED BY <3>1, <3>2 DEF CallInv, OutcomeCopy, WaitingCopy
  <2> QED BY <2>1, <2>2
<1> QED BY <1>2, <1>3 DEF JobInv

\* The initial state satisfies the inductive invariant.
LEMMA InitIInv == Init => IInv
<1> SUFFICES ASSUME Init PROVE IInv
  OBVIOUS
<1>1. TypeOK
  BY OutboxAssumption DEF Init, TypeOK, Row, Job, Idle, Statuses
<1>2. JobInv
  BY DEF Init, JobInv, CallInv, Idle
<1>3. RowInv
  BY DEF Init, RowInv, DispatchedWasEmitted, WaitingHasAttemptsLeft, DeadLetterIsJustified
<1> QED BY <1>1, <1>2, <1>3 DEF IInv

\* publish.
LEMMA PublishIInv ==
  ASSUME IInv, NEW w \in Workers, NEW e \in Events, Publish(w, e)
  PROVE  IInv'
<1> DEFINE c == [event |-> e, status |-> "pending", attempts |-> 0, due |-> TRUE]
<1>1. c \in Entity /\ WaitingCopy(c)
  BY OutboxAssumption DEF Entity, Statuses, WaitingCopy
<1>2. job' = [job EXCEPT ![w] = [pc |-> "emit", todo |-> <<c>>]]
  BY DEF Publish
<1> HIDE DEF c
<1>3. <<c>> \in Seq(Entity) /\ <<c>> # <<>> /\ CallInv(emitted', "emit", <<c>>)
  BY <1>1 DEF CallInv, WaitingCopy
<1>4. JobType' /\ JobInv'
  BY <1>2, <1>3, OneCallChanges DEF IInv, TypeOK, JobType, Publish
<1>5. row' \in [Events -> Row]
  BY OutboxAssumption DEF Publish, IInv, TypeOK, Row, Statuses
<1>6. TypeOK'
  BY <1>4, <1>5 DEF Publish, IInv, TypeOK, JobType
<1>7. RowInv'
  BY OutboxAssumption DEF Publish, IInv, TypeOK, RowInv, DispatchedWasEmitted,
     WaitingHasAttemptsLeft, DeadLetterIsJustified
<1> QED BY <1>4, <1>6, <1>7 DEF IInv

\* One tick of the cron job loads rows that have attempts left.
LEMMA FetchBatchIInv ==
  ASSUME IInv, NEW w \in Workers, FetchBatch(w)
  PROVE  IInv'
<1>1. PICK s \in Batches :
        job' = [job EXCEPT ![w] =
          [pc |-> "emit", todo |-> [i \in 1..Len(s) |-> Load(s[i])]]]
  BY DEF FetchBatch
<1>2. PICK n \in 1..BatchLimit : s \in [1..n -> {e \in Events : Retryable(e)}]
  BY <1>1 DEF Batches
<1>3. Len(s) = n /\ n \in Nat \ {0}
  BY <1>2, OutboxAssumption
<1> DEFINE t == [i \in 1..Len(s) |-> Load(s[i])]
<1>4. ASSUME NEW i \in 1..n PROVE t[i] \in Entity /\ WaitingCopy(t[i])
  <2>1. s[i] \in Events /\ Retryable(s[i])
    BY <1>2
  <2> QED BY <2>1, <1>3 DEF Load, Entity, Statuses, Retryable, WaitingCopy, IInv, TypeOK, Row
<1>5. t \in Seq(Entity) /\ Len(t) = n /\ t # <<>>
  BY <1>3, <1>4
<1>6. job' = [job EXCEPT ![w] = [pc |-> "emit", todo |-> t]]
  BY <1>1
<1> HIDE DEF t
<1>7. CallInv(emitted', "emit", t)
  BY <1>3, <1>4, <1>5 DEF CallInv, WaitingCopy
<1>8. JobType' /\ JobInv'
  BY <1>5, <1>6, <1>7, OneCallChanges DEF IInv, TypeOK, JobType, FetchBatch
<1>9. TypeOK'
  BY <1>8 DEF FetchBatch, IInv, TypeOK, JobType
<1>10. RowInv'
  BY DEF FetchBatch, IInv, RowInv, DispatchedWasEmitted, WaitingHasAttemptsLeft,
     DeadLetterIsJustified
<1> QED BY <1>8, <1>9, <1>10 DEF IInv

\* emit() returned or threw: the entity holds the outcome.
LEMMA EmitIInv ==
  ASSUME IInv, NEW w \in Workers, Emit(w) \/ EmitThrows(w)
  PROVE  IInv'
<1> DEFINE c == job[w].todo[1]
<1>1. job[w].pc = "emit"
  BY DEF Emit, EmitThrows
<1>2. /\ c \in Entity /\ job[w].todo \in Seq(Entity) /\ 1 \in DOMAIN job[w].todo
      /\ Head(job[w].todo) = c
  BY <1>1, BusyHasEntity DEF IInv
<1>3. WaitingCopy(c) /\ \A i \in 2..Len(job[w].todo) : WaitingCopy(job[w].todo[i])
  BY <1>1 DEF IInv, JobInv, CallInv
<1>4. emitted \subseteq emitted' /\ emitted' \subseteq Events
  BY <1>2 DEF Emit, EmitThrows, Entity, IInv, TypeOK
<1>5. PICK d \in Entity :
        /\ OutcomeCopy(emitted', d)
        /\ job' = [job EXCEPT ![w] = [pc |-> "save", todo |-> [job[w].todo EXCEPT ![1] = d]]]
  <2>1. CASE Emit(w)
    <3>1. Delivered(c) \in Entity /\ Delivered(c).event = c.event
          /\ Delivered(c).status = "dispatched"
      BY <1>2, <1>3, OutboxAssumption DEF Delivered, Entity, Statuses, WaitingCopy
    <3>2. OutcomeCopy(emitted', Delivered(c))
      BY <2>1, <3>1, <1>2 DEF Emit, OutcomeCopy
    <3> QED BY <2>1, <3>1, <3>2 DEF Emit
  <2>2. CASE EmitThrows(w)
    <3>1. /\ NotDelivered(c) \in Entity
          /\ NotDelivered(c).status \in {"failed", "dead_letter"}
          /\ NotDelivered(c).status = "failed" => NotDelivered(c).attempts < MaxAttempts
          /\ NotDelivered(c).status = "dead_letter" => NotDelivered(c).attempts = MaxAttempts
      BY <1>2, <1>3, OutboxAssumption DEF NotDelivered, Entity, Statuses, WaitingCopy
    <3>2. OutcomeCopy(emitted', NotDelivered(c))
      BY <3>1 DEF OutcomeCopy
    <3> QED BY <2>2, <3>1, <3>2 DEF EmitThrows
  <2> QED BY <2>1, <2>2
<1> DEFINE t == [job[w].todo EXCEPT ![1] = d]
<1>6. /\ t \in Seq(Entity) /\ Len(t) = Len(job[w].todo) /\ t # <<>> /\ t[1] = d
      /\ \A i \in 2..Len(t) : t[i] = job[w].todo[i]
  BY <1>2, <1>5
<1>7. job' = [job EXCEPT ![w] = [pc |-> "save", todo |-> t]]
  BY <1>5
<1> HIDE DEF t, c
<1>8. CallInv(emitted', "save", t)
  BY <1>3, <1>5, <1>6 DEF CallInv, WaitingCopy, OutcomeCopy
<1>9. JobType' /\ JobInv'
  BY <1>4, <1>6, <1>7, <1>8, OneCallChanges DEF IInv, TypeOK, JobType
<1>10. UNCHANGED <<row, created, buried, commands, aborts>>
  BY DEF Emit, EmitThrows
<1>11. TypeOK'
  BY <1>4, <1>9, <1>10 DEF IInv, TypeOK, JobType
<1>12. RowInv'
  BY <1>4, <1>10 DEF IInv, RowInv, DispatchedWasEmitted, WaitingHasAttemptsLeft,
     DeadLetterIsJustified
<1> QED BY <1>9, <1>11, <1>12 DEF IInv

\* The save that ends dispatchStoredEvent.
LEMMA SaveDispatchIInv ==
  ASSUME IInv, NEW w \in Workers, SaveDispatch(w)
  PROVE  IInv'
<1> DEFINE c == Head(job[w].todo)
           rest == Tail(job[w].todo)
<1>1. /\ c \in Entity /\ c = job[w].todo[1]
      /\ job[w].todo \in Seq(Entity) /\ Len(job[w].todo) \in Nat \ {0}
  BY BusyHasEntity DEF SaveDispatch, IInv
<1>2. OutcomeCopy(emitted, c) /\ \A i \in 2..Len(job[w].todo) : WaitingCopy(job[w].todo[i])
  BY <1>1 DEF SaveDispatch, IInv, JobInv, CallInv
<1>3. /\ rest \in Seq(Entity) /\ Len(rest) = Len(job[w].todo) - 1
      /\ \A i \in 1..Len(rest) : rest[i] = job[w].todo[i + 1] /\ i + 1 \in 2..Len(job[w].todo)
  BY <1>1
<1>4. \A i \in 1..Len(rest) : WaitingCopy(rest[i])
  BY <1>2, <1>3
<1>5. /\ row' = Saved(c) /\ UNCHANGED <<created, emitted, buried, commands, aborts>>
      /\ job' = [job EXCEPT ![w] = IF rest = <<>> THEN Idle ELSE [pc |-> "emit", todo |-> rest]]
  BY DEF SaveDispatch
<1> HIDE DEF c, rest
<1>6. JobType' /\ JobInv'
  <2>1. CASE rest = <<>>
    <3>1. <<>> \in Seq(Entity) /\ CallInv(emitted', "idle", <<>>)
      BY DEF CallInv
    <3> QED BY <2>1, <3>1, <1>5, OneCallChanges DEF IInv, TypeOK, JobType, Idle
  <2>2. CASE rest # <<>>
    <3>1. CallInv(emitted', "emit", rest)
      BY <1>3, <1>4, <2>2 DEF CallInv, WaitingCopy
    <3> QED BY <2>2, <3>1, <1>3, <1>5, OneCallChanges DEF IInv, TypeOK, JobType
  <2> QED BY <2>1, <2>2
<1>7. TypeOK'
  BY <1>1, <1>5, <1>6, SavedFacts DEF IInv, TypeOK, JobType
<1>8. RowInv'
  <2>1. /\ row'[c.event].status = c.status /\ row'[c.event].attempts = c.attempts
        /\ \A e \in Events \ {c.event} : row'[e] = row[e]
    BY <1>1, <1>5, SavedFacts DEF IInv
  <2> QED BY <1>2, <1>5, <2>1 DEF IInv, RowInv, OutcomeCopy, DispatchedWasEmitted,
             WaitingHasAttemptsLeft, DeadLetterIsJustified
<1> QED BY <1>6, <1>7, <1>8 DEF IInv

\* replayEvent and markDeadLetter load a row.
LEMMA FindIInv ==
  ASSUME IInv, NEW w \in Workers, NEW e \in Events,
         FindForReplay(w, e) \/ FindForDeadLetter(w, e)
  PROVE  IInv'
<1> DEFINE r == [event |-> e, status |-> "pending", attempts |-> 0, due |-> TRUE]
           b == [event |-> e, status |-> "dead_letter",
                 attempts |-> row[e].attempts, due |-> TRUE]
<1>1. r \in Entity /\ WaitingCopy(r) /\ b \in Entity /\ b.status = "dead_letter"
  BY OutboxAssumption DEF Entity, Statuses, WaitingCopy, IInv, TypeOK, Row
<1>2. \/ job' = [job EXCEPT ![w] = [pc |-> "reset", todo |-> <<r>>]]
      \/ job' = [job EXCEPT ![w] = [pc |-> "bury", todo |-> <<b>>]]
  BY DEF FindForReplay, FindForDeadLetter
<1>3. /\ UNCHANGED <<row, created, emitted, buried, aborts>>
      /\ commands' \in 0..MaxCommands
  BY OutboxAssumption DEF FindForReplay, FindForDeadLetter, IInv, TypeOK
<1> HIDE DEF r, b
<1>4. /\ <<r>> \in Seq(Entity) /\ <<r>> # <<>> /\ CallInv(emitted', "reset", <<r>>)
      /\ <<b>> \in Seq(Entity) /\ <<b>> # <<>> /\ CallInv(emitted', "bury", <<b>>)
  BY <1>1 DEF CallInv, WaitingCopy
<1>5. JobType' /\ JobInv'
  BY <1>2, <1>3, <1>4, OneCallChanges DEF IInv, TypeOK, JobType
<1>6. TypeOK'
  BY <1>3, <1>5 DEF IInv, TypeOK, JobType
<1>7. RowInv'
  BY <1>3 DEF IInv, RowInv, DispatchedWasEmitted, WaitingHasAttemptsLeft, DeadLetterIsJustified
<1> QED BY <1>5, <1>6, <1>7 DEF IInv

\* replayEvent saves the reset row.
LEMMA SaveReplayIInv ==
  ASSUME IInv, NEW w \in Workers, SaveReplay(w)
  PROVE  IInv'
<1> DEFINE c == Head(job[w].todo)
<1>1. c \in Entity /\ c = job[w].todo[1] /\ job[w].todo \in Seq(Entity)
      /\ job[w].todo # <<>>
  BY BusyHasEntity DEF SaveReplay, IInv
<1>2. WaitingCopy(c) /\ \A i \in 2..Len(job[w].todo) : WaitingCopy(job[w].todo[i])
  BY <1>1 DEF SaveReplay, IInv, JobInv, CallInv
<1>3. /\ row' = Saved(c) /\ UNCHANGED <<created, emitted, commands, aborts>>
      /\ job' = [job EXCEPT ![w] = [pc |-> "emit", todo |-> job[w].todo]]
      /\ buried' = buried \ {c.event}
  BY DEF SaveReplay
<1> DEFINE t == job[w].todo
<1> HIDE DEF c, t
<1>5. t \in Seq(Entity) /\ t # <<>> /\ CallInv(emitted', "emit", t)
      /\ job' = [job EXCEPT ![w] = [pc |-> "emit", todo |-> t]]
  BY <1>1, <1>2, <1>3 DEF t, CallInv, WaitingCopy
<1>6. JobType' /\ JobInv'
  BY <1>3, <1>5, OneCallChanges DEF IInv, TypeOK, JobType
<1>7. TypeOK'
  BY <1>1, <1>3, <1>6, SavedFacts DEF IInv, TypeOK, JobType
<1>8. RowInv'
  <2>1. /\ row'[c.event].status = c.status /\ row'[c.event].attempts = c.attempts
        /\ \A e \in Events \ {c.event} : row'[e] = row[e]
    BY <1>1, <1>3, SavedFacts DEF IInv
  <2> QED BY <1>2, <1>3, <2>1 DEF IInv, RowInv, WaitingCopy, DispatchedWasEmitted,
             WaitingHasAttemptsLeft, DeadLetterIsJustified
<1> QED BY <1>6, <1>7, <1>8 DEF IInv

\* markDeadLetter saves the row.
LEMMA SaveDeadLetterIInv ==
  ASSUME IInv, NEW w \in Workers, SaveDeadLetter(w)
  PROVE  IInv'
<1> DEFINE c == Head(job[w].todo)
<1>1. c \in Entity /\ c = job[w].todo[1]
  BY BusyHasEntity DEF SaveDeadLetter, IInv
<1>2. c.status = "dead_letter"
  BY <1>1 DEF SaveDeadLetter, IInv, JobInv, CallInv
<1>3. /\ row' = Saved(c) /\ UNCHANGED <<created, emitted, commands, aborts>>
      /\ job' = [job EXCEPT ![w] = [pc |-> "idle", todo |-> <<>>]]
      /\ buried' = buried \cup {c.event}
  BY DEF SaveDeadLetter, Idle
<1> HIDE DEF c
<1>4. <<>> \in Seq(Entity) /\ CallInv(emitted', "idle", <<>>)
  BY DEF CallInv
<1>5. JobType' /\ JobInv'
  BY <1>3, <1>4, OneCallChanges DEF IInv, TypeOK, JobType
<1>6. TypeOK'
  BY <1>1, <1>3, <1>5, SavedFacts DEF IInv, TypeOK, JobType
<1>7. RowInv'
  <2>1. /\ row'[c.event].status = c.status
        /\ \A e \in Events \ {c.event} : row'[e] = row[e]
    BY <1>1, <1>3, SavedFacts DEF IInv
  <2> QED BY <1>2, <1>3, <2>1 DEF IInv, RowInv, DispatchedWasEmitted,
             WaitingHasAttemptsLeft, DeadLetterIsJustified
<1> QED BY <1>5, <1>6, <1>7 DEF IInv

\* A call is cut short.
LEMMA AbortIInv ==
  ASSUME IInv, NEW w \in Workers, Abort(w)
  PROVE  IInv'
<1>1. /\ job' = [job EXCEPT ![w] = [pc |-> "idle", todo |-> <<>>]]
      /\ UNCHANGED <<row, created, emitted, buried, commands>>
  BY DEF Abort, Idle
<1>2. <<>> \in Seq(Entity) /\ CallInv(emitted', "idle", <<>>)
  BY DEF CallInv
<1>3. JobType' /\ JobInv'
  BY <1>1, <1>2, OneCallChanges DEF IInv, TypeOK, JobType
<1>4. TypeOK'
  BY <1>1, <1>3, OutboxAssumption DEF Abort, IInv, TypeOK, JobType
<1>5. RowInv'
  BY <1>1 DEF IInv, RowInv, DispatchedWasEmitted, WaitingHasAttemptsLeft, DeadLetterIsJustified
<1> QED BY <1>3, <1>4, <1>5 DEF IInv

\* The backoff of a row elapses.
LEMMA BackoffIInv ==
  ASSUME IInv, NEW e \in Events, BackoffElapses(e)
  PROVE  IInv'
<1>1. /\ row' = [row EXCEPT ![e].due = TRUE]
      /\ UNCHANGED <<created, job, emitted, buried, commands, aborts>>
  BY DEF BackoffElapses
<1>2. /\ row' \in [Events -> Row]
      /\ \A f \in Events : row'[f].status = row[f].status /\ row'[f].attempts = row[f].attempts
  BY <1>1 DEF IInv, TypeOK, Row
<1>3. TypeOK'
  BY <1>1, <1>2 DEF IInv, TypeOK
<1>4. JobInv'
  BY <1>1 DEF IInv, JobInv, CallInv, WaitingCopy, OutcomeCopy
<1>5. RowInv'
  BY <1>1, <1>2 DEF IInv, RowInv, DispatchedWasEmitted, WaitingHasAttemptsLeft,
     DeadLetterIsJustified
<1> QED BY <1>3, <1>4, <1>5 DEF IInv

\* Every step preserves the inductive invariant.
LEMMA NextIInv == IInv /\ [Next]_vars => IInv'
<1> SUFFICES ASSUME IInv, [Next]_vars PROVE IInv'
  OBVIOUS
<1>1. CASE UNCHANGED vars
  BY <1>1 DEF vars, IInv, TypeOK, JobInv, CallInv, WaitingCopy, OutcomeCopy, RowInv,
     DispatchedWasEmitted, WaitingHasAttemptsLeft, DeadLetterIsJustified
<1>2. CASE Next
  BY <1>2, PublishIInv, FetchBatchIInv, EmitIInv, SaveDispatchIInv, FindIInv,
     SaveReplayIInv, SaveDeadLetterIInv, AbortIInv, BackoffIInv DEF Next
<1> QED BY <1>1, <1>2

\* The outbox keeps its types and its inductive invariant forever.
THEOREM OutboxInvariant == Spec => []IInv
BY InitIInv, NextIInv, PTL DEF Spec

\* Type correctness of the outbox.
THEOREM OutboxTypeOK == Spec => []TypeOK
<1>1. IInv => TypeOK
  BY DEF IInv
<1> QED BY <1>1, OutboxInvariant, PTL

\* 'dispatched' is never written for an event that did not reach the bus,
\* for any number of racing publishers, cron ticks and operators.
THEOREM OutboxDispatchedWasEmitted == Spec => []DispatchedWasEmitted
<1>1. IInv => DispatchedWasEmitted
  BY DEF IInv, RowInv
<1> QED BY <1>1, OutboxInvariant, PTL

\* No row waits without the cron query being able to pick it up.
THEOREM OutboxWaitingHasAttemptsLeft == Spec => []WaitingHasAttemptsLeft
<1>1. IInv => WaitingHasAttemptsLeft
  BY DEF IInv, RowInv
<1> QED BY <1>1, OutboxInvariant, PTL

\* Nothing is given up before its attempts are used, except by an operator.
THEOREM OutboxDeadLetterIsJustified == Spec => []DeadLetterIsJustified
<1>1. IInv => DeadLetterIsJustified
  BY DEF IInv, RowInv
<1> QED BY <1>1, OutboxInvariant, PTL
=============================================================================
