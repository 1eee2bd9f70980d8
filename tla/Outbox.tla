------------------------------- MODULE Outbox -------------------------------
(***************************************************************************)
(* The transactional outbox of the backend                                 *)
(* (src/apps/backend/src/modules/outbox).  A row of outbox_events is       *)
(* inserted by publish, emitted on the in-process event bus, and saved     *)
(* again with the outcome; a cron job picks up what is still to be sent;   *)
(* an operator may replay a row or force it into the dead-letter state.    *)
(*                                                                         *)
(* Every service call is a sequence of database round trips.  Between two  *)
(* of them any other call, in this process or in the other replica, may    *)
(* run, so each call is a job whose steps are actions of their own.  A job *)
(* works on entity copies it loaded earlier, and save() writes the whole   *)
(* copy back, whatever the row has become in the meantime.                 *)
(***************************************************************************)
EXTENDS Naturals, Sequences

CONSTANTS
  Events,      \* rows that may be published
  Workers,     \* concurrent calls: requests, cron ticks, operator commands
  MaxAttempts, \* max_attempts of a row
  BatchLimit,  \* rows a cron tick loads (50 in the code)
  MaxCommands, \* bound: operator commands (replay, dead-letter)
  MaxAborts    \* bound: calls cut short by a crash or a failed query

ASSUME OutboxAssumption ==
  /\ MaxAttempts \in Nat \ {0}
  /\ BatchLimit \in Nat \ {0}
  /\ MaxCommands \in Nat
  /\ MaxAborts \in Nat

VARIABLES
  row,      \* outbox_events: event -> row, "absent" before publish
  created,  \* the rows in created_at order
  job,      \* worker -> the call it is executing
  emitted,  \* events handed to their listeners at least once
  buried,   \* events an operator forced into dead_letter since the last replay
  commands, \* operator commands so far
  aborts    \* calls cut short so far

vars == <<row, created, job, emitted, buried, commands, aborts>>

Statuses == {"absent", "pending", "dispatched", "failed", "dead_letter"}

\* due stands for available_at <= NOW().
Row == [status: Statuses, attempts: 0..MaxAttempts, due: BOOLEAN]

\* An OutboxEvent object held in memory by a call.
Entity == [event: Events, status: Statuses \ {"absent"},
           attempts: 0..MaxAttempts, due: BOOLEAN]

\* pc is what the job does next with the first entity of todo.
Job == [pc: {"idle", "emit", "save", "reset", "bury"}, todo: Seq(Entity)]

Idle == [pc |-> "idle", todo |-> <<>>]

TypeOK ==
  /\ row \in [Events -> Row]
  /\ created \in Seq(Events)
  /\ job \in [Workers -> Job]
  /\ \A w \in Workers : job[w].pc = "idle" <=> job[w].todo = <<>>
  /\ emitted \subseteq Events
  /\ buried \subseteq Events
  /\ commands \in 0..MaxCommands
  /\ aborts \in 0..MaxAborts

Init ==
  /\ row = [e \in Events |-> [status |-> "absent", attempts |-> 0, due |-> FALSE]]
  /\ created = <<>>
  /\ job = [w \in Workers |-> Idle]
  /\ emitted = {}
  /\ buried = {}
  /\ commands = 0
  /\ aborts = 0

-----------------------------------------------------------------------------
\* Loading a row gives an entity; saving an entity overwrites the row.
Load(e) == [event |-> e, status |-> row[e].status,
            attempts |-> row[e].attempts, due |-> row[e].due]

Saved(c) == [row EXCEPT ![c.event] =
               [status |-> c.status, attempts |-> c.attempts, due |-> c.due]]

\* The WHERE clause of the cron query.
RetryableOnlyPending(e) ==
  /\ row[e].status = "pending"
  /\ row[e].due
  /\ row[e].attempts < MaxAttempts

Retryable(e) ==
  /\ row[e].status \in {"pending", "failed"}
  /\ row[e].due
  /\ row[e].attempts < MaxAttempts

\* created_at order.
Before(e, f) ==
  \E i, j \in DOMAIN created : i < j /\ created[i] = e /\ created[j] = f

\* A result of the cron query: the oldest retryable rows, oldest first, as many
\* as the limit allows.
Batches ==
  { s \in UNION { [1..n -> {e \in Events : Retryable(e)}] : n \in 1..BatchLimit } :
      /\ \A i, j \in DOMAIN s : i < j => Before(s[i], s[j])
      /\ \A e \in Events :
           Retryable(e) =>
             \/ \E i \in DOMAIN s : s[i] = e
             \/ Len(s) = BatchLimit /\ Before(s[BatchLimit], e) }

\* What dispatchStoredEvent leaves in the entity after emit() returned ...
DeliveredCountsTwice(c) == [event |-> c.event, status |-> "dispatched",
                            attempts |-> c.attempts + 2, due |-> TRUE]

Delivered(c) == [event |-> c.event, status |-> "dispatched",
                 attempts |-> c.attempts + 1, due |-> TRUE]

\* ... and after emit() threw.
NotDeliveredOffByOne(c) ==
  [event |-> c.event,
   status |-> IF c.attempts >= MaxAttempts THEN "dead_letter" ELSE "failed",
   attempts |-> c.attempts + 1, due |-> FALSE]

NotDeliveredBuriesEarly(c) ==
  [event |-> c.event,
   status |-> IF c.attempts + 2 >= MaxAttempts THEN "dead_letter" ELSE "failed",
   attempts |-> c.attempts + 1, due |-> FALSE]

NotDelivered(c) ==
  [event |-> c.event,
   status |-> IF c.attempts + 1 >= MaxAttempts THEN "dead_letter" ELSE "failed",
   attempts |-> c.attempts + 1, due |-> FALSE]

-----------------------------------------------------------------------------
\* publish: the row is inserted as pending; the same call dispatches it next.
Publish(w, e) ==
  /\ job[w].pc = "idle"
  /\ row[e].status = "absent"
  /\ row' = [row EXCEPT ![e] = [status |-> "pending", attempts |-> 0, due |-> TRUE]]
  /\ created' = Append(created, e)
  /\ job' = [job EXCEPT ![w] =
       [pc |-> "emit",
        todo |-> <<[event |-> e, status |-> "pending", attempts |-> 0, due |-> TRUE]>>]]
  /\ UNCHANGED <<emitted, buried, commands, aborts>>

\* dispatchPendingBatch: one tick of the 15-second cron loads its batch.
FetchBatch(w) ==
  /\ job[w].pc = "idle"
  /\ \E s \in Batches :
       job' = [job EXCEPT ![w] =
         [pc |-> "emit", todo |-> [i \in 1..Len(s) |-> Load(s[i])]]]
  /\ UNCHANGED <<row, created, emitted, buried, commands, aborts>>

\* dispatchStoredEvent up to its save: emit() hands the event to the listeners.
EmitMarksFirst(w) ==
  /\ job[w].pc = "emit"
  /\ job' = [job EXCEPT ![w] =
       [pc |-> "save", todo |-> [job[w].todo EXCEPT ![1] = Delivered(job[w].todo[1])]]]
  /\ UNCHANGED <<row, created, emitted, buried, commands, aborts>>

Emit(w) ==
  /\ job[w].pc = "emit"
  /\ job' = [job EXCEPT ![w] =
       [pc |-> "save", todo |-> [job[w].todo EXCEPT ![1] = Delivered(job[w].todo[1])]]]
  /\ emitted' = emitted \cup {Head(job[w].todo).event}
  /\ UNCHANGED <<row, created, buried, commands, aborts>>

\* ... or a listener throws synchronously and the catch block runs.
EmitThrows(w) ==
  /\ job[w].pc = "emit"
  /\ job' = [job EXCEPT ![w] =
       [pc |-> "save", todo |-> [job[w].todo EXCEPT ![1] = NotDelivered(job[w].todo[1])]]]
  /\ UNCHANGED <<row, created, emitted, buried, commands, aborts>>

\* The save that ends dispatchStoredEvent; a cron job goes on with its batch.
SaveDispatch(w) ==
  /\ job[w].pc = "save"
  /\ row' = Saved(Head(job[w].todo))
  /\ LET rest == Tail(job[w].todo)
     IN  job' = [job EXCEPT ![w] =
           IF rest = <<>> THEN Idle ELSE [pc |-> "emit", todo |-> rest]]
  /\ UNCHANGED <<created, emitted, buried, commands, aborts>>

\* replayEvent loads the row and resets the entity ...
FindForReplay(w, e) ==
  /\ job[w].pc = "idle"
  /\ commands < MaxCommands
  /\ row[e].status # "absent"
  /\ job' = [job EXCEPT ![w] =
       [pc |-> "reset",
        todo |-> <<[event |-> e, status |-> "pending", attempts |-> 0, due |-> TRUE]>>]]
  /\ commands' = commands + 1
  /\ UNCHANGED <<row, created, emitted, buried, aborts>>

\* ... saves it, and dispatches it like publish does.
SaveReplay(w) ==
  /\ job[w].pc = "reset"
  /\ row' = Saved(Head(job[w].todo))
  /\ job' = [job EXCEPT ![w] = [pc |-> "emit", todo |-> job[w].todo]]
  /\ buried' = buried \ {Head(job[w].todo).event}
  /\ UNCHANGED <<created, emitted, commands, aborts>>

\* markDeadLetter loads the row ...
FindForDeadLetter(w, e) ==
  /\ job[w].pc = "idle"
  /\ commands < MaxCommands
  /\ row[e].status # "absent"
  /\ job' = [job EXCEPT ![w] =
       [pc |-> "bury",
        todo |-> <<[event |-> e, status |-> "dead_letter",
                   attempts |-> row[e].attempts, due |-> TRUE]>>]]
  /\ commands' = commands + 1
  /\ UNCHANGED <<row, created, emitted, buried, aborts>>

\* ... and saves it as dead_letter.
SaveDeadLetter(w) ==
  /\ job[w].pc = "bury"
  /\ row' = Saved(Head(job[w].todo))
  /\ job' = [job EXCEPT ![w] = Idle]
  /\ buried' = buried \cup {Head(job[w].todo).event}
  /\ UNCHANGED <<created, emitted, commands, aborts>>

\* The process stops, or a query of the call is rejected: the rest of the call
\* is lost with its entities, and what it has saved stays.
Abort(w) ==
  /\ job[w].pc # "idle"
  /\ aborts < MaxAborts
  /\ job' = [job EXCEPT ![w] = Idle]
  /\ aborts' = aborts + 1
  /\ UNCHANGED <<row, created, emitted, buried, commands>>

\* The backoff of computeBackoffMs is over: available_at lies in the past.
BackoffElapses(e) ==
  /\ row[e].status # "absent"
  /\ ~row[e].due
  /\ row' = [row EXCEPT ![e].due = TRUE]
  /\ UNCHANGED <<created, job, emitted, buried, commands, aborts>>

Next ==
  \/ \E w \in Workers, e \in Events :
       Publish(w, e) \/ FindForReplay(w, e) \/ FindForDeadLetter(w, e)
  \/ \E w \in Workers :
       \/ FetchBatch(w) \/ Emit(w) \/ EmitThrows(w) \/ SaveDispatch(w)
       \/ SaveReplay(w) \/ SaveDeadLetter(w) \/ Abort(w)
  \/ \E e \in Events : BackoffElapses(e)

Spec == Init /\ [][Next]_vars

\* A call that is running goes on, the cron ticks, and time passes.
Progress(w) == Emit(w) \/ EmitThrows(w) \/ SaveDispatch(w) \/ SaveReplay(w)
                 \/ SaveDeadLetter(w)

Fairness ==
  /\ \A w \in Workers : WF_vars(Progress(w))
  /\ WF_vars(\E w \in Workers : FetchBatch(w))
  /\ \A e \in Events : WF_vars(BackoffElapses(e))

FairSpec == Spec /\ Fairness

-----------------------------------------------------------------------------
\* A row says 'dispatched' only if the event has reached the bus, whichever
\* of several racing calls wrote the row last and wherever one was cut short
\* (dispatchStoredEvent, outbox.service.ts:202).
DispatchedWasEmitted ==
  \A e \in Events : row[e].status = "dispatched" => e \in emitted

\* A row that still waits for delivery can be picked up by the cron query: it
\* has attempts left.  Otherwise it would wait forever without ever being
\* reported as dead_letter (outbox.service.ts:79-92 and 216).
WaitingHasAttemptsLeft ==
  \A e \in Events :
    row[e].status \in {"pending", "failed"} => row[e].attempts < MaxAttempts

\* An event is given up only after max_attempts attempts or by an operator
\* (outbox.service.ts:176, 216); stale copies written back cannot cause it.
DeadLetterIsJustified ==
  \A e \in Events :
    row[e].status = "dead_letter" => row[e].attempts = MaxAttempts \/ e \in buried

\* What is persisted is eventually settled, although calls may be cut short:
\* the cron job takes over (outbox.service.ts:78).
EventuallySettled ==
  \A e \in Events :
    row[e].status \in {"pending", "failed"}
      ~> row[e].status \in {"dispatched", "dead_letter"}
=============================================================================
