--------------------------- MODULE DeliveryProofs ---------------------------
(***************************************************************************)
(* The outbox, the bus and the inbox implement ReliableEvents, for any     *)
(* number of events, keys, dispatchers, deliveries, retries and faults.    *)
(*                                                                         *)
(* Two facts carry the refinement.  Whatever is on its way announces a     *)
(* stored change: producers, rows, the copies of dispatchers, the          *)
(* deliveries on the bus, inbox rows and calls.  And the first run of a    *)
(* key is alone: before a failure, only one call claims it, and the        *)
(* handler has not run when that call starts it.                           *)
(***************************************************************************)
EXTENDS EventDelivery, Sequences, TLAPS

-----------------------------------------------------------------------------
(* The outbox holds nothing but stored changes. *)

Copies == [event : Events, status : O!Statuses, attempts : Nat, due : BOOLEAN]
StoredRows == [status : O!Statuses, attempts : Nat, due : BOOLEAN]
JobPcs == {"idle", "emit", "save", "reset", "bury"}

\* A job's copies are of changes that were stored.
Announces(todo) == todo \in Seq(Copies) /\ \A i \in 1..Len(todo) : todo[i].event \in changed

OutboxInv ==
  /\ changed \subseteq Events
  /\ producer \in [Events -> BOOLEAN]
  /\ \A e \in Events : producer[e] => e \in changed
  /\ row \in [Events -> StoredRows]
  /\ \A e \in Events : row[e].status # "absent" => e \in changed
  /\ job \in [Workers -> [pc : JobPcs, todo : Seq(Copies)]]
  /\ \A w \in Workers : Announces(job[w].todo) /\ (job[w].pc # "idle" => job[w].todo # <<>>)

\* One job goes on with copies of stored changes.
LEMMA OneJobMoves ==
  ASSUME OutboxInv, UNCHANGED <<row, changed, producer>>,
         NEW w \in Workers, NEW pc \in JobPcs, NEW todo, Announces(todo), pc # "idle" => todo # <<>>,
         job' = [job EXCEPT ![w] = [pc |-> pc, todo |-> todo]]
  PROVE  OutboxInv'
<1>1. todo \in Seq(Copies) /\ [pc |-> pc, todo |-> todo] \in [pc : JobPcs, todo : Seq(Copies)]
  BY DEF Announces
<1>2. job' \in [Workers -> [pc : JobPcs, todo : Seq(Copies)]]
  BY <1>1 DEF OutboxInv
<1>3. /\ job'[w].pc = pc /\ job'[w].todo = todo
      /\ \A v \in Workers \ {w} : job'[v] = job[v]
  BY DEF OutboxInv
<1>4. ASSUME NEW v \in Workers
      PROVE  Announces(job[v].todo)' /\ (job'[v].pc # "idle" => job'[v].todo # <<>>)
  BY <1>3 DEF OutboxInv, Announces
<1> QED BY <1>2, <1>4 DEF OutboxInv

\* A job saves a copy of a stored change to its row and goes on.
LEMMA OneJobSaves ==
  ASSUME OutboxInv, UNCHANGED <<changed, producer>>,
         NEW w \in Workers, NEW pc \in JobPcs, NEW todo, Announces(todo), pc # "idle" => todo # <<>>,
         NEW c \in Copies, c.event \in changed, row' = O!Saved(c),
         job' = [job EXCEPT ![w] = [pc |-> pc, todo |-> todo]]
  PROVE  OutboxInv'
<1>1. todo \in Seq(Copies) /\ [pc |-> pc, todo |-> todo] \in [pc : JobPcs, todo : Seq(Copies)]
  BY DEF Announces
<1>2. job' \in [Workers -> [pc : JobPcs, todo : Seq(Copies)]]
  BY <1>1 DEF OutboxInv
<1>3. /\ job'[w].pc = pc /\ job'[w].todo = todo
      /\ \A v \in Workers \ {w} : job'[v] = job[v]
  BY DEF OutboxInv
<1>4. ASSUME NEW v \in Workers
      PROVE  Announces(job[v].todo)' /\ (job'[v].pc # "idle" => job'[v].todo # <<>>)
  BY <1>3 DEF OutboxInv, Announces
<1>5. c.event \in Events /\ [status |-> c.status, attempts |-> c.attempts, due |-> c.due] \in StoredRows
  BY DEF Copies, StoredRows
<1>6. row' \in [Events -> StoredRows] /\ \A e \in Events \ {c.event} : row'[e] = row[e]
  BY <1>5 DEF O!Saved, OutboxInv
<1>7. \A e \in Events : row'[e].status # "absent" => e \in changed'
  BY <1>6 DEF OutboxInv
<1> QED BY <1>2, <1>4, <1>6, <1>7 DEF OutboxInv

\* A busy job works on its first copy, of a stored change.
LEMMA FirstCopy ==
  ASSUME OutboxInv, NEW w \in Workers, job[w].pc # "idle"
  PROVE  /\ job[w].todo \in Seq(Copies) /\ Len(job[w].todo) \in Nat \ {0}
         /\ Head(job[w].todo) = job[w].todo[1]
         /\ job[w].todo[1] \in Copies
         /\ job[w].todo[1].event \in changed
         /\ job[w].todo[1].event \in Events
<1>1. job[w].todo \in Seq(Copies) /\ job[w].todo # <<>> /\ Announces(job[w].todo)
  BY DEF OutboxInv, Announces
<1>2. Len(job[w].todo) \in Nat \ {0} /\ job[w].todo[1] \in Copies /\ Head(job[w].todo) = job[w].todo[1]
  BY <1>1
<1> QED BY <1>1, <1>2 DEF Announces, Copies

\* One copy of a stored change is a list to work on.
LEMMA SingleCopy ==
  ASSUME NEW c \in Copies, c.event \in changed
  PROVE  Announces(<<c>>) /\ <<c>> # <<>>
BY DEF Announces

\* publish of a stored change.
LEMMA PublishKeeps ==
  ASSUME OutboxInv, NEW w \in Workers, NEW e \in Events, PublishChange(w, e)
  PROVE  OutboxInv'
<1> DEFINE c == [event |-> e, status |-> "pending", attempts |-> 0, due |-> TRUE]
           p == [producer EXCEPT ![e] = FALSE]
<1>1. e \in changed /\ changed' = changed /\ producer' = p
  BY DEF PublishChange, OutboxInv
<1>2. c \in Copies /\ c.event = e
  BY DEF Copies, O!Statuses
<1>3. p \in [Events -> BOOLEAN] /\ \A f \in Events : p[f] => f \in changed
  BY DEF OutboxInv
<1>4. job' = [job EXCEPT ![w] = [pc |-> "emit", todo |-> <<c>>]]
  BY DEF PublishChange, O!Publish
<1>5. /\ row' = [row EXCEPT ![e] = [status |-> "pending", attempts |-> 0, due |-> TRUE]]
      /\ [status |-> "pending", attempts |-> 0, due |-> TRUE] \in StoredRows
  BY DEF PublishChange, O!Publish, StoredRows, O!Statuses
<1>6. row' \in [Events -> StoredRows] /\ \A f \in Events \ {e} : row'[f] = row[f]
  BY <1>5 DEF OutboxInv
<1>7. \A f \in Events : row'[f].status # "absent" => f \in changed'
  BY <1>1, <1>6 DEF OutboxInv
<1> HIDE DEF c, p
<1>8. Announces(<<c>>) /\ <<c>> \in Seq(Copies) /\ <<c>> # <<>>
  BY <1>1, <1>2, SingleCopy DEF Announces
<1>9. /\ job' \in [Workers -> [pc : JobPcs, todo : Seq(Copies)]]
      /\ job'[w].todo = <<c>>
      /\ \A v \in Workers \ {w} : job'[v] = job[v]
  BY <1>4, <1>8 DEF OutboxInv, JobPcs
<1>10. ASSUME NEW v \in Workers
       PROVE  Announces(job[v].todo)' /\ (job'[v].pc # "idle" => job'[v].todo # <<>>)
  BY <1>1, <1>8, <1>9 DEF OutboxInv, Announces
<1> QED BY <1>1, <1>3, <1>6, <1>7, <1>9, <1>10 DEF OutboxInv

\* dispatchPendingBatch loads rows of stored changes.
LEMMA FetchKeeps ==
  ASSUME OutboxInv, NEW w \in Workers, O!FetchBatch(w), UNCHANGED <<changed, producer>>
  PROVE  OutboxInv'
<1>1. PICK s \in O!Batches :
        job' = [job EXCEPT ![w] = [pc |-> "emit", todo |-> [i \in 1..Len(s) |-> O!Load(s[i])]]]
  BY DEF O!FetchBatch
<1>2. PICK n \in 1..BatchLimit : s \in [1..n -> {e \in Events : O!Retryable(e)}]
  BY <1>1 DEF O!Batches
<1>3. n \in Nat \ {0} /\ Len(s) = n
  BY <1>2
<1> DEFINE t == [i \in 1..Len(s) |-> O!Load(s[i])]
<1>4. ASSUME NEW i \in 1..n PROVE t[i] \in Copies /\ t[i].event \in changed
  <2>1. s[i] \in Events /\ O!Retryable(s[i])
    BY <1>2
  <2>2. row[s[i]] \in StoredRows /\ row[s[i]].status # "absent"
    BY <2>1 DEF O!Retryable, OutboxInv
  <2> QED BY <2>1, <2>2, <1>3 DEF O!Load, Copies, StoredRows, OutboxInv
<1>5. t \in Seq(Copies) /\ Len(t) = n /\ t # <<>>
  BY <1>3, <1>4
<1>6. job' = [job EXCEPT ![w] = [pc |-> "emit", todo |-> t]]
  BY <1>1
<1> HIDE DEF t
<1>7. Announces(t) /\ UNCHANGED row
  BY <1>4, <1>5 DEF Announces, O!FetchBatch
<1> QED BY <1>5, <1>6, <1>7, OneJobMoves DEF JobPcs

\* emit() returned or threw.
LEMMA EmitKeeps ==
  ASSUME OutboxInv, NEW w \in Workers, O!Emit(w) \/ O!EmitThrows(w), UNCHANGED <<changed, producer>>
  PROVE  OutboxInv'
<1> DEFINE c == job[w].todo[1]
<1>1. job[w].pc = "emit" /\ UNCHANGED row
  BY DEF O!Emit, O!EmitThrows
<1>2. job[w].todo \in Seq(Copies) /\ Len(job[w].todo) \in Nat \ {0} /\ c \in Copies /\ c.event \in changed
  BY <1>1, FirstCopy
<1>3. /\ O!Delivered(c) \in Copies /\ O!Delivered(c).event = c.event
      /\ O!NotDelivered(c) \in Copies /\ O!NotDelivered(c).event = c.event
  BY <1>2 DEF O!Delivered, O!NotDelivered, Copies, O!Statuses
<1>4. PICK d \in Copies :
        /\ d.event = c.event
        /\ job' = [job EXCEPT ![w] = [pc |-> "save", todo |-> [job[w].todo EXCEPT ![1] = d]]]
  BY <1>3 DEF O!Emit, O!EmitThrows
<1> DEFINE t == [job[w].todo EXCEPT ![1] = d]
<1>5. /\ t \in Seq(Copies) /\ Len(t) = Len(job[w].todo) /\ t # <<>> /\ t[1] = d
      /\ \A i \in 2..Len(t) : t[i] = job[w].todo[i]
  BY <1>2
<1>6. job' = [job EXCEPT ![w] = [pc |-> "save", todo |-> t]]
  BY <1>4
<1>7. \A i \in 1..Len(job[w].todo) : job[w].todo[i].event \in changed
  BY DEF OutboxInv, Announces
<1> HIDE DEF t, c
<1>8. Announces(t)
  BY <1>2, <1>4, <1>5, <1>7 DEF Announces
<1> QED BY <1>1, <1>5, <1>6, <1>8, OneJobMoves DEF JobPcs

\* The saves of a job: dispatchStoredEvent, replayEvent, markDeadLetter.
LEMMA SaveKeeps ==
  ASSUME OutboxInv, NEW w \in Workers,
         O!SaveDispatch(w) \/ O!SaveReplay(w) \/ O!SaveDeadLetter(w), UNCHANGED <<changed, producer>>
  PROVE  OutboxInv'
<1> DEFINE c == Head(job[w].todo)
           rest == Tail(job[w].todo)
<1>1. job[w].pc # "idle"
  BY DEF O!SaveDispatch, O!SaveReplay, O!SaveDeadLetter
<1>2. /\ job[w].todo \in Seq(Copies) /\ Len(job[w].todo) \in Nat \ {0}
      /\ c \in Copies /\ c.event \in changed
      /\ Announces(job[w].todo) /\ job[w].todo # <<>>
  BY <1>1, FirstCopy DEF OutboxInv
<1>3. /\ rest \in Seq(Copies) /\ Len(rest) = Len(job[w].todo) - 1
      /\ \A i \in 1..Len(rest) : rest[i] = job[w].todo[i + 1] /\ i + 1 \in 1..Len(job[w].todo)
  BY <1>2
<1>4. Announces(rest) /\ Announces(<<>>)
  BY <1>2, <1>3 DEF Announces
<1>5. row' = O!Saved(c)
  BY DEF O!SaveDispatch, O!SaveReplay, O!SaveDeadLetter
<1>6. \/ job' = [job EXCEPT ![w] = [pc |-> "idle", todo |-> <<>>]]
      \/ rest # <<>> /\ job' = [job EXCEPT ![w] = [pc |-> "emit", todo |-> rest]]
      \/ job' = [job EXCEPT ![w] = [pc |-> "emit", todo |-> job[w].todo]]
  BY DEF O!SaveDispatch, O!SaveReplay, O!SaveDeadLetter, O!Idle
<1> HIDE DEF c, rest
<1> QED BY <1>2, <1>4, <1>5, <1>6, OneJobSaves DEF JobPcs

\* replayEvent and markDeadLetter load a row.
LEMMA FindKeeps ==
  ASSUME OutboxInv, NEW w \in Workers, NEW e \in Events,
         O!FindForReplay(w, e) \/ O!FindForDeadLetter(w, e), UNCHANGED <<changed, producer>>
  PROVE  OutboxInv'
<1>1. UNCHANGED row
  BY DEF O!FindForReplay, O!FindForDeadLetter
<1>2. e \in changed /\ row[e] \in StoredRows
  BY DEF O!FindForReplay, O!FindForDeadLetter, OutboxInv
<1>3. PICK c \in Copies, pc \in {"reset", "bury"} :
        c.event = e /\ job' = [job EXCEPT ![w] = [pc |-> pc, todo |-> <<c>>]]
  BY <1>2 DEF O!FindForReplay, O!FindForDeadLetter, Copies, StoredRows, O!Statuses
<1>4. Announces(<<c>>) /\ <<c>> # <<>>
  BY <1>2, <1>3, SingleCopy
<1> QED BY <1>1, <1>3, <1>4, OneJobMoves DEF JobPcs

\* A call is cut short.
LEMMA AbortKeeps ==
  ASSUME OutboxInv, NEW w \in Workers, O!Abort(w), UNCHANGED <<changed, producer>>
  PROVE  OutboxInv'
<1>1. Announces(<<>>)
  BY DEF Announces
<1> QED BY <1>1, OneJobMoves DEF O!Abort, O!Idle, JobPcs

\* A backoff elapses.
LEMMA BackoffKeeps ==
  ASSUME OutboxInv, NEW e \in Events, O!BackoffElapses(e), UNCHANGED <<changed, producer>>
  PROVE  OutboxInv'
<1>1. row' = [row EXCEPT ![e].due = TRUE] /\ UNCHANGED job
  BY DEF O!BackoffElapses
<1>2. row' \in [Events -> StoredRows] /\ \A f \in Events : row'[f].status = row[f].status
  BY <1>1 DEF OutboxInv, StoredRows
<1> QED BY <1>1, <1>2 DEF OutboxInv, Announces

\* The steps of the outbox that do not touch the bus.
LEMMA OutboxStepKeeps ==
  ASSUME OutboxInv, OutboxStep
  PROVE  OutboxInv'
<1>1. UNCHANGED <<changed, producer>>
  BY DEF OutboxStep
<1>2. ASSUME NEW w \in Workers, NEW e \in Events, O!FindForReplay(w, e) \/ O!FindForDeadLetter(w, e)
      PROVE  OutboxInv'
  BY <1>1, <1>2, FindKeeps
<1>3. ASSUME NEW w \in Workers,
             \/ O!FetchBatch(w) \/ O!EmitThrows(w) \/ O!SaveDispatch(w)
             \/ O!SaveReplay(w) \/ O!SaveDeadLetter(w) \/ O!Abort(w)
      PROVE  OutboxInv'
  BY <1>1, <1>3, FetchKeeps, EmitKeeps, SaveKeeps, AbortKeeps
<1>4. ASSUME NEW e \in Events, O!BackoffElapses(e) PROVE OutboxInv'
  BY <1>1, <1>4, BackoffKeeps
<1> QED BY <1>2, <1>3, <1>4 DEF OutboxStep

-----------------------------------------------------------------------------
(* The inbox: a handler runs first alone. *)

\* The call has claimed its key and still owes a verdict.
Owner(c, k) == call[c].pc \in {"handle", "complete", "fail"} /\ call[c].key = k

\* What holds of a key that has never been 'failed' (the argument of the
\* proofs about Inbox alone).
FirstRun ==
  \A k \in Keys : k \notin everFailed =>
    /\ inbox[k] # "failed"
    /\ \A c \in Calls : call[c].pc = "claim" /\ call[c].key = k => ~call[c].found
    /\ inbox[k] = "absent" => effects[k] = 0 /\ \A c \in Calls : ~Owner(c, k)
    /\ \A c, d \in Calls : Owner(c, k) /\ Owner(d, k) => c = d
    /\ \A c \in Calls : call[c].pc = "handle" /\ call[c].key = k => effects[k] = 0

InboxType ==
  /\ inbox \in [Keys -> I!Statuses]
  /\ call \in [Calls -> I!Busy \cup {I!Idle}]
  /\ effects \in [Keys -> Nat]
  /\ everFailed \subseteq Keys

InboxInv == InboxType /\ FirstRun

\* A stored change has this key.
Announced(k) == \E e \in changed : KeyOf[e] = k

\* What is on its way to a listener announces a stored change.
KeysAnnounced ==
  /\ bus \in [Keys -> Nat]
  /\ \A k \in Keys : bus[k] > 0 \/ inbox[k] # "absent" => Announced(k)
  /\ \A c \in Calls : call[c].pc # "idle" => Announced(call[c].key)

\* A call that is not idle knows its key.
LEMMA BusyCall ==
  ASSUME InboxType, NEW c \in Calls, call[c].pc # "idle"
  PROVE  call[c] \in I!Busy /\ call[c].key \in Keys
BY DEF InboxType, I!Busy, I!Idle

\* A lookup lets a call in.
LEMMA LookupKeeps ==
  ASSUME InboxInv, KeysAnnounced, NEW c \in Calls, NEW k \in Keys, Announced(k),
         I!Find(c, k) \/ I!FindForReset(c, k), UNCHANGED changed,
         bus' \in [Keys -> Nat], \A j \in Keys : bus'[j] <= bus[j]
  PROVE  InboxInv' /\ KeysAnnounced'
<1>1. /\ call[c].pc = "idle"
      /\ UNCHANGED <<inbox, effects, everFailed>>
      /\ \E p \in {"claim", "reset"}, f \in BOOLEAN :
           /\ call' = [call EXCEPT ![c] = [pc |-> p, key |-> k, found |-> f]]
           /\ p = "claim" => f = (inbox[k] # "absent") /\ ~I!Duplicate(k)
  BY DEF I!Find, I!FindForReset
<1>2. InboxType'
  BY <1>1 DEF InboxInv, InboxType, I!Busy
<1>3. FirstRun'
  BY <1>1 DEF InboxInv, InboxType, FirstRun, Owner, I!Duplicate, I!Statuses
<1>4. \A j \in Keys : bus'[j] > 0 => bus[j] > 0
  BY DEF KeysAnnounced
<1>5. KeysAnnounced'
  BY <1>1, <1>4 DEF InboxInv, InboxType, KeysAnnounced, Announced
<1> QED BY <1>2, <1>3, <1>5 DEF InboxInv

\* A call claims its key.
LEMMA ClaimKeeps ==
  ASSUME InboxInv, KeysAnnounced, NEW c \in Calls, I!Claim(c), UNCHANGED <<changed, bus>>
  PROVE  InboxInv' /\ KeysAnnounced'
<1> DEFINE k == call[c].key
<1>1. call[c] \in I!Busy /\ k \in Keys /\ call[c].pc = "claim" /\ Announced(k)
  BY BusyCall DEF I!Claim, InboxInv, KeysAnnounced
<1>2. /\ inbox' = [inbox EXCEPT ![k] = "processing"]
      /\ call' = [call EXCEPT ![c] = [pc |-> "handle", key |-> k, found |-> call[c].found]]
      /\ UNCHANGED <<effects, everFailed>>
      /\ call[c].found \/ inbox[k] = "absent"
  BY DEF I!Claim, I!Goto
<1>3. InboxType'
  BY <1>1, <1>2 DEF InboxInv, InboxType, I!Busy, I!Statuses
<1>4. k \notin everFailed => inbox[k] = "absent" /\ effects[k] = 0 /\ \A d \in Calls : ~Owner(d, k)
  BY <1>1, <1>2 DEF InboxInv, FirstRun
<1>5. FirstRun'
  BY <1>1, <1>2, <1>4 DEF InboxInv, InboxType, FirstRun, Owner
<1>6. KeysAnnounced'
  BY <1>1, <1>2 DEF InboxInv, InboxType, KeysAnnounced, Announced
<1> QED BY <1>3, <1>5, <1>6 DEF InboxInv

\* The handler runs: for the first time, or after a failure.
LEMMA HandleKeeps ==
  ASSUME InboxInv, KeysAnnounced, NEW c \in Calls, I!Handle(c), UNCHANGED <<changed, bus>>
  PROVE  /\ InboxInv' /\ KeysAnnounced'
         /\ \E k \in Keys : Announced(k) /\ (effects[k] = 0 \/ k \in everFailed)
              /\ effects' = [effects EXCEPT ![k] = effects[k] + 1] /\ UNCHANGED everFailed
<1> DEFINE k == call[c].key
<1>1. call[c] \in I!Busy /\ k \in Keys /\ call[c].pc = "handle" /\ Announced(k)
  BY BusyCall DEF I!Handle, InboxInv, KeysAnnounced
<1>2. /\ effects' = [effects EXCEPT ![k] = effects[k] + 1]
      /\ call' = [call EXCEPT ![c] = [pc |-> "complete", key |-> k, found |-> call[c].found]]
      /\ UNCHANGED <<inbox, everFailed>>
  BY DEF I!Handle, I!Goto
<1>3. InboxType'
  BY <1>1, <1>2 DEF InboxInv, InboxType, I!Busy
<1>4. k \notin everFailed =>
        /\ effects[k] = 0 /\ inbox[k] # "absent"
        /\ \A d \in Calls \ {c} : ~Owner(d, k)
  BY <1>1 DEF InboxInv, FirstRun, Owner
<1>5. FirstRun'
  BY <1>1, <1>2, <1>4 DEF InboxInv, InboxType, FirstRun, Owner
<1>6. KeysAnnounced'
  BY <1>1, <1>2 DEF InboxInv, InboxType, KeysAnnounced, Announced
<1> QED BY <1>1, <1>2, <1>3, <1>4, <1>5, <1>6 DEF InboxInv

\* The handler fails, or the save of its success does.
LEMMA FailureKeeps ==
  ASSUME InboxInv, KeysAnnounced, NEW c \in Calls, I!HandleFails(c) \/ I!SaveCompletedThrows(c),
         UNCHANGED <<changed, bus>>
  PROVE  InboxInv' /\ KeysAnnounced' /\ UNCHANGED <<effects, everFailed>>
<1> DEFINE k == call[c].key
<1>1. call[c] \in I!Busy /\ k \in Keys /\ call[c].pc \in {"handle", "complete"} /\ Announced(k)
  BY BusyCall DEF I!HandleFails, I!SaveCompletedThrows, InboxInv, KeysAnnounced
<1>2. /\ call' = [call EXCEPT ![c] = [pc |-> "fail", key |-> k, found |-> call[c].found]]
      /\ UNCHANGED <<inbox, effects, everFailed>>
  BY DEF I!HandleFails, I!SaveCompletedThrows, I!Goto
<1>3. InboxType'
  BY <1>1, <1>2 DEF InboxInv, InboxType, I!Busy
<1>4. FirstRun'
  BY <1>1, <1>2 DEF InboxInv, InboxType, FirstRun, Owner
<1>5. KeysAnnounced'
  BY <1>1, <1>2 DEF InboxInv, InboxType, KeysAnnounced, Announced
<1> QED BY <1>2, <1>3, <1>4, <1>5 DEF InboxInv

\* A call ends: it lost the race, saved its verdict or was cut short.
LEMMA ReturnKeeps ==
  ASSUME InboxInv, KeysAnnounced, NEW c \in Calls,
         I!ClaimLosesRace(c) \/ I!SaveCompleted(c) \/ I!SaveFailed(c) \/ I!SaveReset(c) \/ I!Abort(c),
         UNCHANGED <<changed, bus>>
  PROVE  /\ InboxInv' /\ KeysAnnounced' /\ UNCHANGED effects
         /\ \/ UNCHANGED everFailed
            \/ \E k \in Keys : Announced(k) /\ everFailed' = everFailed \cup {k}
<1> DEFINE k == call[c].key
<1>1. /\ call[c] \in I!Busy /\ k \in Keys /\ Announced(k)
      /\ call' = [call EXCEPT ![c] = I!Idle]
      /\ UNCHANGED effects
  BY BusyCall DEF I!ClaimLosesRace, I!SaveCompleted, I!SaveFailed, I!SaveReset, I!Abort,
     I!Return, InboxInv, KeysAnnounced
<1>2. \/ call[c].pc = "claim" /\ inbox' = inbox /\ everFailed' = everFailed
      \/ /\ call[c].pc = "complete"
         /\ inbox' = [inbox EXCEPT ![k] = "completed"] /\ everFailed' = everFailed
      \/ inbox' = [inbox EXCEPT ![k] = "failed"] /\ everFailed' = everFailed \cup {k}
      \/ inbox' = inbox /\ everFailed' = everFailed
  BY DEF I!ClaimLosesRace, I!SaveCompleted, I!SaveFailed, I!SaveReset, I!Abort
<1>3. InboxType'
  BY <1>1, <1>2 DEF InboxInv, InboxType, I!Statuses
<1>4. FirstRun'
  BY <1>1, <1>2 DEF InboxInv, InboxType, FirstRun, Owner, I!Idle
<1>5. KeysAnnounced'
  BY <1>1, <1>2 DEF InboxInv, InboxType, KeysAnnounced, Announced, I!Idle
<1> QED BY <1>1, <1>2, <1>3, <1>4, <1>5 DEF InboxInv

-----------------------------------------------------------------------------
(* The composition. *)

\* The inductive invariant.
IInv == OutboxInv /\ InboxInv /\ KeysAnnounced

\* The initial state satisfies it and is an initial state of the promise.
LEMMA InitIInv == Init => IInv /\ Promise!Init
<1> SUFFICES ASSUME Init PROVE IInv /\ Promise!Init
  OBVIOUS
<1>1. OutboxInv
  <2>1. Announces(<<>>) /\ <<>> \in Seq(Copies)
    BY DEF Announces
  <2>2. /\ [status |-> "absent", attempts |-> 0, due |-> FALSE] \in StoredRows
        /\ [pc |-> "idle", todo |-> <<>>] \in [pc : JobPcs, todo : Seq(Copies)]
    BY <2>1 DEF StoredRows, O!Statuses, JobPcs
  <2> QED BY <2>1, <2>2 DEF Init, O!Init, O!Idle, OutboxInv
<1>2. InboxInv
  BY DEF Init, I!Init, I!Idle, I!Statuses, InboxInv, InboxType, FirstRun, Owner
<1>3. KeysAnnounced
  BY DEF Init, I!Init, I!Idle, KeysAnnounced
<1>4. Promise!Init
  BY DEF Init, I!Init, Promise!Init
<1> QED BY <1>1, <1>2, <1>3, <1>4 DEF IInv

\* The outbox and the producers leave the inbox's promise alone.
LEMMA OutboxSideKeeps ==
  ASSUME IInv, UNCHANGED <<inbox, call, effects, everFailed>>, changed \subseteq changed',
         bus' \in [Keys -> Nat], \A k \in Keys : bus'[k] > 0 => Announced(k)'
  PROVE  InboxInv' /\ KeysAnnounced'
<1>1. InboxInv'
  BY DEF IInv, InboxInv, InboxType, FirstRun, Owner
<1>2. KeysAnnounced'
  BY DEF IInv, KeysAnnounced, Announced
<1> QED BY <1>1, <1>2

\* Every step keeps the invariant and is a step of the promise, or a stutter.
LEMMA NextIInv == IInv /\ [Next]_vars => IInv' /\ [Promise!Next]_(Promise!vars)
<1> SUFFICES ASSUME IInv, [Next]_vars PROVE IInv' /\ [Promise!Next]_(Promise!vars)
  OBVIOUS
<1> DEFINE Same == UNCHANGED <<changed, everFailed, effects>>
<1>0. Same => [Promise!Next]_(Promise!vars)
  BY DEF Promise!vars
<1>1. CASE UNCHANGED vars
  BY <1>0, <1>1 DEF vars, outboxVars, inboxVars, IInv, OutboxInv, Announces, InboxInv, InboxType,
     FirstRun, Owner, KeysAnnounced, Announced
<1>2. ASSUME NEW e \in Events, SaveChange(e) PROVE IInv' /\ Promise!Next
  <2>1. /\ changed' = changed \cup {e} /\ producer' = [producer EXCEPT ![e] = TRUE]
        /\ UNCHANGED <<row, job, inbox, call, effects, everFailed, bus>>
    BY <1>2 DEF SaveChange, outboxVars, inboxVars
  <2>2. OutboxInv'
    BY <2>1 DEF IInv, OutboxInv, Announces
  <2>3. InboxInv' /\ KeysAnnounced'
    BY <2>1, OutboxSideKeeps DEF IInv, KeysAnnounced, Announced
  <2>4. Promise!Next
    BY <2>1 DEF Promise!Next, Promise!Change
  <2> QED BY <2>2, <2>3, <2>4 DEF IInv
<1>3. ASSUME NEW e \in Events, ProducerCrashes(e) PROVE IInv' /\ Same
  <2>1. /\ producer' = [producer EXCEPT ![e] = FALSE]
        /\ UNCHANGED <<row, job, changed, inbox, call, effects, everFailed, bus>>
    BY <1>3 DEF ProducerCrashes, inboxVars
  <2>2. OutboxInv'
    BY <2>1 DEF IInv, OutboxInv, Announces
  <2>3. InboxInv' /\ KeysAnnounced'
    BY <2>1, OutboxSideKeeps DEF IInv, KeysAnnounced, Announced
  <2> QED BY <2>1, <2>2, <2>3 DEF IInv
<1>4. ASSUME NEW w \in Workers, NEW e \in Events, PublishChange(w, e) PROVE IInv' /\ Same
  <2>1. UNCHANGED <<changed, inbox, call, effects, everFailed, bus>>
    BY <1>4 DEF PublishChange, inboxVars
  <2>2. OutboxInv'
    BY <1>4, PublishKeeps DEF IInv
  <2>3. InboxInv' /\ KeysAnnounced'
    BY <2>1, OutboxSideKeeps DEF IInv, KeysAnnounced, Announced
  <2> QED BY <2>1, <2>2, <2>3 DEF IInv
<1>5. ASSUME NEW w \in Workers, EmitToListener(w) PROVE IInv' /\ Same
  <2> DEFINE k == KeyOf[job[w].todo[1].event]
  <2>1. /\ O!Emit(w) /\ bus' = [bus EXCEPT ![k] = bus[k] + 1]
        /\ UNCHANGED <<changed, producer, inbox, call, effects, everFailed>>
    BY <1>5 DEF EmitToListener, inboxVars
  <2>2. OutboxInv'
    BY <2>1, EmitKeeps DEF IInv
  <2>3. job[w].todo[1].event \in changed /\ job[w].todo[1].event \in Events
    BY <2>1, FirstCopy DEF IInv, O!Emit
  <2>4. k \in Keys /\ Announced(k)
    BY <2>3, EventDeliveryAssumption DEF Announced
  <2> HIDE DEF k
  <2>5. bus' \in [Keys -> Nat] /\ \A j \in Keys \ {k} : bus'[j] = bus[j]
    BY <2>1, <2>4 DEF IInv, KeysAnnounced
  <2>6. \A j \in Keys : bus'[j] > 0 => Announced(j)'
    BY <2>1, <2>4, <2>5 DEF IInv, KeysAnnounced, Announced
  <2>7. InboxInv' /\ KeysAnnounced'
    BY <2>1, <2>5, <2>6, OutboxSideKeeps
  <2> QED BY <2>1, <2>2, <2>7 DEF IInv
<1>6. ASSUME OutboxStep PROVE IInv' /\ Same
  <2>1. UNCHANGED <<changed, inbox, call, effects, everFailed, bus>>
    BY <1>6 DEF OutboxStep, inboxVars
  <2>2. OutboxInv'
    BY <1>6, OutboxStepKeeps DEF IInv
  <2>3. InboxInv' /\ KeysAnnounced'
    BY <2>1, OutboxSideKeeps DEF IInv, KeysAnnounced, Announced
  <2> QED BY <2>1, <2>2, <2>3 DEF IInv
<1>7. ASSUME UNCHANGED <<row, job, changed, producer>> PROVE OutboxInv'
  BY <1>7 DEF IInv, OutboxInv, Announces
<1>8. ASSUME NEW k \in Keys, bus[k] > 0, bus' = [bus EXCEPT ![k] = bus[k] - 1]
      PROVE  Announced(k) /\ bus' \in [Keys -> Nat] /\ \A j \in Keys : bus'[j] <= bus[j]
  BY <1>8 DEF IInv, KeysAnnounced
<1>9. ASSUME NEW c \in Calls, NEW k \in Keys, Listen(c, k) PROVE IInv' /\ Same
  <2>1. /\ I!Find(c, k) /\ bus[k] > 0 /\ bus' = [bus EXCEPT ![k] = bus[k] - 1]
        /\ UNCHANGED <<row, job, changed, producer>> /\ UNCHANGED <<effects, everFailed>>
    BY <1>9 DEF Listen, outboxVars, I!Find
  <2>2. InboxInv' /\ KeysAnnounced'
    BY <2>1, <1>8, LookupKeeps DEF IInv
  <2> QED BY <2>1, <2>2, <1>7 DEF IInv
<1>10. ASSUME NEW k \in Keys, ListenSkips(k) \/ DeliveryLost(k) PROVE IInv' /\ Same
  <2>1. /\ bus[k] > 0 /\ bus' = [bus EXCEPT ![k] = bus[k] - 1]
        /\ UNCHANGED <<row, job, changed, producer, inbox, call, effects, everFailed>>
    BY <1>10 DEF ListenSkips, DeliveryLost, outboxVars, inboxVars
  <2>2. bus' \in [Keys -> Nat] /\ \A j \in Keys : bus'[j] > 0 => Announced(j)'
    BY <2>1, <1>8 DEF IInv, KeysAnnounced, Announced
  <2>3. InboxInv' /\ KeysAnnounced'
    BY <2>1, <2>2, OutboxSideKeeps
  <2> QED BY <2>1, <2>3, <1>7 DEF IInv
<1>11. ASSUME NEW k \in Keys, RetryMessage(k) PROVE IInv' /\ Same
  <2>1. /\ inbox[k] # "absent" /\ bus' = [bus EXCEPT ![k] = bus[k] + 1]
        /\ UNCHANGED <<row, job, changed, producer, inbox, call, effects, everFailed>>
    BY <1>11 DEF RetryMessage, outboxVars, inboxVars
  <2>2. bus' \in [Keys -> Nat] /\ \A j \in Keys : bus'[j] > 0 => Announced(j)'
    BY <2>1 DEF IInv, KeysAnnounced, Announced
  <2>3. InboxInv' /\ KeysAnnounced'
    BY <2>1, <2>2, OutboxSideKeeps
  <2> QED BY <2>1, <2>3, <1>7 DEF IInv
<1>12. ASSUME InboxStep PROVE IInv' /\ [Promise!Next]_(Promise!vars)
  <2>1. UNCHANGED <<row, job, changed, producer, bus>>
    BY <1>12 DEF InboxStep, outboxVars
  <2>2. bus \in [Keys -> Nat] /\ \A j \in Keys : bus'[j] <= bus[j]
    BY <2>1 DEF IInv, KeysAnnounced
  <2>3. ASSUME NEW c \in Calls, NEW k \in Keys, I!FindForReset(c, k)
        PROVE  InboxInv' /\ KeysAnnounced' /\ Same
    <3>1. Announced(k) /\ UNCHANGED <<effects, everFailed>>
      BY <2>3 DEF I!FindForReset, IInv, KeysAnnounced
    <3> QED BY <2>1, <2>2, <2>3, <3>1, LookupKeeps DEF IInv
  <2>4. ASSUME NEW c \in Calls, I!Claim(c) \/ I!HandleFails(c) \/ I!SaveCompletedThrows(c)
        PROVE  InboxInv' /\ KeysAnnounced' /\ Same
    <3>1. UNCHANGED <<effects, everFailed>>
      BY <2>4 DEF I!Claim, I!HandleFails, I!SaveCompletedThrows
    <3> QED BY <2>1, <2>4, <3>1, ClaimKeeps, FailureKeeps DEF IInv
  <2>5. ASSUME NEW c \in Calls, I!Handle(c) PROVE InboxInv' /\ KeysAnnounced' /\ Promise!Next
    <3>1. /\ InboxInv' /\ KeysAnnounced'
          /\ \E k \in Keys : Announced(k) /\ (effects[k] = 0 \/ k \in everFailed)
               /\ effects' = [effects EXCEPT ![k] = effects[k] + 1] /\ UNCHANGED everFailed
      BY <2>1, <2>5, HandleKeeps DEF IInv
    <3> QED BY <2>1, <3>1 DEF Promise!Next, Promise!Take, Announced
  <2>6. ASSUME NEW c \in Calls,
               I!ClaimLosesRace(c) \/ I!SaveCompleted(c) \/ I!SaveFailed(c) \/ I!SaveReset(c) \/ I!Abort(c)
        PROVE  InboxInv' /\ KeysAnnounced' /\ [Promise!Next]_(Promise!vars)
    <3>1. /\ InboxInv' /\ KeysAnnounced' /\ UNCHANGED effects
          /\ \/ UNCHANGED everFailed
             \/ \E k \in Keys : Announced(k) /\ everFailed' = everFailed \cup {k}
      BY <2>1, <2>6, ReturnKeeps DEF IInv
    <3> QED BY <1>0, <2>1, <3>1 DEF Promise!Next, Promise!Fail, Announced
  <2>7. OutboxInv'
    BY <2>1, <1>7
  <2> QED BY <1>0, <1>12, <2>3, <2>4, <2>5, <2>6, <2>7 DEF InboxStep, IInv
<1> QED
  BY <1>0, <1>1, <1>2, <1>3, <1>4, <1>5, <1>6, <1>9, <1>10, <1>11, <1>12 DEF Next

\* The effects of events follow the changes they announce, and repeat only for
\* keys with a recorded failure, however often rows are emitted and wherever
\* calls are cut short (outbox.service.ts, inbox.service.ts).
THEOREM DeliveryRefinesReliableEvents == Spec => RefinesReliableEvents
BY InitIInv, NextIInv, PTL DEF Spec, RefinesReliableEvents, Promise!Spec
=============================================================================
