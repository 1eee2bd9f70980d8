--------------------------- MODULE EventDelivery ----------------------------
(***************************************************************************)
(* The way of an event from a domain service to a listener of another      *)
(* domain.  The producer stores its business change, then calls publish;   *)
(* the outbox emits the event in the process; the listener hands it to     *)
(* executeOnce.  Composes Outbox and Inbox.                                *)
(*                                                                         *)
(* emit() returns as soon as the listeners have reached their first await, *)
(* so an emitted event is a delivery in memory until executeOnce has       *)
(* looked its key up; listeners catch and log what executeOnce throws.     *)
(***************************************************************************)
EXTENDS Naturals

CONSTANTS
  Events, Workers, MaxAttempts, BatchLimit, MaxCommands, MaxAborts,   \* Outbox
  Keys, Calls, MaxDeliveries, MaxResets, MaxFaults,                   \* Inbox
  KeyOf,      \* event -> its message key, the hash of its payload
  MaxRetries  \* bound: operator retries

ASSUME EventDeliveryAssumption ==
  /\ KeyOf \in [Events -> Keys]
  /\ MaxRetries \in Nat

VARIABLES
  row, created, job, emitted, buried, commands, aborts,                       \* Outbox
  inbox, call, effects, everFailed, abandoned, deliveries, resets, faults,    \* Inbox
  changed,  \* events whose business change is stored
  producer, \* event -> whether its service call is between save and publish
  bus,      \* key -> deliveries that wait for the lookup of executeOnce
  retries,  \* operator retries so far
  lost      \* keys of which a crash destroyed an event or a delivery

outboxVars == <<row, created, job, emitted, buried, commands, aborts>>
inboxVars == <<inbox, call, effects, everFailed, abandoned, deliveries, resets, faults>>
vars == <<outboxVars, inboxVars, changed, producer, bus, retries, lost>>

O == INSTANCE Outbox
I == INSTANCE Inbox

Init ==
  /\ O!Init
  /\ I!Init
  /\ changed = {}
  /\ producer = [e \in Events |-> FALSE]
  /\ bus = [k \in Keys |-> 0]
  /\ retries = 0
  /\ lost = {}

-----------------------------------------------------------------------------
\* The service saves the business change ...
SaveChange(e) ==
  /\ e \notin changed
  /\ changed' = changed \cup {e}
  /\ producer' = [producer EXCEPT ![e] = TRUE]
  /\ UNCHANGED <<outboxVars, inboxVars, bus, retries, lost>>

\* ... and, in a later transaction, publishes the event.
PublishChange(w, e) ==
  /\ producer[e]
  /\ producer' = [producer EXCEPT ![e] = FALSE]
  /\ O!Publish(w, e)
  /\ UNCHANGED <<inboxVars, changed, bus, retries, lost>>

\* The service call ends between the two: nothing remembers the event.
ProducerCrashes(e) ==
  /\ producer[e]
  /\ aborts < MaxAborts
  /\ producer' = [producer EXCEPT ![e] = FALSE]
  /\ lost' = lost \cup {KeyOf[e]}
  /\ aborts' = aborts + 1
  /\ UNCHANGED <<row, created, job, emitted, buried, commands, inboxVars, changed, bus, retries>>

\* The dispatcher hands the event to the listener.
EmitToListener(w) ==
  /\ O!Emit(w)
  /\ bus' = [bus EXCEPT ![KeyOf[job[w].todo[1].event]] = @ + 1]
  /\ UNCHANGED <<inboxVars, changed, producer, retries, lost>>

\* The other steps of the outbox do not touch the bus.
OutboxStep ==
  /\ \/ \E w \in Workers, e \in Events : O!FindForReplay(w, e) \/ O!FindForDeadLetter(w, e)
     \/ \E w \in Workers :
          \/ O!FetchBatch(w) \/ O!EmitThrows(w) \/ O!SaveDispatch(w)
          \/ O!SaveReplay(w) \/ O!SaveDeadLetter(w) \/ O!Abort(w)
     \/ \E e \in Events : O!BackoffElapses(e)
  /\ UNCHANGED <<inboxVars, changed, producer, bus, retries, lost>>

\* executeOnce looks the key up and goes on ...
Listen(c, k) ==
  /\ bus[k] > 0
  /\ bus' = [bus EXCEPT ![k] = @ - 1]
  /\ I!Find(c, k)
  /\ UNCHANGED <<outboxVars, changed, producer, retries, lost>>

\* ... or returns false.
ListenSkips(k) ==
  /\ bus[k] > 0
  /\ I!Duplicate(k)
  /\ bus' = [bus EXCEPT ![k] = @ - 1]
  /\ UNCHANGED <<outboxVars, inboxVars, changed, producer, retries, lost>>

\* The process ends, or the lookup is rejected, before executeOnce knows.
DeliveryLost(k) ==
  /\ bus[k] > 0
  /\ faults < MaxFaults
  /\ bus' = [bus EXCEPT ![k] = @ - 1]
  /\ lost' = lost \cup {k}
  /\ faults' = faults + 1
  /\ UNCHANGED <<outboxVars, inbox, call, effects, everFailed, abandoned, deliveries, resets,
                 changed, producer, retries>>

\* The other steps of the inbox do not touch the bus.
InboxStep ==
  /\ \/ \E c \in Calls, k \in Keys : I!FindForReset(c, k)
     \/ \E c \in Calls :
          \/ I!Claim(c) \/ I!ClaimLosesRace(c) \/ I!Handle(c) \/ I!HandleFails(c)
          \/ I!SaveCompleted(c) \/ I!SaveCompletedThrows(c) \/ I!SaveFailed(c)
          \/ I!SaveReset(c) \/ I!Abort(c)
  /\ UNCHANGED <<outboxVars, changed, producer, bus, retries, lost>>

\* retryMessage emits the event of a stored message again.
RetryMessage(k) ==
  /\ inbox[k] # "absent"
  /\ retries < MaxRetries
  /\ bus' = [bus EXCEPT ![k] = @ + 1]
  /\ retries' = retries + 1
  /\ UNCHANGED <<outboxVars, inboxVars, changed, producer, lost>>

Next ==
  \/ \E e \in Events : SaveChange(e) \/ ProducerCrashes(e)
  \/ \E w \in Workers, e \in Events : PublishChange(w, e)
  \/ \E w \in Workers : EmitToListener(w)
  \/ \E c \in Calls, k \in Keys : Listen(c, k)
  \/ \E k \in Keys : ListenSkips(k) \/ DeliveryLost(k) \/ RetryMessage(k)
  \/ OutboxStep
  \/ InboxStep

Spec == Init /\ [][Next]_vars

\* Service calls, dispatchers and listeners that run go on, the cron ticks and
\* backoffs elapse.  Nothing forces an operator to act.
Fairness ==
  /\ \A e \in Events :
       /\ WF_vars(\E w \in Workers : PublishChange(w, e))
       /\ WF_vars(O!BackoffElapses(e) /\ OutboxStep)
  /\ \A w \in Workers :
       /\ WF_vars(EmitToListener(w) \/ (O!EmitThrows(w) /\ OutboxStep))
       /\ WF_vars((O!SaveDispatch(w) \/ O!SaveReplay(w) \/ O!SaveDeadLetter(w)) /\ OutboxStep)
  /\ WF_vars((\E w \in Workers : O!FetchBatch(w)) /\ OutboxStep)
  /\ \A k \in Keys : WF_vars(ListenSkips(k) \/ \E c \in Calls : Listen(c, k))
  /\ \A c \in Calls : WF_vars(I!Progress(c) /\ InboxStep)

FairSpec == Spec /\ Fairness

-----------------------------------------------------------------------------
\* Together, Outbox and Inbox implement what ReliableEvents promises: effects
\* follow changes, and repeat only for keys with a recorded failure, although
\* the dispatcher emits an event more than once (publish racing the cron job,
\* a crash between emit and save, replay).
Promise == INSTANCE ReliableEvents WITH failed <- everFailed

RefinesReliableEvents == Promise!Spec

\* Every stored change reaches its listener's effect, or it is left where an
\* operator sees it (dead letter, failed message), unless a crash destroyed it
\* on the way.
HandledOrReported ==
  \A e \in Events :
    e \in changed ~>
      \/ effects[KeyOf[e]] > 0
      \/ inbox[KeyOf[e]] = "failed"
      \/ row[e].status = "dead_letter"
      \/ KeyOf[e] \in lost \cup abandoned
=============================================================================
