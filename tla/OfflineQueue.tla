---------------------------- MODULE OfflineQueue ----------------------------
(***************************************************************************)
(* The queue of the field application (src/apps/field-pwa): a request that *)
(* fails while the browser is offline is kept in IndexedDB, and drains     *)
(* send the queue again: two started by the page for every 'online' event  *)
(* (the listener of lib/sync.ts and the callback App.tsx gives it), one by *)
(* the SyncStatus panel, one by the service worker (sw.ts).                *)
(*                                                                         *)
(* Drains know nothing of each other: each takes a copy of the queue and   *)
(* sends the operations of its copy one after the other.  The server has   *)
(* no idempotency key, so it may apply an operation twice; resendable are  *)
(* those for which one of the known reasons exists: two drains had it in   *)
(* their copies, an answer was lost, or the page was closed before the     *)
(* answer was recorded.                                                    *)
(***************************************************************************)
EXTENDS Naturals, FiniteSets, FiniteSetsExt

CONSTANTS
  PageDrains,      \* drains of the page and of its panel
  WorkerDrain,     \* the drain of the service worker
  MAX_ATTEMPTS,    \* lib/sync.ts:12, sw.ts:113
  MaxOps,          \* bound: operations that are queued
  MaxBreaks,       \* bound: times the connection breaks
  MaxCloses        \* bound: times the page is closed

ASSUME OfflineQueueAssumption ==
  /\ WorkerDrain \notin PageDrains /\ IsFiniteSet(PageDrains)
  /\ MAX_ATTEMPTS \in Nat \ {0}
  /\ MaxOps \in Nat /\ MaxBreaks \in Nat /\ MaxCloses \in Nat

VARIABLES
  online, open,      \* navigator.onLine; whether the page is open
  request,           \* the request of the form that is being submitted
  queued, attempts,  \* the operations in IndexedDB, by id
  enqueued,          \* how many ids have been given
  syncTag,           \* the sync tag is registered with the browser
  dueDrains,         \* drains of the page that have been called
  drain,             \* drain -> what is left of its copy; the last answer
  applied,           \* id -> times the server applied it (2: more than once)
  delivered,         \* ids that the server applied for a drain
  resendable,           \* ids that may have been applied twice
  breaks, closes

queueVars == <<online, open, request, queued, attempts, enqueued, syncTag, dueDrains, drain,
               applied, delivered, resendable, breaks, closes>>

OpIds == 1..MaxOps
Drains == PageDrains \cup {WorkerDrain}
DrainStates == [left: SUBSET OpIds, answer: {"none", "ok", "error"}]
IdleDrain == [left |-> {}, answer |-> "none"]
RequestStates == {"idle", "sent", "reached", "store", "storeApplied", "queued"}

OfflineQueueTypeOK ==
  /\ online \in BOOLEAN /\ open \in BOOLEAN /\ syncTag \in BOOLEAN
  /\ request \in RequestStates
  /\ enqueued \in 0..MaxOps /\ queued \subseteq 1..enqueued
  /\ attempts \in [OpIds -> 0..MAX_ATTEMPTS + Cardinality(Drains)]
  /\ dueDrains \subseteq PageDrains
  /\ drain \in [Drains -> DrainStates]
  /\ \A d \in Drains: drain[d].answer /= "none" => drain[d].left /= {}
  /\ applied \in [OpIds -> 0..2]
  /\ delivered \subseteq 1..enqueued /\ resendable \subseteq 1..enqueued
  /\ breaks \in 0..MaxBreaks /\ closes \in 0..MaxCloses

OfflineQueueInit ==
  /\ online = TRUE /\ open = TRUE /\ syncTag = FALSE
  /\ request = "idle"
  /\ queued = {} /\ attempts = [i \in OpIds |-> 0] /\ enqueued = 0
  /\ dueDrains = {} /\ drain = [d \in Drains |-> IdleDrain]
  /\ applied = [i \in OpIds |-> 0]
  /\ delivered = {} /\ resendable = {}
  /\ breaks = 0 /\ closes = 0

(***************************************************************************)
(* The request of a form.  It may be sent without a connection, or reach   *)
(* the server and lose its answer; only a failure that is noticed offline  *)
(* is queued, any other is shown to the user.                              *)
(***************************************************************************)
SubmitForm ==
  /\ open /\ request = "idle" /\ enqueued < MaxOps
  /\ request' = IF online THEN "reached" ELSE "sent"
  /\ UNCHANGED <<online, open, queued, attempts, enqueued, syncTag, dueDrains, drain, applied,
                 delivered, resendable, breaks, closes>>

FormAnswered ==
  /\ open /\ request = "reached" /\ online
  /\ request' = "idle"
  /\ UNCHANGED <<online, open, queued, attempts, enqueued, syncTag, dueDrains, drain, applied,
                 delivered, resendable, breaks, closes>>

FormFails ==
  /\ open /\ request \in {"sent", "reached"}
  /\ IF online THEN request' = "idle"
     ELSE request' \in {"store"} \cup (IF request = "reached" THEN {"storeApplied"} ELSE {})
  /\ UNCHANGED <<online, open, queued, attempts, enqueued, syncTag, dueDrains, drain, applied,
                 delivered, resendable, breaks, closes>>

\* enqueueOperation, some time after the check of navigator.onLine
EnqueueOperation ==
  LET id == enqueued + 1 IN
  /\ open /\ request \in {"store", "storeApplied"}
  /\ enqueued' = id /\ queued' = queued \cup {id}
  /\ request' = "queued"
  /\ IF request = "storeApplied"
       THEN applied' = [applied EXCEPT ![id] = 1] /\ resendable' = resendable \cup {id}
       ELSE UNCHANGED <<applied, resendable>>
  /\ UNCHANGED <<online, open, attempts, syncTag, dueDrains, drain, delivered, breaks, closes>>

\* the sync tag is registered with the browser, then the user is told
RegisterSync ==
  /\ open /\ request = "queued"
  /\ syncTag' = TRUE /\ request' = "idle"
  /\ UNCHANGED <<online, open, queued, attempts, enqueued, dueDrains, drain, applied, delivered,
                 resendable, breaks, closes>>

(***************************************************************************)
(* Drains.  A drain of the page that finds the browser offline ends at     *)
(* once; the browser starts the drain of the worker when it is online and  *)
(* the tag is registered.                                                  *)
(***************************************************************************)
Sendable == {i \in queued: attempts[i] < MAX_ATTEMPTS}
InCopies == UNION {drain[d].left: d \in Drains}

TakeCopy(d) ==
  /\ drain' = [drain EXCEPT ![d].left = Sendable]
  /\ resendable' = resendable \cup (Sendable \cap InCopies)

StartPageDrain(d) ==
  /\ open /\ d \in dueDrains /\ drain[d] = IdleDrain
  /\ dueDrains' = dueDrains \ {d}
  /\ IF online THEN TakeCopy(d) ELSE UNCHANGED <<drain, resendable>>
  /\ UNCHANGED <<online, open, request, queued, attempts, enqueued, syncTag, applied,
                 delivered, breaks, closes>>

StartWorkerDrain ==
  /\ online /\ syncTag /\ drain[WorkerDrain] = IdleDrain
  /\ syncTag' = FALSE
  /\ TakeCopy(WorkerDrain)
  /\ UNCHANGED <<online, open, request, queued, attempts, enqueued, dueDrains, applied, delivered,
                 breaks, closes>>

NextInCopy(left) == Min(left)

\* the request of the next operation: refused, applied, or applied with its answer lost
SendNext(d) ==
  LET id == NextInCopy(drain[d].left) IN
  /\ drain[d].left /= {} /\ drain[d].answer = "none"
  /\ \E apply \in {FALSE, online}, answer \in {"ok", "error"}:
       /\ answer = "ok" => apply
       /\ drain' = [drain EXCEPT ![d].answer = answer]
       /\ IF apply
            THEN /\ applied' = [applied EXCEPT ![id] = IF @ = 0 THEN 1 ELSE 2]
                 /\ delivered' = delivered \cup {id}
            ELSE UNCHANGED <<applied, delivered>>
       /\ resendable' = IF apply /\ answer = "error" THEN resendable \cup {id} ELSE resendable
  /\ UNCHANGED <<online, open, request, queued, attempts, enqueued, syncTag, dueDrains, breaks, closes>>

\* deletePendingOperation and incrementAttempts
DeleteOperationNever(id) == UNCHANGED <<queued, attempts>>
DeleteOperation(id) == queued' = queued \ {id} /\ UNCHANGED attempts

IncrementAttempts(id) ==
  /\ attempts' = [attempts EXCEPT ![id] = IF id \in queued THEN @ + 1 ELSE @]
  /\ UNCHANGED queued

RecordAnswer(d) ==
  LET id == NextInCopy(drain[d].left) IN
  /\ drain[d].answer /= "none"
  /\ IF drain[d].answer = "ok" THEN DeleteOperation(id) ELSE IncrementAttempts(id)
  /\ drain' = [drain EXCEPT ![d] = [left |-> @.left \ {id}, answer |-> "none"]]
  /\ UNCHANGED <<online, open, request, enqueued, syncTag, dueDrains, applied, delivered,
                 resendable, breaks, closes>>

\* the button of the panel
SyncNow(d) ==
  /\ open /\ online /\ queued /= {} /\ drain[d] = IdleDrain
  /\ dueDrains' = dueDrains \cup {d}
  /\ UNCHANGED <<online, open, request, queued, attempts, enqueued, syncTag, drain, applied,
                 delivered, resendable, breaks, closes>>

(***************************************************************************)
(* The connection and the page.                                            *)
(***************************************************************************)
GoOffline ==
  /\ online /\ breaks < MaxBreaks
  /\ online' = FALSE /\ breaks' = breaks + 1
  /\ UNCHANGED <<open, request, queued, attempts, enqueued, syncTag, dueDrains, drain, applied,
                 delivered, resendable, closes>>

\* the 'online' event calls every drain of an open page
CalledWhenOnline == IF open THEN PageDrains ELSE {}

GoOnline ==
  /\ ~online
  /\ online' = TRUE
  /\ dueDrains' = dueDrains \cup CalledWhenOnline
  /\ UNCHANGED <<open, request, queued, attempts, enqueued, syncTag, drain, applied,
                 delivered, resendable, breaks, closes>>

\* what the page was doing ends; an answer that was not recorded is forgotten
ClosePage ==
  /\ open /\ closes < MaxCloses
  /\ open' = FALSE /\ closes' = closes + 1
  /\ request' = "idle" /\ dueDrains' = {}
  /\ drain' = [d \in Drains |-> IF d \in PageDrains THEN IdleDrain ELSE drain[d]]
  /\ resendable' = resendable \cup {NextInCopy(drain[d].left): d \in {e \in PageDrains: drain[e].answer = "ok"}}
  /\ UNCHANGED <<online, queued, attempts, enqueued, syncTag, applied, delivered, breaks>>

OpenPage ==
  /\ ~open
  /\ open' = TRUE
  /\ dueDrains' = IF online THEN PageDrains ELSE {}
  /\ UNCHANGED <<online, request, queued, attempts, enqueued, syncTag, drain, applied,
                 delivered, resendable, breaks, closes>>

-----------------------------------------------------------------------------
DrainStep(d) ==
  \/ d \in PageDrains /\ StartPageDrain(d)
  \/ d = WorkerDrain /\ StartWorkerDrain
  \/ SendNext(d) \/ RecordAnswer(d)

RequestStep == FormAnswered \/ FormFails \/ EnqueueOperation \/ RegisterSync

OfflineQueueNext ==
  \/ SubmitForm \/ RequestStep
  \/ \E d \in Drains: DrainStep(d)
  \/ \E d \in PageDrains: SyncNow(d)
  \/ GoOffline \/ GoOnline \/ ClosePage \/ OpenPage

OfflineQueueSpec ==
  /\ OfflineQueueInit /\ [][OfflineQueueNext]_queueVars
  /\ WF_queueVars(RequestStep)
  /\ \A d \in Drains: WF_queueVars(DrainStep(d))

-----------------------------------------------------------------------------
\* An operation the user was told is saved is in the queue until the server has
\* applied it, whatever drains fail, overlap or are closed (lib/sync.ts:21-58,
\* sw.ts:107-137): also an operation that is given up stays for the user.
NothingIsForgotten ==
  \A i \in 1..enqueued: i \in queued \/ applied[i] > 0

\* The server applies an operation twice only if two drains had it in their
\* copies, an answer was lost, or the page was closed before it was recorded.
OnceUnlessExcused ==
  \A i \in 1..enqueued: applied[i] > 1 => i \in resendable

\* A later operation overtakes an earlier one only after an attempt to send the
\* earlier one has failed: drains go through their copies in order of storing.
OvertakenHadFailed ==
  \A j \in delivered: \A i \in 1..(j - 1): applied[i] > 0 \/ attempts[i] > 0

\* The three together: what a user has stored in the field reaches the server, in
\* order and once, but for known reasons (lib/sync.ts, sw.ts).
SyncForgetsNothing == NothingIsForgotten /\ OnceUnlessExcused /\ OvertakenHadFailed

\* An operation that waits while the connection is there and the page is open is
\* sent, also if it was stored after the 'online' event had been handled: then
\* the tag registered with the browser starts the drain of the worker
\* (lib/api.ts:31-53).
WaitingIsTried ==
  online /\ open => \A i \in queued : attempts[i] > 0

=============================================================================
