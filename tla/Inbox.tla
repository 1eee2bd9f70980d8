------------------------------- MODULE Inbox --------------------------------
(***************************************************************************)
(* The inbox of the backend (src/apps/backend/src/modules/inbox):          *)
(* executeOnce is meant to run a listener's handler once per message key,  *)
(* however often the event is delivered.  A key is                         *)
(* consumer:eventType:hash(payload); inbox_messages has a unique index on  *)
(* it.                                                                     *)
(*                                                                         *)
(* Each delivery is a call whose database round trips are separate steps,  *)
(* so calls for the same key interleave, in one process or in two          *)
(* replicas.  attempts and last_error are columns nothing decides on and   *)
(* are left out.                                                           *)
(***************************************************************************)
EXTENDS Naturals

CONSTANTS
  Keys,          \* message keys
  Calls,         \* concurrent executeOnce and resetMessage calls
  MaxDeliveries, \* bound: deliveries that get past the first lookup
  MaxResets,     \* bound: operator resets
  MaxFaults      \* bound: crashes and rejected queries

ASSUME InboxAssumption ==
  MaxDeliveries \in Nat /\ MaxResets \in Nat /\ MaxFaults \in Nat

VARIABLES
  inbox,      \* inbox_messages: key -> status, "absent" when there is no row
  call,       \* call -> what it does next, for which key, and what it found
  effects,    \* key -> how often its handler has run to the end
  everFailed, \* keys whose row has been 'failed'
  abandoned,  \* keys one of whose calls was cut short
  deliveries, \* deliveries so far
  resets,     \* operator resets so far
  faults      \* crashes and rejected queries so far

vars == <<inbox, call, effects, everFailed, abandoned, deliveries, resets, faults>>

Statuses == {"absent", "processing", "completed", "failed"}

\* found tells whether findOne returned a row: save() then updates that row,
\* and inserts a new one otherwise.
Busy == [pc: {"claim", "handle", "complete", "fail", "reset"},
         key: Keys, found: BOOLEAN]

Idle == [pc |-> "idle"]

TypeOK ==
  /\ inbox \in [Keys -> Statuses]
  /\ call \in [Calls -> Busy \cup {Idle}]
  /\ effects \in [Keys -> Nat]
  /\ everFailed \subseteq Keys
  /\ abandoned \subseteq Keys
  /\ deliveries \in 0..MaxDeliveries
  /\ resets \in 0..MaxResets
  /\ faults \in 0..MaxFaults

Init ==
  /\ inbox = [k \in Keys |-> "absent"]
  /\ call = [c \in Calls |-> Idle]
  /\ effects = [k \in Keys |-> 0]
  /\ everFailed = {}
  /\ abandoned = {}
  /\ deliveries = 0
  /\ resets = 0
  /\ faults = 0

-----------------------------------------------------------------------------
\* The call goes on at pc.
Goto(c, pc) ==
  call' = [call EXCEPT ![c] = [pc |-> pc, key |-> call[c].key, found |-> call[c].found]]

Return(c) == call' = [call EXCEPT ![c] = Idle]

\* The early return of executeOnce: such a delivery changes nothing.
Duplicate(k) == inbox[k] \in {"completed", "processing"}

\* executeOnce: findOne by message key.
Find(c, k) ==
  /\ call[c].pc = "idle"
  /\ deliveries < MaxDeliveries
  /\ ~Duplicate(k)
  /\ call' = [call EXCEPT ![c] =
       [pc |-> "claim", key |-> k, found |-> inbox[k] # "absent"]]
  /\ deliveries' = deliveries + 1
  /\ UNCHANGED <<inbox, effects, everFailed, abandoned, resets, faults>>

\* The first save: the row says 'processing', and the handler starts.
ClaimUpserts(c) ==
  /\ call[c].pc = "claim"
  /\ inbox' = [inbox EXCEPT ![call[c].key] = "processing"]
  /\ Goto(c, "handle")
  /\ UNCHANGED <<effects, everFailed, abandoned, deliveries, resets, faults>>

Claim(c) ==
  /\ call[c].pc = "claim"
  /\ call[c].found \/ inbox[call[c].key] = "absent"
  /\ inbox' = [inbox EXCEPT ![call[c].key] = "processing"]
  /\ Goto(c, "handle")
  /\ UNCHANGED <<effects, everFailed, abandoned, deliveries, resets, faults>>

\* The insert violates uq_inbox_messages_key: executeOnce throws.
ClaimLosesRace(c) ==
  /\ call[c].pc = "claim"
  /\ ~call[c].found
  /\ inbox[call[c].key] # "absent"
  /\ Return(c)
  /\ UNCHANGED <<inbox, effects, everFailed, abandoned, deliveries, resets, faults>>

\* The handler resolves ...
Handle(c) ==
  /\ call[c].pc = "handle"
  /\ effects' = [effects EXCEPT ![call[c].key] = @ + 1]
  /\ Goto(c, "complete")
  /\ UNCHANGED <<inbox, everFailed, abandoned, deliveries, resets, faults>>

\* ... or rejects.
HandleFailsSilently(c) ==
  /\ call[c].pc = "handle"
  /\ Goto(c, "complete")
  /\ UNCHANGED <<inbox, effects, everFailed, abandoned, deliveries, resets, faults>>

HandleFails(c) ==
  /\ call[c].pc = "handle"
  /\ Goto(c, "fail")
  /\ UNCHANGED <<inbox, effects, everFailed, abandoned, deliveries, resets, faults>>

SaveCompleted(c) ==
  /\ call[c].pc = "complete"
  /\ inbox' = [inbox EXCEPT ![call[c].key] = "completed"]
  /\ Return(c)
  /\ UNCHANGED <<effects, everFailed, abandoned, deliveries, resets, faults>>

\* The save of 'completed' is inside the try block: if the query is rejected
\* the catch block marks the message 'failed' although the handler has run.
SaveCompletedThrows(c) ==
  /\ call[c].pc = "complete"
  /\ faults < MaxFaults
  /\ Goto(c, "fail")
  /\ faults' = faults + 1
  /\ UNCHANGED <<inbox, effects, everFailed, abandoned, deliveries, resets>>

\* The catch block saves 'failed' and rethrows.
SaveFailedAsPending(c) ==
  /\ call[c].pc = "fail"
  /\ inbox' = [inbox EXCEPT ![call[c].key] = "pending"]
  /\ everFailed' = everFailed \cup {call[c].key}
  /\ Return(c)
  /\ UNCHANGED <<effects, abandoned, deliveries, resets, faults>>

SaveFailedForgotten(c) ==
  /\ call[c].pc = "fail"
  /\ Return(c)
  /\ UNCHANGED <<inbox, effects, everFailed, abandoned, deliveries, resets, faults>>

SaveFailed(c) ==
  /\ call[c].pc = "fail"
  /\ inbox' = [inbox EXCEPT ![call[c].key] = "failed"]
  /\ everFailed' = everFailed \cup {call[c].key}
  /\ Return(c)
  /\ UNCHANGED <<effects, abandoned, deliveries, resets, faults>>

\* resetMessage: findOne by id ...
FindForReset(c, k) ==
  /\ call[c].pc = "idle"
  /\ resets < MaxResets
  /\ inbox[k] # "absent"
  /\ call' = [call EXCEPT ![c] = [pc |-> "reset", key |-> k, found |-> TRUE]]
  /\ resets' = resets + 1
  /\ UNCHANGED <<inbox, effects, everFailed, abandoned, deliveries, faults>>

\* ... and save as 'failed', so that the next delivery runs the handler again.
SaveReset(c) ==
  /\ call[c].pc = "reset"
  /\ inbox' = [inbox EXCEPT ![call[c].key] = "failed"]
  /\ everFailed' = everFailed \cup {call[c].key}
  /\ Return(c)
  /\ UNCHANGED <<effects, abandoned, deliveries, resets, faults>>

\* The process stops, or a query outside the try block is rejected.
Abort(c) ==
  /\ call[c].pc # "idle"
  /\ faults < MaxFaults
  /\ abandoned' = abandoned \cup {call[c].key}
  /\ Return(c)
  /\ faults' = faults + 1
  /\ UNCHANGED <<inbox, effects, everFailed, deliveries, resets>>

Next ==
  \/ \E c \in Calls, k \in Keys : Find(c, k) \/ FindForReset(c, k)
  \/ \E c \in Calls :
       \/ Claim(c) \/ ClaimLosesRace(c) \/ Handle(c) \/ HandleFails(c)
       \/ SaveCompleted(c) \/ SaveCompletedThrows(c) \/ SaveFailed(c)
       \/ SaveReset(c) \/ Abort(c)

Spec == Init /\ [][Next]_vars

\* A call that is running goes on; nothing forces a redelivery.
Progress(c) ==
  \/ Claim(c) \/ ClaimLosesRace(c) \/ Handle(c) \/ HandleFails(c)
  \/ SaveCompleted(c) \/ SaveFailed(c) \/ SaveReset(c)

FairSpec == Spec /\ \A c \in Calls : WF_vars(Progress(c))

-----------------------------------------------------------------------------
\* A message is recorded as completed only if its handler has run to the end,
\* whichever of several racing calls wrote the row last (inbox.service.ts:81).
CompletedHadEffect == \A k \in Keys : inbox[k] = "completed" => effects[k] >= 1

\* As long as a message has never been 'failed', however many deliveries race
\* from the first lookup on and wherever they are cut short, its handler runs
\* to the end at most once (inbox.service.ts:55-78 and the unique index).
OnceUnlessFailed == \A k \in Keys : k \notin everFailed => effects[k] <= 1

\* Deliveries are skipped while a row says 'processing' (inbox.service.ts:56),
\* so somebody must be going to change it: the row is owned by a running call
\* unless a call for the key was cut short.
ProcessingIsOwned ==
  \A k \in Keys :
    inbox[k] = "processing" =>
      \/ k \in abandoned
      \/ \E c \in Calls : call[c].pc \in {"handle", "complete", "fail"} /\ call[c].key = k

\* Every claim ends in a verdict, unless the process dies meanwhile.
EventuallyJudged ==
  \A k \in Keys :
    inbox[k] = "processing" ~> inbox[k] \in {"completed", "failed"} \/ k \in abandoned
=============================================================================
