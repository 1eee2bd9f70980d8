---------------------------- MODULE InboxProofs -----------------------------
(***************************************************************************)
(* The safety of Inbox for any number of keys, deliveries, resets and      *)
(* faults.  Up to the first 'failed' of a key the unique index serialises  *)
(* its deliveries: one call gets through the insert, and the handler has   *)
(* not run before it does.  That argument is the invariant FirstRun.       *)
(***************************************************************************)
EXTENDS Inbox, TLAPS

\* The call has claimed its key and still owes a verdict.
Owner(c, k) == call[c].pc \in {"handle", "complete", "fail"} /\ call[c].key = k

\* A call about to save 'completed' has run the handler.
CompleteHadEffect ==
  \A c \in Calls : call[c].pc = "complete" => effects[call[c].key] >= 1

\* What holds of a key that has never been 'failed'.
FirstRun ==
  \A k \in Keys : k \notin everFailed =>
    /\ inbox[k] # "failed"
    /\ \A c \in Calls : call[c].pc = "claim" /\ call[c].key = k => ~call[c].found
    /\ inbox[k] = "absent" => effects[k] = 0 /\ \A c \in Calls : ~Owner(c, k)
    /\ \A c, d \in Calls : Owner(c, k) /\ Owner(d, k) => c = d
    /\ \A c \in Calls : call[c].pc = "handle" /\ call[c].key = k => effects[k] = 0

\* The inductive invariant.
IInv == /\ TypeOK
        /\ CompleteHadEffect
        /\ CompletedHadEffect
        /\ FirstRun
        /\ OnceUnlessFailed
        /\ ProcessingIsOwned

\* A call that is not idle knows its key.
LEMMA BusyCall ==
  ASSUME TypeOK, NEW c \in Calls, call[c].pc # "idle"
  PROVE  call[c] \in Busy /\ call[c].key \in Keys
BY DEF TypeOK, Busy, Idle

\* The initial state satisfies the inductive invariant.
LEMMA InitIInv == Init => IInv
BY InboxAssumption DEF Init, IInv, TypeOK, Statuses, Idle, CompleteHadEffect,
   CompletedHadEffect, FirstRun, Owner, OnceUnlessFailed, ProcessingIsOwned

\* Every step preserves it.
LEMMA NextIInv == IInv /\ [Next]_vars => IInv'
<1> SUFFICES ASSUME IInv, [Next]_vars PROVE IInv'
  OBVIOUS
<1> USE InboxAssumption
<1>1. CASE UNCHANGED vars
  BY <1>1 DEF vars, IInv, TypeOK, CompleteHadEffect, CompletedHadEffect, FirstRun,
     Owner, OnceUnlessFailed, ProcessingIsOwned
<1>2. ASSUME NEW c \in Calls, NEW k \in Keys, Find(c, k) \/ FindForReset(c, k) PROVE IInv'
  <2>1. /\ call[c].pc = "idle"
        /\ UNCHANGED <<inbox, effects, everFailed, abandoned>>
        /\ \E p \in {"claim", "reset"}, f \in BOOLEAN :
             /\ call' = [call EXCEPT ![c] = [pc |-> p, key |-> k, found |-> f]]
             /\ p = "claim" => f = (inbox[k] # "absent") /\ ~Duplicate(k)
    BY <1>2 DEF Find, FindForReset
  <2>2. TypeOK'
    BY <1>2, <2>1 DEF Find, FindForReset, IInv, TypeOK, Busy
  <2>3. CompleteHadEffect' /\ CompletedHadEffect' /\ OnceUnlessFailed' /\ ProcessingIsOwned'
    BY <2>1 DEF IInv, TypeOK, CompleteHadEffect, CompletedHadEffect, OnceUnlessFailed,
       ProcessingIsOwned
  <2>4. FirstRun'
    BY <2>1 DEF IInv, TypeOK, FirstRun, Owner, Duplicate, Statuses
  <2> QED BY <2>2, <2>3, <2>4 DEF IInv
<1>3. ASSUME NEW c \in Calls, Claim(c) PROVE IInv'
  <2> DEFINE k == call[c].key
  <2>1. call[c] \in Busy /\ k \in Keys /\ call[c].pc = "claim"
    BY <1>3, BusyCall DEF Claim, IInv
  <2>2. /\ inbox' = [inbox EXCEPT ![k] = "processing"]
        /\ call' = [call EXCEPT ![c] = [pc |-> "handle", key |-> k, found |-> call[c].found]]
        /\ UNCHANGED <<effects, everFailed, abandoned, deliveries, resets, faults>>
        /\ call[c].found \/ inbox[k] = "absent"
    BY <1>3 DEF Claim, Goto
  <2>3. TypeOK'
    BY <2>1, <2>2 DEF IInv, TypeOK, Busy, Statuses
  <2>4. CompleteHadEffect' /\ CompletedHadEffect' /\ OnceUnlessFailed' /\ ProcessingIsOwned'
    BY <2>1, <2>2 DEF IInv, TypeOK, CompleteHadEffect, CompletedHadEffect, OnceUnlessFailed,
       ProcessingIsOwned
  <2>5. k \notin everFailed =>
          inbox[k] = "absent" /\ effects[k] = 0 /\ \A d \in Calls : ~Owner(d, k)
    BY <2>1, <2>2 DEF IInv, FirstRun
  <2>6. FirstRun'
    BY <2>1, <2>2, <2>5 DEF IInv, TypeOK, FirstRun, Owner
  <2> QED BY <2>3, <2>4, <2>6 DEF IInv
<1>4. ASSUME NEW c \in Calls, Handle(c) PROVE IInv'
  <2> DEFINE k == call[c].key
  <2>1. call[c] \in Busy /\ k \in Keys /\ call[c].pc = "handle"
    BY <1>4, BusyCall DEF Handle, IInv
  <2>2. /\ effects' = [effects EXCEPT ![k] = effects[k] + 1]
        /\ call' = [call EXCEPT ![c] = [pc |-> "complete", key |-> k, found |-> call[c].found]]
        /\ UNCHANGED <<inbox, everFailed, abandoned, deliveries, resets, faults>>
    BY <1>4 DEF Handle, Goto
  <2>3. TypeOK'
    BY <2>1, <2>2 DEF IInv, TypeOK, Busy
  <2>4. k \notin everFailed =>
          /\ effects[k] = 0 /\ inbox[k] # "absent"
          /\ \A d \in Calls \ {c} : ~Owner(d, k)
    BY <2>1 DEF IInv, FirstRun, Owner
  <2>5. CompleteHadEffect' /\ CompletedHadEffect'
    BY <2>1, <2>2 DEF IInv, TypeOK, CompleteHadEffect, CompletedHadEffect, Busy, Idle
  <2>6. OnceUnlessFailed' /\ ProcessingIsOwned'
    BY <2>1, <2>2, <2>4 DEF IInv, TypeOK, OnceUnlessFailed, ProcessingIsOwned
  <2>7. FirstRun'
    BY <2>1, <2>2, <2>4 DEF IInv, TypeOK, FirstRun, Owner
  <2> QED BY <2>3, <2>5, <2>6, <2>7 DEF IInv
<1>5. ASSUME NEW c \in Calls, HandleFails(c) \/ SaveCompletedThrows(c) PROVE IInv'
  <2> DEFINE k == call[c].key
  <2>1. call[c] \in Busy /\ k \in Keys /\ call[c].pc \in {"handle", "complete"}
    BY <1>5, BusyCall DEF HandleFails, SaveCompletedThrows, IInv
  <2>2. /\ call' = [call EXCEPT ![c] = [pc |-> "fail", key |-> k, found |-> call[c].found]]
        /\ UNCHANGED <<inbox, effects, everFailed, abandoned, deliveries, resets>>
    BY <1>5 DEF HandleFails, SaveCompletedThrows, Goto
  <2>3. TypeOK'
    BY <1>5, <2>1, <2>2 DEF HandleFails, SaveCompletedThrows, IInv, TypeOK, Busy
  <2>4. CompleteHadEffect' /\ CompletedHadEffect' /\ OnceUnlessFailed' /\ ProcessingIsOwned'
    BY <2>1, <2>2 DEF IInv, TypeOK, CompleteHadEffect, CompletedHadEffect, OnceUnlessFailed,
       ProcessingIsOwned
  <2>5. FirstRun'
    BY <2>1, <2>2 DEF IInv, TypeOK, FirstRun, Owner
  <2> QED BY <2>3, <2>4, <2>5 DEF IInv
<1>6. ASSUME NEW c \in Calls,
             ClaimLosesRace(c) \/ SaveCompleted(c) \/ SaveFailed(c) \/ SaveReset(c) \/ Abort(c)
      PROVE  IInv'
  <2> DEFINE k == call[c].key
  <2>1. call[c] \in Busy /\ k \in Keys /\ call' = [call EXCEPT ![c] = Idle]
        /\ UNCHANGED <<effects, deliveries, resets>>
    BY <1>6, BusyCall DEF ClaimLosesRace, SaveCompleted, SaveFailed, SaveReset, Abort,
       Return, IInv
  <2>2. \/ ClaimLosesRace(c) /\ call[c].pc = "claim"
             /\ inbox' = inbox /\ everFailed' = everFailed /\ abandoned' = abandoned
        \/ SaveCompleted(c) /\ call[c].pc = "complete"
             /\ inbox' = [inbox EXCEPT ![k] = "completed"]
             /\ everFailed' = everFailed /\ abandoned' = abandoned
        \/ inbox' = [inbox EXCEPT ![k] = "failed"]
             /\ everFailed' = everFailed \cup {k} /\ abandoned' = abandoned
        \/ inbox' = inbox /\ everFailed' = everFailed /\ abandoned' = abandoned \cup {k}
    BY <1>6 DEF ClaimLosesRace, SaveCompleted, SaveFailed, SaveReset, Abort
  <2>3. faults' \in 0..MaxFaults
    BY <1>6 DEF ClaimLosesRace, SaveCompleted, SaveFailed, SaveReset, Abort, IInv, TypeOK
  <2>4. TypeOK'
    BY <2>1, <2>2, <2>3 DEF IInv, TypeOK, Statuses
  <2>5. CompleteHadEffect' /\ CompletedHadEffect' /\ OnceUnlessFailed'
    BY <2>1, <2>2 DEF IInv, TypeOK, CompleteHadEffect, CompletedHadEffect, OnceUnlessFailed, Idle
  <2>6. ProcessingIsOwned'
    BY <2>1, <2>2 DEF IInv, TypeOK, ProcessingIsOwned, Idle
  <2>7. FirstRun'
    BY <2>1, <2>2 DEF IInv, TypeOK, FirstRun, Owner, Idle
  <2> QED BY <2>4, <2>5, <2>6, <2>7 DEF IInv
<1> QED
  BY <1>1, <1>2, <1>3, <1>4, <1>5, <1>6 DEF Next

\* The inbox keeps its inductive invariant forever.
THEOREM InboxInvariant == Spec => []IInv
BY InitIInv, NextIInv, PTL DEF Spec

\* Type correctness of the inbox.
THEOREM InboxTypeOK == Spec => []TypeOK
<1>1. IInv => TypeOK
  BY DEF IInv
<1> QED BY <1>1, InboxInvariant, PTL

\* A row says 'completed' only after its handler has run to the end.
THEOREM InboxCompletedHadEffect == Spec => []CompletedHadEffect
<1>1. IInv => CompletedHadEffect
  BY DEF IInv
<1> QED BY <1>1, InboxInvariant, PTL

\* Before the first failure of a key, racing deliveries run its handler once.
THEOREM InboxOnceUnlessFailed == Spec => []OnceUnlessFailed
<1>1. IInv => OnceUnlessFailed
  BY DEF IInv
<1> QED BY <1>1, InboxInvariant, PTL

\* A row in 'processing' has a running owner unless a call was cut short.
THEOREM InboxProcessingIsOwned == Spec => []ProcessingIsOwned
<1>1. IInv => ProcessingIsOwned
  BY DEF IInv
<1> QED BY <1>1, InboxInvariant, PTL
=============================================================================
