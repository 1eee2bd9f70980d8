--------------------------- MODULE EdmsDocuments ----------------------------
(***************************************************************************)
(* The documents of the EDMS                                               *)
(* (src/apps/backend/src/modules/edms/services/edms.service.ts): draft,    *)
(* revision, registration with a number of its series, and the status      *)
(* transitions asked for by the author or made by the archiving job.       *)
(*                                                                         *)
(* Every service call loads the document, checks its status, and writes    *)
(* later: update() writes the columns it names, save() writes the whole    *)
(* copy back.  Registration takes its number under an advisory lock, in a  *)
(* transaction whose writes appear at its commit.                          *)
(*                                                                         *)
(* uq_documents_registration_number, which the migration declares NULLS    *)
(* NOT DISTINCT and the entity WHERE NOT NULL, can only make a call fail   *)
(* (Abort): it takes behaviours away and is left out.                      *)
(***************************************************************************)
EXTENDS Naturals, FiniteSetsExt, Lifecycles

CONSTANTS
  Docs,        \* documents that may be created
  Series,      \* registration series of one year
  SeriesOf,    \* document -> series of its type
  Calls,       \* concurrent service calls and archiving runs
  Nobody,      \* the holder of a free lock
  MaxVersions  \* bound: versions of a document

ASSUME EdmsDocumentsAssumption ==
  /\ SeriesOf \in [Docs -> Series]
  /\ Nobody \notin Calls
  /\ MaxVersions \in Nat

VARIABLES
  doc,      \* documents: document -> status and sequence number, 0 for NULL
  records,  \* registration_records
  versions, \* document -> the version numbers in document_versions, with copies
  lock,     \* series -> the call that holds its advisory lock
  call,     \* call -> what it does next
  collided  \* calls of registerDocument stopped by uq_reg_series_seq_year

vars == <<doc, records, versions, lock, call, collided>>

Statuses == DocumentStatuses \cup {"absent"}

Row == [status: Statuses, seq: Nat]

\* document_versions: how many rows have each number.
VersionTables == [Docs -> [1..MaxVersions -> Nat]]

Record == [doc: Docs, series: Series, seq: Nat \ {0}]

\* pc: lock, max, insert are registerDocument; save, version are updateDocument,
\* and version also ends createDocument; update is transitionStatus and the
\* archiving job.
Busy == [pc: {"lock", "max", "insert", "save", "version", "update"},
         doc: Docs, seq: Nat, target: Statuses]

Idle == [pc |-> "idle"]

TypeOK ==
  /\ doc \in [Docs -> Row]
  /\ records \subseteq Record
  /\ versions \in VersionTables
  /\ lock \in [Series -> Calls \cup {Nobody}]
  /\ call \in [Calls -> Busy \cup {Idle}]
  /\ collided \subseteq Calls

Init ==
  /\ doc = [d \in Docs |-> [status |-> "absent", seq |-> 0]]
  /\ records = {}
  /\ versions = [d \in Docs |-> [v \in 1..MaxVersions |-> 0]]
  /\ lock = [s \in Series |-> Nobody]
  /\ call = [c \in Calls |-> Idle]
  /\ collided = {}

-----------------------------------------------------------------------------
\* The records of a series, their numbers, and SELECT COALESCE(MAX(...), 0) + 1.
RecordsOf(s) == {r \in records : r.series = s}

Seqs(s) == {r.seq : r \in RecordsOf(s)}

NextSeqCounts(s) == Cardinality(RecordsOf(s))

NextSeq(s) == 1 + Max({0} \cup Seqs(s))

Begin(c, pc, d, seq, target) ==
  call' = [call EXCEPT ![c] = [pc |-> pc, doc |-> d, seq |-> seq, target |-> target]]

Return(c) == call' = [call EXCEPT ![c] = Idle]

AddVersion(d, n) ==
  versions' = [versions EXCEPT ![d] = [v \in 1..MaxVersions |-> IF v = n THEN @[v] + 1 ELSE @[v]]]

\* The highest version number of a document, plus one.
NextVersionSkips(d) ==
  IF \A v \in 1..MaxVersions : versions[d][v] = 0 THEN 1
  ELSE 2 + Max({v \in 1..MaxVersions : versions[d][v] > 0})

NextVersion(d) ==
  1 + Max({0} \cup {v \in 1..MaxVersions : versions[d][v] > 0})

-----------------------------------------------------------------------------
\* createDocument inserts the draft; its first version follows.
CreateDocument(c, d) ==
  /\ call[c] = Idle
  /\ doc[d].status = "absent"
  /\ doc' = [doc EXCEPT ![d] = [status |-> "draft", seq |-> 0]]
  /\ Begin(c, "version", d, 1, "draft")
  /\ UNCHANGED <<records, versions, lock, collided>>

\* updateDocument loads a draft ...
LoadForUpdate(c, d) ==
  /\ call[c] = Idle
  /\ doc[d].status = "draft"
  /\ NextVersion(d) <= MaxVersions
  /\ Begin(c, "save", d, doc[d].seq, "draft")
  /\ UNCHANGED <<doc, records, versions, lock, collided>>

\* ... saves the whole copy, status and number included ...
SaveDraft(c) ==
  /\ call[c].pc = "save"
  /\ doc' = [doc EXCEPT ![call[c].doc] = [status |-> call[c].target, seq |-> call[c].seq]]
  /\ Begin(c, "version", call[c].doc, NextVersion(call[c].doc), "draft")
  /\ UNCHANGED <<records, versions, lock, collided>>

\* ... and stores the version whose number it has read before.
SaveVersion(c) ==
  /\ call[c].pc = "version"
  /\ call[c].seq <= MaxVersions
  /\ AddVersion(call[c].doc, call[c].seq)
  /\ Return(c)
  /\ UNCHANGED <<doc, records, lock, collided>>

\* registerDocument checks the status outside the transaction.
LoadForRegistration(c, d) ==
  /\ call[c] = Idle
  /\ doc[d].status = "draft"
  /\ Begin(c, "lock", d, 0, "registered")
  /\ UNCHANGED <<doc, records, versions, lock, collided>>

\* pg_advisory_xact_lock of the series and year.
LockIgnored(c) ==
  /\ call[c].pc = "lock"
  /\ Begin(c, "max", call[c].doc, 0, "registered")
  /\ UNCHANGED <<doc, records, versions, lock, collided>>

Lock(c) ==
  /\ call[c].pc = "lock"
  /\ LET s == SeriesOf[call[c].doc]
     IN  lock[s] = Nobody /\ lock' = [lock EXCEPT ![s] = c]
  /\ Begin(c, "max", call[c].doc, 0, "registered")
  /\ UNCHANGED <<doc, records, versions, collided>>

ReadMax(c) ==
  /\ call[c].pc = "max"
  /\ Begin(c, "insert", call[c].doc, NextSeq(SeriesOf[call[c].doc]), "registered")
  /\ UNCHANGED <<doc, records, versions, lock, collided>>

\* The lock is released at the end of the transaction.
Unlock(c) == lock' = [s \in Series |-> IF lock[s] = c THEN Nobody ELSE lock[s]]

\* Record and document are written and the transaction commits.
Register(c) ==
  /\ call[c].pc = "insert"
  /\ \A r \in records : r.doc # call[c].doc
  /\ call[c].seq \notin Seqs(SeriesOf[call[c].doc])
  /\ records' = records \cup {[doc |-> call[c].doc, series |-> SeriesOf[call[c].doc], seq |-> call[c].seq]}
  /\ doc' = [doc EXCEPT ![call[c].doc] = [status |-> "registered", seq |-> call[c].seq]]
  /\ Unlock(c)
  /\ Return(c)
  /\ UNCHANGED <<versions, collided>>

\* A unique constraint of registration_records rejects the insert: rollback.
RegisterRejectedTooLate(c) ==
  /\ call[c].pc = "insert"
  /\ \/ \E r \in records : r.doc = call[c].doc
     \/ call[c].seq \in Seqs(SeriesOf[call[c].doc])
  /\ doc' = [doc EXCEPT ![call[c].doc] = [status |-> "registered", seq |-> call[c].seq]]
  /\ Unlock(c)
  /\ Return(c)
  /\ UNCHANGED <<records, versions, collided>>

RegisterRejected(c) ==
  /\ call[c].pc = "insert"
  /\ \/ \E r \in records : r.doc = call[c].doc
     \/ call[c].seq \in Seqs(SeriesOf[call[c].doc])
  /\ collided' = IF call[c].seq \in Seqs(SeriesOf[call[c].doc])
                   THEN collided \cup {c} ELSE collided
  /\ Unlock(c)
  /\ Return(c)
  /\ UNCHANGED <<doc, records, versions>>

\* transitionStatus checks the table against the status it has loaded.
LoadForTransition(c, d, target) ==
  /\ call[c] = Idle
  /\ target \in Transitions(doc[d].status)
  /\ Begin(c, "update", d, 0, target)
  /\ UNCHANGED <<doc, records, versions, lock, collided>>

\* The archiving job loads completed documents.
LoadForArchiving(c, d) ==
  /\ call[c] = Idle
  /\ doc[d].status = "completed"
  /\ Begin(c, "update", d, 0, "archived")
  /\ UNCHANGED <<doc, records, versions, lock, collided>>

\* The update names the status and not the registration number.
UpdateStatus(c) ==
  /\ call[c].pc = "update"
  /\ doc' = [doc EXCEPT ![call[c].doc].status = call[c].target]
  /\ Return(c)
  /\ UNCHANGED <<records, versions, lock, collided>>

\* The call is cut short; the database rolls its transaction back.
Abort(c) ==
  /\ call[c] # Idle
  /\ Unlock(c)
  /\ Return(c)
  /\ UNCHANGED <<doc, records, versions, collided>>

Next ==
  \/ \E c \in Calls, d \in Docs :
       \/ CreateDocument(c, d) \/ LoadForUpdate(c, d)
       \/ LoadForRegistration(c, d) \/ LoadForArchiving(c, d)
       \/ \E t \in Statuses : LoadForTransition(c, d, t)
  \/ \E c \in Calls :
       \/ SaveDraft(c) \/ SaveVersion(c) \/ Lock(c) \/ ReadMax(c)
       \/ Register(c) \/ RegisterRejected(c) \/ UpdateStatus(c) \/ Abort(c)

Spec == Init /\ [][Next]_vars

-----------------------------------------------------------------------------
\* The numbers of a series are handed out without duplicates and gaps, whatever
\* registrations race and fail (edms.service.ts:243-278): the n registered
\* documents of a series have the numbers 1 to n.
NumbersSequential ==
  \A s \in Series : Seqs(s) = 1..Cardinality(RecordsOf(s))

\* The advisory lock spans MAX and insert, so no registration fails on a number
\* another one has taken meanwhile (edms.service.ts:246); the unique index is
\* never what saves it.
NoNumberCollision == collided = {}

\* A document is registered at most once: it keeps the number of its only
\* record, or has lost it, but never shows another one.
NumberIsRecorded ==
  \A d \in Docs :
    doc[d].seq > 0 =>
      [doc |-> d, series |-> SeriesOf[d], seq |-> doc[d].seq] \in records

\* Numbers of versions may be given twice, but none is left out, although the
\* number is read before it is stored (edms.service.ts:195-211) and an update
\* may overtake the first version of createDocument.
VersionsWithoutGaps ==
  \A d \in Docs, v \in 2..MaxVersions : versions[d][v] > 0 => versions[d][v - 1] > 0
=============================================================================
