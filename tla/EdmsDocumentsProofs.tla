------------------------- MODULE EdmsDocumentsProofs ------------------------
(***************************************************************************)
(* The numbering of EdmsDocuments for any number of documents, series and  *)
(* racing calls.  That the numbers of a series have no gaps and never      *)
(* clash rests on the advisory lock: a call that has read MAX holds the    *)
(* lock of its series, so the number it is going to insert is still the    *)
(* next one.                                                               *)
(***************************************************************************)
EXTENDS EdmsDocuments, FiniteSetTheorems, WellFoundedInduction, TLAPS

\* A registration between its lock and its end holds the lock of its series.
LockHeld ==
  \A c \in Calls :
    call[c].pc \in {"max", "insert"} => lock[SeriesOf[call[c].doc]] = c

\* The number a registration is going to insert is the next one of its series.
InsertsNext ==
  \A c \in Calls :
    call[c].pc = "insert" =>
      call[c].seq = Cardinality(RecordsOf(SeriesOf[call[c].doc])) + 1

\* The copy updateDocument is going to save shows a recorded number, if any.
CopyIsRecorded ==
  \A c \in Calls :
    call[c].pc = "save" /\ call[c].seq > 0 =>
      [doc |-> call[c].doc, series |-> SeriesOf[call[c].doc], seq |-> call[c].seq] \in records

\* The inductive invariant.
IInv == /\ TypeOK
        /\ IsFiniteSet(records)
        /\ NumbersSequential
        /\ NoNumberCollision
        /\ NumberIsRecorded
        /\ LockHeld
        /\ InsertsNext
        /\ CopyIsRecorded

\* The maximum of 0 and the numbers up to n is n.
LEMMA MaxOfPrefix ==
  ASSUME NEW n \in Nat
  PROVE  Max({0} \cup 1..n) = n
<1> DEFINE S == {0} \cup 1..n
<1>1. n \in S /\ \A y \in S : n >= y
  OBVIOUS
<1>2. \A x \in S : (\A y \in S : x >= y) => x = n
  OBVIOUS
<1> QED BY <1>1, <1>2 DEF Max

\* A finite set of numbers has a maximum: an element with the fewest greater
\* ones, strict inclusion being well-founded on finite sets.
LEMMA MaxOfFinite ==
  ASSUME NEW S \in SUBSET Nat, IsFiniteSet(S), S # {}
  PROVE  Max(S) \in S /\ \A y \in S : Max(S) >= y
<1> DEFINE Above(x) == {y \in S : y > x}
           T == {Above(x) : x \in S}
           R == StrictSubsetOrdering(S)
<1>1. IsWellFoundedOn(R, SUBSET S)
  BY FS_StrictSubsetOrderingWellFounded, FS_FiniteSubsetsOfFinite
<1>2. T \subseteq SUBSET S /\ T # {}
  OBVIOUS
<1>3. \A x, y \in S : y > x => <<Above(y), Above(x)>> \in R
  <2> SUFFICES ASSUME NEW x \in S, NEW y \in S, y > x
               PROVE  <<Above(y), Above(x)>> \in R
    OBVIOUS
  <2>1. x \in Nat /\ y \in Nat /\ \A z \in S : z \in Nat
    OBVIOUS
  <2>2. \A z \in S : z > y => z > x
    BY <2>1
  <2>3. Above(y) \subseteq Above(x)
    BY <2>2
  <2>4. y \in Above(x) /\ y \notin Above(y)
    BY <2>1
  <2> QED BY <2>3, <2>4 DEF StrictSubsetOrdering
<1> HIDE DEF R
<1>4. PICK m \in T : \A k \in T : ~ (<<k, m>> \in R)
  BY <1>1, <1>2, WFMin
<1>5. PICK x \in S : m = Above(x)
  OBVIOUS
<1>6. \A y \in S : ~ (y > x)
  BY <1>3, <1>4, <1>5
<1>7. \A y \in S : x >= y
  <2>1. x \in Nat /\ \A y \in S : y \in Nat
    OBVIOUS
  <2> QED BY <1>6, <2>1
<1> QED BY <1>7 DEF Max

\* The records of a series are finitely many.
LEMMA RecordsOfFinite ==
  ASSUME IsFiniteSet(records), NEW s \in Series
  PROVE  IsFiniteSet(RecordsOf(s)) /\ Cardinality(RecordsOf(s)) \in Nat
<1>1. RecordsOf(s) \subseteq records
  BY DEF RecordsOf
<1> QED BY <1>1, FS_Subset, FS_CardinalityType

\* What MAX yields, as long as the numbers have no gaps.
LEMMA NextSeqValue ==
  ASSUME IsFiniteSet(records), NumbersSequential, NEW s \in Series
  PROVE  NextSeq(s) = Cardinality(RecordsOf(s)) + 1
<1>1. Seqs(s) = 1..Cardinality(RecordsOf(s)) /\ Cardinality(RecordsOf(s)) \in Nat
  BY RecordsOfFinite DEF NumbersSequential
<1> QED BY <1>1, MaxOfPrefix DEF NextSeq

\* A call that is not idle works on a document.
LEMMA BusyCall ==
  ASSUME TypeOK, NEW c \in Calls, call[c] # Idle
  PROVE  /\ call[c] \in Busy
         /\ call[c].doc \in Docs /\ call[c].seq \in Nat /\ call[c].target \in Statuses
         /\ SeriesOf[call[c].doc] \in Series
BY EdmsDocumentsAssumption DEF TypeOK, VersionTables, Busy

\* The next version number is a number.
LEMMA NextVersionType ==
  ASSUME NEW d \in Docs
  PROVE  NextVersion(d) \in Nat
<1> DEFINE S == {0} \cup {v \in 1..MaxVersions : versions[d][v] > 0}
<1>1. S \in SUBSET (0..MaxVersions) /\ S # {} /\ S \in SUBSET Nat
  BY EdmsDocumentsAssumption
<1>2. IsFiniteSet(S)
  <2>1. IsFiniteSet(0..MaxVersions)
    BY FS_Interval, EdmsDocumentsAssumption
  <2> HIDE DEF S
  <2> QED BY <1>1, <2>1, FS_Subset
<1> HIDE DEF S
<1>3. Max(S) \in Nat
  BY <1>1, <1>2, MaxOfFinite
<1> QED BY <1>3 DEF NextVersion, S

\* A call goes on outside the locked part of a registration.
LEMMA OutsideLock ==
  ASSUME IInv, NEW c \in Calls, NEW v \in Busy \cup {Idle},
         v.pc \notin {"max", "insert"},
         v.pc = "save" /\ v.seq > 0 =>
           [doc |-> v.doc, series |-> SeriesOf[v.doc], seq |-> v.seq] \in records,
         call' = [call EXCEPT ![c] = v], UNCHANGED <<records, lock>>
  PROVE  /\ call' \in [Calls -> Busy \cup {Idle}]
         /\ IsFiniteSet(records)' /\ NumbersSequential'
         /\ LockHeld' /\ InsertsNext' /\ CopyIsRecorded'
<1>1. call'[c] = v /\ \A b \in Calls \ {c} : call'[b] = call[b]
  BY DEF IInv, TypeOK, VersionTables
<1>2. call' \in [Calls -> Busy \cup {Idle}]
  BY DEF IInv, TypeOK, VersionTables
<1>3. LockHeld'
  BY <1>1 DEF IInv, LockHeld
<1>4. InsertsNext'
  BY <1>1 DEF IInv, InsertsNext, RecordsOf
<1>5. CopyIsRecorded'
  BY <1>1 DEF IInv, CopyIsRecorded
<1>6. IsFiniteSet(records)' /\ NumbersSequential'
  BY DEF IInv, NumbersSequential, Seqs, RecordsOf
<1> QED BY <1>2, <1>3, <1>4, <1>5, <1>6

\* createDocument, updateDocument, transitionStatus and the archiving job: they
\* neither touch the records nor the lock.
LEMMA CreateDocumentIInv ==
  ASSUME IInv, NEW c \in Calls, NEW d \in Docs, CreateDocument(c, d)
  PROVE  IInv'
<1> DEFINE v == [pc |-> "version", doc |-> d, seq |-> 1, target |-> "draft"]
<1>1. v \in Busy /\ v.pc = "version"
  BY DEF Busy, Statuses, DocumentStatuses
<1>2. call' = [call EXCEPT ![c] = v] /\ UNCHANGED <<records, lock, versions, collided>>
  BY DEF CreateDocument, Begin
<1>3. doc' = [doc EXCEPT ![d] = [status |-> "draft", seq |-> 0]]
  BY DEF CreateDocument
<1> HIDE DEF v
<1>4. doc' \in [Docs -> Row] /\ NumberIsRecorded'
  BY <1>2, <1>3 DEF IInv, TypeOK, VersionTables, NumberIsRecorded, Row, Statuses, DocumentStatuses
<1> QED BY <1>1, <1>2, <1>4, OutsideLock DEF IInv, TypeOK, VersionTables, NoNumberCollision

\* updateDocument loads a copy, whose number is recorded.
LEMMA LoadForUpdateIInv ==
  ASSUME IInv, NEW c \in Calls, NEW d \in Docs, LoadForUpdate(c, d)
  PROVE  IInv'
<1> DEFINE v == [pc |-> "save", doc |-> d, seq |-> doc[d].seq, target |-> "draft"]
<1>1. v \in Busy /\ v.pc = "save" /\ v.doc = d /\ v.seq = doc[d].seq
  BY DEF IInv, TypeOK, VersionTables, Row, Busy, Statuses, DocumentStatuses
<1>2. call' = [call EXCEPT ![c] = v] /\ UNCHANGED <<doc, records, lock, versions, collided>>
  BY DEF LoadForUpdate, Begin
<1>3. doc[d].seq > 0 => [doc |-> d, series |-> SeriesOf[d], seq |-> doc[d].seq] \in records
  BY DEF IInv, NumberIsRecorded
<1> HIDE DEF v
<1>4. /\ call' \in [Calls -> Busy \cup {Idle}]
      /\ IsFiniteSet(records)' /\ NumbersSequential'
      /\ LockHeld' /\ InsertsNext' /\ CopyIsRecorded'
  BY <1>1, <1>2, <1>3, OutsideLock
<1> QED BY <1>2, <1>4 DEF IInv, TypeOK, VersionTables, NoNumberCollision, NumberIsRecorded

\* It writes the copy back, with a number that is still recorded.
LEMMA SaveDraftIInv ==
  ASSUME IInv, NEW c \in Calls, SaveDraft(c)
  PROVE  IInv'
<1> DEFINE d == call[c].doc
           v == [pc |-> "version", doc |-> d, seq |-> NextVersion(d), target |-> "draft"]
<1>1. d \in Docs /\ call[c].seq \in Nat /\ call[c].target \in Statuses
  BY BusyCall DEF SaveDraft, Idle, IInv
<1>2. call[c].seq > 0 => [doc |-> d, series |-> SeriesOf[d], seq |-> call[c].seq] \in records
  BY DEF SaveDraft, IInv, CopyIsRecorded
<1>3. doc' = [doc EXCEPT ![d] = [status |-> call[c].target, seq |-> call[c].seq]]
  BY DEF SaveDraft
<1>4. call' = [call EXCEPT ![c] = v] /\ UNCHANGED <<records, lock, versions, collided>>
  BY DEF SaveDraft, Begin
<1>5. v \in Busy /\ v.pc = "version"
  BY <1>1, NextVersionType DEF Busy, Statuses, DocumentStatuses
<1> HIDE DEF d, v
<1>6. doc' \in [Docs -> Row] /\ NumberIsRecorded'
  BY <1>1, <1>2, <1>3, <1>4 DEF IInv, TypeOK, VersionTables, NumberIsRecorded, Row
<1> QED BY <1>4, <1>5, <1>6, OutsideLock DEF IInv, TypeOK, VersionTables, NoNumberCollision

\* createDocument and updateDocument end with the version.
LEMMA SaveVersionIInv ==
  ASSUME IInv, NEW c \in Calls, SaveVersion(c)
  PROVE  IInv'
<1>1. call[c].doc \in Docs
  BY BusyCall DEF SaveVersion, Idle, IInv
<1>2. versions' \in [Docs -> [1..MaxVersions -> Nat]]
  <2> DEFINE old == versions[call[c].doc]
             new == [n \in 1..MaxVersions |-> IF n = call[c].seq THEN old[n] + 1 ELSE old[n]]
  <2>1. versions' = [versions EXCEPT ![call[c].doc] = new]
    BY DEF SaveVersion, AddVersion
  <2>2. old \in [1..MaxVersions -> Nat]
    BY <1>1 DEF IInv, TypeOK, VersionTables
  <2> HIDE DEF old
  <2>3. \A n \in 1..MaxVersions : old[n] \in Nat /\ old[n] + 1 \in Nat
    BY <2>2
  <2>4. new \in [1..MaxVersions -> Nat]
    BY <2>3
  <2> HIDE DEF new
  <2> QED BY <2>1, <2>4 DEF IInv, TypeOK, VersionTables
<1>3. call' = [call EXCEPT ![c] = Idle] /\ UNCHANGED <<doc, records, lock, collided>>
  BY DEF SaveVersion, Return
<1>4. Idle.pc = "idle"
  BY DEF Idle
<1>5. /\ call' \in [Calls -> Busy \cup {Idle}]
      /\ IsFiniteSet(records)' /\ NumbersSequential'
      /\ LockHeld' /\ InsertsNext' /\ CopyIsRecorded'
  BY <1>3, <1>4, OutsideLock
<1> QED BY <1>2, <1>3, <1>5 DEF IInv, TypeOK, VersionTables, NoNumberCollision, NumberIsRecorded

\* registerDocument, transitionStatus and the archiving job load a document.
LEMMA LoadIInv ==
  ASSUME IInv, NEW c \in Calls, NEW v \in Busy, v.pc \in {"lock", "update"},
         call' = [call EXCEPT ![c] = v],
         UNCHANGED <<doc, records, versions, lock, collided>>
  PROVE  IInv'
<1>1. /\ call' \in [Calls -> Busy \cup {Idle}]
      /\ IsFiniteSet(records)' /\ NumbersSequential'
      /\ LockHeld' /\ InsertsNext' /\ CopyIsRecorded'
  BY OutsideLock
<1> QED BY <1>1 DEF IInv, TypeOK, VersionTables, NoNumberCollision, NumberIsRecorded

\* The status changes, the number does not.
LEMMA UpdateStatusIInv ==
  ASSUME IInv, NEW c \in Calls, UpdateStatus(c)
  PROVE  IInv'
<1> DEFINE d == call[c].doc
<1>1. d \in Docs /\ call[c].target \in Statuses
  BY BusyCall DEF UpdateStatus, Idle, IInv
<1>2. doc' = [doc EXCEPT ![d].status = call[c].target]
  BY DEF UpdateStatus
<1>3. call' = [call EXCEPT ![c] = Idle] /\ UNCHANGED <<records, versions, lock, collided>>
  BY DEF UpdateStatus, Return
<1>4. Idle.pc = "idle"
  BY DEF Idle
<1>5. /\ call' \in [Calls -> Busy \cup {Idle}]
      /\ IsFiniteSet(records)' /\ NumbersSequential'
      /\ LockHeld' /\ InsertsNext' /\ CopyIsRecorded'
  BY <1>3, <1>4, OutsideLock
<1> HIDE DEF d
<1>6. doc' \in [Docs -> Row] /\ \A e \in Docs : doc'[e].seq = doc[e].seq
  BY <1>1, <1>2 DEF IInv, TypeOK, VersionTables, Row
<1>7. NumberIsRecorded'
  BY <1>3, <1>6 DEF IInv, NumberIsRecorded
<1> QED BY <1>3, <1>5, <1>6, <1>7 DEF IInv, TypeOK, VersionTables, NoNumberCollision

\* The lock is taken when it is free: no other call is past its lock.
LEMMA LockIInv ==
  ASSUME IInv, NEW c \in Calls, Lock(c)
  PROVE  IInv'
<1> DEFINE d == call[c].doc
           v == [pc |-> "max", doc |-> d, seq |-> 0, target |-> "registered"]
<1>1. d \in Docs /\ SeriesOf[d] \in Series
  BY BusyCall DEF Lock, Idle, IInv
<1>2. lock[SeriesOf[d]] = Nobody /\ lock' = [lock EXCEPT ![SeriesOf[d]] = c]
  BY DEF Lock
<1>3. call' = [call EXCEPT ![c] = v] /\ UNCHANGED <<doc, records, versions, collided>>
  BY DEF Lock, Begin
<1>4. v \in Busy /\ v.pc = "max" /\ v.doc = d
  BY <1>1 DEF Busy, Statuses, DocumentStatuses
<1> HIDE DEF d, v
<1>5. call'[c] = v /\ \A b \in Calls \ {c} : call'[b] = call[b]
  BY <1>3 DEF IInv, TypeOK, VersionTables
<1>6. call' \in [Calls -> Busy \cup {Idle}] /\ lock' \in [Series -> Calls \cup {Nobody}]
  BY <1>1, <1>2, <1>3, <1>4 DEF IInv, TypeOK, VersionTables
<1>7. LockHeld'
  <2> SUFFICES ASSUME NEW b \in Calls, call'[b].pc \in {"max", "insert"}
               PROVE  lock'[SeriesOf[call'[b].doc]] = b
    BY DEF LockHeld
  <2>1. CASE b = c
    BY <1>1, <1>2, <1>4, <1>5, <2>1 DEF IInv, TypeOK, VersionTables
  <2>2. CASE b # c
    <3>1. lock[SeriesOf[call[b].doc]] = b /\ SeriesOf[call[b].doc] \in Series
      BY <1>5, <2>2, BusyCall DEF IInv, LockHeld, Idle
    <3> QED BY <1>1, <1>2, <1>5, <2>2, <3>1, EdmsDocumentsAssumption DEF IInv, TypeOK, VersionTables
  <2> QED BY <2>1, <2>2
<1>8. InsertsNext' /\ CopyIsRecorded'
  BY <1>3, <1>4, <1>5 DEF IInv, InsertsNext, CopyIsRecorded, RecordsOf
<1>9. TypeOK' /\ NoNumberCollision' /\ NumberIsRecorded'
  BY <1>3, <1>6 DEF IInv, TypeOK, VersionTables, NoNumberCollision, NumberIsRecorded
<1>10. IsFiniteSet(records)' /\ NumbersSequential'
  BY <1>3 DEF IInv, NumbersSequential, Seqs, RecordsOf
<1> QED BY <1>7, <1>8, <1>9, <1>10 DEF IInv

\* MAX is read under the lock.
LEMMA ReadMaxIInv ==
  ASSUME IInv, NEW c \in Calls, ReadMax(c)
  PROVE  IInv'
<1> DEFINE d == call[c].doc
           s == SeriesOf[d]
           v == [pc |-> "insert", doc |-> d, seq |-> NextSeq(s), target |-> "registered"]
<1>1. d \in Docs /\ s \in Series
  BY BusyCall DEF ReadMax, Idle, IInv
<1>2. call' = [call EXCEPT ![c] = v] /\ UNCHANGED <<doc, records, versions, lock, collided>>
  BY DEF ReadMax, Begin
<1>3. NextSeq(s) = Cardinality(RecordsOf(s)) + 1 /\ NextSeq(s) \in Nat
  BY <1>1, NextSeqValue, RecordsOfFinite DEF IInv
<1>4. v \in Busy /\ v.pc = "insert" /\ v.doc = d /\ v.seq = Cardinality(RecordsOf(s)) + 1
  BY <1>1, <1>3 DEF Busy, Statuses, DocumentStatuses
<1>5. lock[s] = c
  BY DEF ReadMax, IInv, LockHeld
<1> HIDE DEF v
<1>6. call'[c] = v /\ \A b \in Calls \ {c} : call'[b] = call[b]
  BY <1>2 DEF IInv, TypeOK, VersionTables
<1>7. TypeOK' /\ NoNumberCollision' /\ NumberIsRecorded'
  BY <1>2, <1>4 DEF IInv, TypeOK, VersionTables, NoNumberCollision, NumberIsRecorded
<1>8. LockHeld' /\ CopyIsRecorded'
  BY <1>2, <1>4, <1>5, <1>6 DEF IInv, LockHeld, CopyIsRecorded
<1>9. InsertsNext'
  <2>1. \A t : RecordsOf(t)' = RecordsOf(t)
    BY <1>2 DEF RecordsOf
  <2> SUFFICES ASSUME NEW b \in Calls, call'[b].pc = "insert"
               PROVE  call'[b].seq = Cardinality(RecordsOf(SeriesOf[call'[b].doc])) + 1
    BY <2>1 DEF InsertsNext
  <2>2. CASE b = c
    BY <1>4, <1>6, <2>2
  <2>3. CASE b # c
    BY <1>6, <2>3 DEF IInv, InsertsNext
  <2> QED BY <2>2, <2>3
<1>10. IsFiniteSet(records)' /\ NumbersSequential'
  BY <1>2 DEF IInv, NumbersSequential, Seqs, RecordsOf
<1> QED BY <1>7, <1>8, <1>9, <1>10 DEF IInv

\* A call ends and gives its lock back; the others keep theirs.
LEMMA EndOfCall ==
  ASSUME IInv, NEW c \in Calls, Unlock(c), Return(c)
  PROVE  /\ call' \in [Calls -> Busy \cup {Idle}]
         /\ lock' \in [Series -> Calls \cup {Nobody}]
         /\ call'[c] = Idle /\ \A b \in Calls \ {c} : call'[b] = call[b]
         /\ LockHeld'
<1>1. /\ call' \in [Calls -> Busy \cup {Idle}]
      /\ call'[c] = Idle /\ \A b \in Calls \ {c} : call'[b] = call[b]
  BY DEF IInv, TypeOK, VersionTables, Return
<1>2. lock' \in [Series -> Calls \cup {Nobody}]
  BY DEF IInv, TypeOK, VersionTables, Unlock
<1>3. LockHeld'
  <2> SUFFICES ASSUME NEW b \in Calls, call'[b].pc \in {"max", "insert"}
               PROVE  lock'[SeriesOf[call'[b].doc]] = b
    BY DEF LockHeld
  <2>1. b # c /\ call'[b] = call[b]
    BY <1>1 DEF Idle
  <2>2. lock[SeriesOf[call[b].doc]] = b /\ SeriesOf[call[b].doc] \in Series
    BY <2>1, BusyCall DEF IInv, LockHeld, Idle
  <2> QED BY <2>1, <2>2 DEF Unlock
<1> QED BY <1>1, <1>2, <1>3

\* A call that ends without writing.
LEMMA EndWithoutWriting ==
  ASSUME IInv, NEW c \in Calls, Unlock(c), Return(c),
         UNCHANGED <<doc, records, versions, collided>>
  PROVE  IInv'
<1>1. TypeOK' /\ LockHeld' /\ NoNumberCollision' /\ NumberIsRecorded'
  BY EndOfCall DEF IInv, TypeOK, VersionTables, NoNumberCollision, NumberIsRecorded
<1>2. InsertsNext' /\ CopyIsRecorded'
  BY EndOfCall DEF IInv, InsertsNext, CopyIsRecorded, RecordsOf, Idle
<1>3. IsFiniteSet(records)' /\ NumbersSequential'
  BY DEF IInv, NumbersSequential, Seqs, RecordsOf
<1> QED BY <1>1, <1>2, <1>3 DEF IInv

\* The number to insert is free.
LEMMA InsertIsFree ==
  ASSUME IInv, NEW c \in Calls, call[c].pc = "insert"
  PROVE  /\ SeriesOf[call[c].doc] \in Series
         /\ call[c].seq = Cardinality(RecordsOf(SeriesOf[call[c].doc])) + 1
         /\ Cardinality(RecordsOf(SeriesOf[call[c].doc])) \in Nat
         /\ call[c].seq \notin Seqs(SeriesOf[call[c].doc])
<1> DEFINE s == SeriesOf[call[c].doc]
           n == Cardinality(RecordsOf(s))
<1>1. s \in Series
  BY BusyCall DEF IInv, Idle
<1>2. call[c].seq = n + 1
  BY DEF IInv, InsertsNext
<1>3. n \in Nat
  BY <1>1, RecordsOfFinite DEF IInv
<1>4. Seqs(s) = 1..n
  BY <1>1 DEF IInv, NumbersSequential
<1> HIDE DEF n, s
<1>5. call[c].seq \notin Seqs(s)
  BY <1>2, <1>3, <1>4
<1> QED BY <1>1, <1>2, <1>3, <1>5 DEF n, s

\* A rejected registration was rejected for its document, never for its number.
LEMMA RegisterRejectedIInv ==
  ASSUME IInv, NEW c \in Calls, RegisterRejected(c)
  PROVE  IInv'
<1>1. call[c].seq \notin Seqs(SeriesOf[call[c].doc])
  BY InsertIsFree DEF RegisterRejected
<1>2. collided' = collided
  BY <1>1 DEF RegisterRejected
<1> QED BY <1>2, EndWithoutWriting DEF RegisterRejected

\* A registration commits: its series grows by the next number, and no other
\* call is about to insert into that series.
LEMMA RegisterIInv ==
  ASSUME IInv, NEW c \in Calls, Register(c)
  PROVE  IInv'
<1>0. PICK d \in Docs, s \in Series, n \in Nat :
        d = call[c].doc /\ s = SeriesOf[d] /\ n = Cardinality(RecordsOf(s))
  BY BusyCall, InsertIsFree DEF Register, IInv, Idle
<1> DEFINE x == [doc |-> d, series |-> s, seq |-> n + 1]
<1>1. d \in Docs /\ s \in Series
  OBVIOUS
<1>2. call[c].seq = n + 1 /\ n \in Nat /\ n + 1 \notin Seqs(s)
  BY <1>0, InsertIsFree DEF Register
<1>3. /\ records' = records \cup {x} /\ UNCHANGED <<versions, collided>>
      /\ doc' = [doc EXCEPT ![d] = [status |-> "registered", seq |-> n + 1]]
  BY <1>0, <1>2 DEF Register
<1>4. /\ call' \in [Calls -> Busy \cup {Idle}]
      /\ lock' \in [Series -> Calls \cup {Nobody}]
      /\ call'[c] = Idle /\ \A b \in Calls \ {c} : call'[b] = call[b]
      /\ LockHeld'
  BY EndOfCall DEF Register
<1>5. lock[s] = c
  BY <1>0 DEF Register, IInv, LockHeld
<1>6. x \in Record /\ x.series = s /\ x.seq = n + 1
  BY <1>1, <1>2 DEF Record
<1>7. x \notin RecordsOf(s)
  BY <1>2, <1>6 DEF Seqs
<1>8. RecordsOf(s)' = RecordsOf(s) \cup {x}
  BY <1>3, <1>6 DEF RecordsOf
<1>9. \A t \in Series \ {s} : RecordsOf(t)' = RecordsOf(t)
  BY <1>3, <1>6 DEF RecordsOf
<1>10. Cardinality(RecordsOf(s)') = n + 1
  <2>1. IsFiniteSet(RecordsOf(s))
    BY <1>1, RecordsOfFinite DEF IInv
  <2> HIDE DEF x
  <2>2. Cardinality(RecordsOf(s) \cup {x}) = n + 1
    BY <1>0, <1>7, <2>1, FS_AddElement
  <2> QED BY <1>8, <2>2
<1>11. IsFiniteSet(records)'
  BY <1>3, FS_AddElement DEF IInv
<1>12. Seqs(s) = 1..n
  BY <1>0 DEF IInv, NumbersSequential
<1>13. Seqs(s)' = Seqs(s) \cup {n + 1}
  BY <1>6, <1>8 DEF Seqs
<1> HIDE DEF x
<1>14. NumbersSequential'
  <2> SUFFICES ASSUME NEW t \in Series
               PROVE  (Seqs(t) = 1..Cardinality(RecordsOf(t)))'
    BY DEF NumbersSequential
  <2>1. CASE t = s
    <3>1. 1..(n + 1) = (1..n) \cup {n + 1}
      BY <1>2
    <3> QED BY <1>10, <1>12, <1>13, <2>1, <3>1
  <2>2. CASE t # s
    <3>1. RecordsOf(t)' = RecordsOf(t) /\ Seqs(t)' = Seqs(t)
      BY <1>9, <2>2 DEF Seqs
    <3> QED BY <3>1 DEF IInv, NumbersSequential
  <2> QED BY <2>1, <2>2
<1>15. InsertsNext'
  <2> SUFFICES ASSUME NEW b \in Calls, call'[b].pc = "insert"
               PROVE  (call[b].seq = Cardinality(RecordsOf(SeriesOf[call[b].doc])) + 1)'
    BY DEF InsertsNext, RecordsOf
  <2>1. b # c /\ call'[b] = call[b] /\ call[b].pc = "insert"
    BY <1>4 DEF Idle
  <2>2. SeriesOf[call[b].doc] \in Series
    BY <2>1, InsertIsFree
  <2>3. SeriesOf[call[b].doc] # s
    BY <1>5, <2>1 DEF IInv, LockHeld
  <2>4. PICK t \in Series \ {s} : t = SeriesOf[call[b].doc]
    BY <2>2, <2>3
  <2>5. call[b].seq = Cardinality(RecordsOf(t)) + 1
    BY <2>1, <2>4 DEF IInv, InsertsNext
  <2> QED BY <1>9, <2>1, <2>4, <2>5 DEF RecordsOf
<1>16. TypeOK' /\ NoNumberCollision'
  BY <1>1, <1>2, <1>3, <1>4, <1>6 DEF IInv, TypeOK, VersionTables, NoNumberCollision, Row, Statuses,
     DocumentStatuses
<1>17. NumberIsRecorded'
  <2>1. /\ doc'[d].seq = n + 1 /\ \A e \in Docs \ {d} : doc'[e] = doc[e]
        /\ records \subseteq records' /\ x \in records'
    BY <1>1, <1>3 DEF IInv, TypeOK, VersionTables
  <2>2. x = [doc |-> d, series |-> SeriesOf[d], seq |-> n + 1]
    BY <1>0 DEF x
  <2> QED BY <2>1, <2>2 DEF IInv, NumberIsRecorded
<1>18. CopyIsRecorded'
  BY <1>3, <1>4 DEF IInv, CopyIsRecorded, Idle
<1> QED BY <1>4, <1>11, <1>14, <1>15, <1>16, <1>17, <1>18 DEF IInv

\* The invariant holds at the start.
LEMMA InitIInv == Init => IInv
<1> SUFFICES ASSUME Init PROVE IInv
  OBVIOUS
<1>1. TypeOK
  BY EdmsDocumentsAssumption DEF Init, TypeOK, VersionTables, Row, Statuses
<1>2. IsFiniteSet(records) /\ NumbersSequential
  <2>1. \A s : RecordsOf(s) = {} /\ Seqs(s) = {}
    BY DEF Init, RecordsOf, Seqs
  <2>2. IsFiniteSet({}) /\ Cardinality({}) = 0
    BY FS_EmptySet
  <2>3. 1..0 = {}
    OBVIOUS
  <2>4. \A s : Seqs(s) = 1..Cardinality(RecordsOf(s))
    BY <2>1, <2>2, <2>3
  <2> QED BY <2>2, <2>4 DEF Init, NumbersSequential
<1>3. NoNumberCollision /\ NumberIsRecorded
  BY DEF Init, NoNumberCollision, NumberIsRecorded
<1>4. LockHeld /\ InsertsNext /\ CopyIsRecorded
  BY DEF Init, LockHeld, InsertsNext, CopyIsRecorded, Idle
<1> QED BY <1>1, <1>2, <1>3, <1>4 DEF IInv

\* Loading preserves the invariant.
LEMMA LoadsIInv ==
  ASSUME IInv, NEW c \in Calls, NEW d \in Docs, NEW t \in Statuses,
         \/ LoadForRegistration(c, d) \/ LoadForArchiving(c, d)
         \/ LoadForTransition(c, d, t)
  PROVE  IInv'
<1> DEFINE w(pc, u) == [pc |-> pc, doc |-> d, seq |-> 0, target |-> u]
<1>1. \A pc \in {"lock", "update"}, u \in Statuses : w(pc, u) \in Busy /\ w(pc, u).pc = pc
  BY DEF Busy
<1>2. "registered" \in Statuses /\ "archived" \in Statuses
  BY DEF Statuses, DocumentStatuses
<1>3. /\ UNCHANGED <<doc, records, versions, lock, collided>>
      /\ \E pc \in {"lock", "update"}, u \in Statuses : call' = [call EXCEPT ![c] = w(pc, u)]
  BY <1>2 DEF LoadForRegistration, LoadForArchiving, LoadForTransition, Begin
<1> HIDE DEF w
<1> QED BY <1>1, <1>3, LoadIInv

\* Every step preserves the invariant.
LEMMA NextIInv == IInv /\ [Next]_vars => IInv'
<1> SUFFICES ASSUME IInv, [Next]_vars PROVE IInv'
  OBVIOUS
<1>1. CASE UNCHANGED vars
  BY <1>1 DEF vars, IInv, TypeOK, VersionTables, NumbersSequential, NoNumberCollision, NumberIsRecorded,
     LockHeld, InsertsNext, CopyIsRecorded, Seqs, RecordsOf
<1>2. ASSUME NEW c \in Calls, NEW d \in Docs, CreateDocument(c, d) \/ LoadForUpdate(c, d)
      PROVE  IInv'
  BY <1>2, CreateDocumentIInv, LoadForUpdateIInv
<1>3. ASSUME NEW c \in Calls, NEW d \in Docs,
             LoadForRegistration(c, d) \/ LoadForArchiving(c, d)
      PROVE  IInv'
  <2>1. "draft" \in Statuses
    BY DEF Statuses, DocumentStatuses
  <2> QED BY <1>3, <2>1, LoadsIInv
<1>4. ASSUME NEW c \in Calls, Abort(c)
      PROVE  IInv'
  BY <1>4, EndWithoutWriting DEF Abort
<1>5. CASE Next
  BY <1>2, <1>3, <1>4, <1>5, LoadsIInv, SaveDraftIInv, SaveVersionIInv, LockIInv, ReadMaxIInv,
     RegisterIInv, RegisterRejectedIInv, UpdateStatusIInv DEF Next
<1> QED BY <1>1, <1>5

\* The documents keep their types and the inductive invariant forever.
THEOREM DocumentsInvariant == Spec => []IInv
BY InitIInv, NextIInv, PTL DEF Spec

\* Type correctness of the documents.
THEOREM DocumentsTypeOK == Spec => []TypeOK
<1>1. IInv => TypeOK
  BY DEF IInv
<1> QED BY <1>1, DocumentsInvariant, PTL

\* However many registrations race, fail or are cut short, the n records of a
\* series have the numbers 1 to n.
THEOREM DocumentsNumbersSequential == Spec => []NumbersSequential
<1>1. IInv => NumbersSequential
  BY DEF IInv
<1> QED BY <1>1, DocumentsInvariant, PTL

\* The advisory lock alone keeps numbers apart: uq_reg_series_seq_year never
\* rejects a registration.
THEOREM DocumentsNoNumberCollision == Spec => []NoNumberCollision
<1>1. IInv => NoNumberCollision
  BY DEF IInv
<1> QED BY <1>1, DocumentsInvariant, PTL

\* A document never shows a number that is not recorded for it, although
\* updateDocument writes back copies that may be stale.
THEOREM DocumentsNumberIsRecorded == Spec => []NumberIsRecorded
<1>1. IInv => NumberIsRecorded
  BY DEF IInv
<1> QED BY <1>1, DocumentsInvariant, PTL

-----------------------------------------------------------------------------
\* The version a call is going to save follows a stored one.
VersionFollows ==
  \A c \in Calls : call[c].pc = "version" =>
    \A v \in 2..MaxVersions : v = call[c].seq => versions[call[c].doc][v - 1] > 0

\* The highest version of a document is stored, or it has none.
LEMMA HighestIsStored ==
  ASSUME NEW d \in Docs, NEW v \in 2..MaxVersions, v = NextVersion(d)
  PROVE  versions[d][v - 1] > 0
<1> DEFINE S == {0} \cup {n \in 1..MaxVersions : versions[d][n] > 0}
<1>1. S \in SUBSET (0..MaxVersions) /\ S # {} /\ S \in SUBSET Nat
  BY EdmsDocumentsAssumption
<1>2. IsFiniteSet(S)
  <2>1. IsFiniteSet(0..MaxVersions)
    BY FS_Interval, EdmsDocumentsAssumption
  <2> HIDE DEF S
  <2> QED BY <1>1, <2>1, FS_Subset
<1> HIDE DEF S
<1>3. Max(S) \in S /\ Max(S) \in Nat
  BY <1>1, <1>2, MaxOfFinite
<1>4. v = 1 + Max(S) /\ v \in Nat /\ v >= 2
  BY EdmsDocumentsAssumption DEF NextVersion, S
<1>5. v - 1 \in S /\ v - 1 # 0
  BY <1>3, <1>4
<1> QED BY <1>5 DEF S

\* One call goes on and no version is stored.
LEMMA NoVersionStored ==
  ASSUME IInv, VersionsWithoutGaps, VersionFollows, NEW c \in Calls, NEW next,
         call' = [call EXCEPT ![c] = next], UNCHANGED versions,
         next.pc = "version" =>
           \A v \in 2..MaxVersions : v = next.seq => versions[next.doc][v - 1] > 0
  PROVE  VersionsWithoutGaps' /\ VersionFollows'
<1>1. call'[c] = next /\ \A b \in Calls \ {c} : call'[b] = call[b]
  BY DEF IInv, TypeOK
<1>2. VersionFollows'
  BY <1>1 DEF VersionFollows
<1> QED BY <1>2 DEF VersionsWithoutGaps

\* Storing a version that follows a stored one.
LEMMA VersionStored ==
  ASSUME IInv, VersionsWithoutGaps, VersionFollows, NEW c \in Calls, SaveVersion(c)
  PROVE  VersionsWithoutGaps' /\ VersionFollows'
<1> DEFINE d == call[c].doc
           old == versions[d]
           new == [n \in 1..MaxVersions |-> IF n = call[c].seq THEN old[n] + 1 ELSE old[n]]
<1>1. d \in Docs /\ call[c].pc = "version"
  BY BusyCall DEF SaveVersion, Idle, IInv
<1>2. versions' = [versions EXCEPT ![d] = new] /\ call' = [call EXCEPT ![c] = Idle]
  BY DEF SaveVersion, AddVersion, Return
<1>3. old \in [1..MaxVersions -> Nat] /\ versions \in [Docs -> [1..MaxVersions -> Nat]]
  BY <1>1 DEF IInv, TypeOK, VersionTables
<1> HIDE DEF old
<1>4. \A n \in 1..MaxVersions : /\ new[n] \in Nat /\ new[n] >= old[n]
                                /\ n # call[c].seq => new[n] = old[n]
  BY <1>3
<1> HIDE DEF new
<1>5. versions'[d] = new /\ \A e \in Docs \ {d} : versions'[e] = versions[e]
  BY <1>1, <1>2, <1>3
<1>6. \A e \in Docs, n \in 1..MaxVersions : versions[e][n] > 0 => versions'[e][n] > 0
  <2> SUFFICES ASSUME NEW e \in Docs, NEW n \in 1..MaxVersions, versions[e][n] > 0
               PROVE  versions'[e][n] > 0
    OBVIOUS
  <2>1. CASE e = d
    <3>1. old[n] > 0 /\ old[n] \in Nat
      BY <2>1, <1>3 DEF old
    <3> QED BY <2>1, <3>1, <1>4, <1>5
  <2>2. CASE e # d
    BY <2>2, <1>5
  <2> QED BY <2>1, <2>2
<1>7. \A v \in 2..MaxVersions : v - 1 \in 1..MaxVersions /\ v \in 1..MaxVersions
  BY EdmsDocumentsAssumption
<1>8. VersionsWithoutGaps'
  <2> SUFFICES ASSUME NEW e \in Docs, NEW v \in 2..MaxVersions, versions'[e][v] > 0
               PROVE  versions'[e][v - 1] > 0
    BY DEF VersionsWithoutGaps
  <2>1. CASE versions[e][v] > 0
    BY <2>1, <1>6, <1>7 DEF VersionsWithoutGaps
  <2>2. CASE ~(versions[e][v] > 0)
    <3>1. e = d
      BY <2>2, <1>5
    <3>2. v = call[c].seq
      BY <2>2, <3>1, <1>4, <1>5, <1>7 DEF old
    <3>3. versions[d][v - 1] > 0
      BY <3>2, <1>1 DEF VersionFollows
    <3> QED BY <3>1, <3>3, <1>1, <1>6, <1>7
  <2> QED BY <2>1, <2>2
<1>9. VersionFollows'
  <2>1. call'[c].pc = "idle" /\ \A b \in Calls \ {c} : call'[b] = call[b]
    BY <1>2 DEF IInv, TypeOK, Idle
  <2> SUFFICES ASSUME NEW b \in Calls, call'[b].pc = "version",
                      NEW v \in 2..MaxVersions, v = call'[b].seq
               PROVE  versions'[call'[b].doc][v - 1] > 0
    BY DEF VersionFollows
  <2>2. b # c /\ call'[b] = call[b]
    BY <2>1
  <2>3. call[b].doc \in Docs /\ versions[call[b].doc][v - 1] > 0
    BY <2>2, BusyCall DEF VersionFollows, Idle, IInv
  <2> QED BY <2>2, <2>3, <1>6, <1>7
<1> QED BY <1>8, <1>9

\* Versions stay without gaps.
LEMMA VersionsNext ==
  ASSUME IInv, VersionsWithoutGaps, VersionFollows, [Next]_vars
  PROVE  VersionsWithoutGaps' /\ VersionFollows'
<1>1. CASE UNCHANGED vars
  BY <1>1 DEF vars, VersionsWithoutGaps, VersionFollows
<1>2. ASSUME NEW c \in Calls, NEW d \in Docs, NEW t \in Statuses,
             \/ CreateDocument(c, d) \/ LoadForUpdate(c, d) \/ LoadForRegistration(c, d)
             \/ LoadForArchiving(c, d) \/ LoadForTransition(c, d, t)
      PROVE  VersionsWithoutGaps' /\ VersionFollows'
  <2>1. PICK pc, seq, target :
          /\ call' = [call EXCEPT ![c] = [pc |-> pc, doc |-> d, seq |-> seq, target |-> target]]
          /\ pc = "version" => seq = 1
          /\ UNCHANGED versions
    BY <1>2 DEF CreateDocument, LoadForUpdate, LoadForRegistration, LoadForArchiving, LoadForTransition,
       Begin
  <2> DEFINE next == [pc |-> pc, doc |-> d, seq |-> seq, target |-> target]
  <2>2. next.pc = "version" => next.seq = 1
    BY <2>1
  <2>3. 1 \notin 2..MaxVersions
    OBVIOUS
  <2>4. call' = [call EXCEPT ![c] = next]
    BY <2>1
  <2> HIDE DEF next
  <2>5. next.pc = "version" => \A v \in 2..MaxVersions : v # next.seq
    BY <2>2, <2>3
  <2> QED BY <2>1, <2>4, <2>5, NoVersionStored
<1>3. ASSUME NEW c \in Calls, SaveDraft(c) PROVE VersionsWithoutGaps' /\ VersionFollows'
  <2> DEFINE d == call[c].doc
             next == [pc |-> "version", doc |-> d, seq |-> NextVersion(d), target |-> "draft"]
  <2>1. call' = [call EXCEPT ![c] = next] /\ UNCHANGED versions
    BY <1>3 DEF SaveDraft, Begin
  <2>2. d \in Docs
    BY <1>3, BusyCall DEF SaveDraft, Idle, IInv
  <2>3. next.doc = d /\ next.seq = NextVersion(d)
    OBVIOUS
  <2> HIDE DEF next, d
  <2>4. \A v \in 2..MaxVersions : v = next.seq => versions[next.doc][v - 1] > 0
    BY <2>2, <2>3, HighestIsStored
  <2> QED BY <2>1, <2>4, NoVersionStored
<1>4. ASSUME NEW c \in Calls,
             \/ Lock(c) \/ ReadMax(c) \/ Register(c) \/ RegisterRejected(c) \/ UpdateStatus(c) \/ Abort(c)
      PROVE  VersionsWithoutGaps' /\ VersionFollows'
  <2>1. UNCHANGED versions
    BY <1>4 DEF Lock, ReadMax, Register, RegisterRejected, UpdateStatus, Abort
  <2>2. PICK next : call' = [call EXCEPT ![c] = next] /\ next.pc # "version"
    BY <1>4 DEF Lock, ReadMax, Register, RegisterRejected, UpdateStatus, Abort, Begin, Return, Idle
  <2> QED BY <2>1, <2>2, NoVersionStored
<1>5. "draft" \in Statuses
  BY DEF Statuses, DocumentStatuses
<1>6. CASE Next
  <2>1. ASSUME NEW c \in Calls, SaveVersion(c) PROVE VersionsWithoutGaps' /\ VersionFollows'
    BY <2>1, VersionStored
  <2> QED BY <1>2, <1>3, <1>4, <1>5, <1>6, <2>1 DEF Next
<1> QED BY <1>1, <1>6

\* The versions of a document have no gaps, although updateDocument stores the
\* number it read when it began and two updates may store the same one.
THEOREM DocumentsVersionsWithoutGaps == Spec => []VersionsWithoutGaps
<1>1. Init => VersionsWithoutGaps /\ VersionFollows
  BY DEF Init, VersionsWithoutGaps, VersionFollows, Idle
<1>2. IInv /\ VersionsWithoutGaps /\ VersionFollows /\ [Next]_vars
        => VersionsWithoutGaps' /\ VersionFollows'
  BY VersionsNext
<1> QED BY <1>1, <1>2, DocumentsInvariant, PTL DEF Spec
=============================================================================
