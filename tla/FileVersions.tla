---------------------------- MODULE FileVersions ----------------------------
(***************************************************************************)
(* One file of the document store with its versions, the objects behind    *)
(* them and the virus scan                                                 *)
(* (src/apps/backend/src/modules/files/services/files.service.ts and       *)
(* listeners/file-scan.listener.ts).                                       *)
(*                                                                         *)
(* An upload stores the object, commits the version and goes on as the     *)
(* scan of what it stored; the scan and deleteFile load the file row and   *)
(* save the whole of it later.  The scan exists only in the memory of the  *)
(* process.                                                                *)
(*                                                                         *)
(* crossed: a scan or a deletion saved a row that had changed since it was *)
(* loaded, or judged the file by a version that is no longer the current   *)
(* one.  cut: a crash stopped a call half-way.                             *)
(***************************************************************************)
EXTENDS Naturals, FiniteSets

CONSTANTS
  FileCalls,     \* calls that run at the same time
  MaxVersions,   \* bound: versions stored
  MaxCrashes     \* bound: crashes of the backend

ASSUME FileVersionsAssumption == MaxVersions \in Nat \ {0} /\ MaxCrashes \in Nat

ScanStatuses == {"pending", "clean", "infected", "scan_failed"}
Contents == {"harmless", "malware"}

\* A storage key names the version and (by its hash) the content.
StorageKeys == [n: 1..MaxVersions, content: Contents]
NoKey == [n |-> 0, content |-> "harmless"]

\* file_records: n = 0 is a file that does not exist yet.
FileRows == [count: 0..MaxVersions, current: StorageKeys \cup {NoKey}, scan: ScanStatuses, deleted: BOOLEAN]

VARIABLES
  fileRow,     \* the row of the file
  versionRows, \* file_versions
  objects,     \* keys in the bucket
  fileCall,    \* call -> where it is
  passed,      \* keys a scan found clean
  quarantined, \* keys of versions that were removed with an infected file
  crossed, cut, crashesOfFiles

fileVars == <<fileRow, versionRows, objects, fileCall, passed, quarantined, crossed, cut, crashesOfFiles>>

FilePcs == {"idle", "streamed", "stored", "scanning", "verdict", "loaded", "emptied", "deleting"}
FileCallStates == [pc: FilePcs, key: StorageKeys \cup {NoKey}, verdict: ScanStatuses, copy: FileRows]

NoRow == [count |-> 0, current |-> NoKey, scan |-> "pending", deleted |-> FALSE]
FreeCall == [pc |-> "idle", key |-> NoKey, verdict |-> "pending", copy |-> NoRow]

\* uq_file_version: one row per number; the row's version exists.
FileVersionsTypeOK ==
  /\ fileRow \in FileRows
  /\ versionRows \subseteq StorageKeys
  /\ \A v, w \in versionRows : v.n = w.n => v = w
  /\ fileRow.count > 0 => fileRow.current \in versionRows
  /\ fileRow.count = 0 <=> versionRows = {}
  /\ objects \subseteq StorageKeys
  /\ fileCall \in [FileCalls -> FileCallStates]
  /\ passed \subseteq StorageKeys
  /\ quarantined \subseteq StorageKeys
  /\ crossed \in BOOLEAN /\ cut \in BOOLEAN
  /\ crashesOfFiles \in 0..MaxCrashes

FileVersionsInit ==
  /\ fileRow = NoRow /\ versionRows = {} /\ objects = {}
  /\ fileCall = [c \in FileCalls |-> FreeCall]
  /\ passed = {} /\ quarantined = {} /\ crossed = FALSE /\ cut = FALSE /\ crashesOfFiles = 0

Goto(c, pc) == fileCall' = [fileCall EXCEPT ![c].pc = pc]
Done(c) == fileCall' = [fileCall EXCEPT ![c] = FreeCall]

-----------------------------------------------------------------------------
\* uploadFile, and uploadNewVersion after getFileOrThrow: the number of the
\* version is computed before the bytes arrive.
BeginUpload(c, content) ==
  /\ fileCall[c].pc = "idle" /\ ~fileRow.deleted
  /\ fileRow.count < MaxVersions
  /\ fileRow.count = 0 => \A d \in FileCalls : fileCall[d].pc = "idle"
  /\ fileCall' = [fileCall EXCEPT ![c] = [FreeCall EXCEPT !.pc = "streamed",
                                            !.key = [n |-> fileRow.count + 1, content |-> content]]]
  /\ UNCHANGED <<fileRow, versionRows, objects, passed, quarantined, crossed, cut, crashesOfFiles>>

\* uploadStream and moveObject; or the stream is too long or breaks.
StoreObject(c) ==
  /\ fileCall[c].pc = "streamed"
  /\ objects' = objects \cup {fileCall[c].key}
  /\ quarantined' = quarantined \ {fileCall[c].key}
  /\ Goto(c, "stored")
  /\ UNCHANGED <<fileRow, versionRows, passed, crossed, cut, crashesOfFiles>>

StreamFails(c) ==
  /\ fileCall[c].pc = "streamed"
  /\ Done(c)
  /\ UNCHANGED <<fileRow, versionRows, objects, passed, quarantined, crossed, cut, crashesOfFiles>>

\* The row that the transaction writes: the new version awaits its scan.
VersionedKeepsVerdict(row, key) == [row EXCEPT !.count = key.n, !.current = key]
Versioned(row, key) == [row EXCEPT !.count = key.n, !.current = key, !.scan = "pending"]

\* The transaction; emit('file.upload_complete') starts the scan at once.
CommitVersion(c) ==
  LET key == fileCall[c].key
  IN  /\ fileCall[c].pc = "stored"
      /\ \A v \in versionRows : v.n # key.n
      /\ versionRows' = versionRows \cup {key}
      /\ fileRow' = Versioned(fileRow, key)
      /\ Goto(c, "scanning")
      /\ UNCHANGED <<objects, passed, quarantined, crossed, cut, crashesOfFiles>>

\* uq_file_version refuses the row: the object stays without one.
CommitRefused(c) ==
  /\ fileCall[c].pc = "stored"
  /\ \E v \in versionRows : v.n = fileCall[c].key.n
  /\ Done(c)
  /\ UNCHANGED <<fileRow, versionRows, objects, passed, quarantined, crossed, cut, crashesOfFiles>>

-----------------------------------------------------------------------------
\* scanStream: what ClamAV answers, or an error (disabled, timeout, lost connection).
Verdict(content, failed) ==
  IF failed THEN "scan_failed" ELSE IF content = "malware" THEN "infected" ELSE "clean"

\* handleUploadComplete: an object that is gone cannot be read.
Scan(c) ==
  LET key == fileCall[c].key
  IN  /\ fileCall[c].pc = "scanning"
      /\ \E failed \in BOOLEAN :
           /\ key \notin objects => failed
           /\ fileCall' = [fileCall EXCEPT ![c].pc = "verdict", ![c].verdict = Verdict(key.content, failed)]
           /\ passed' = IF ~failed /\ key.content = "harmless" THEN passed \cup {key} ELSE passed
      /\ UNCHANGED <<fileRow, versionRows, objects, quarantined, crossed, cut, crashesOfFiles>>

\* processScanResult and processScanFailure load the row, deleted or not.
LoadForVerdict(c) ==
  /\ fileCall[c].pc = "verdict"
  /\ fileCall' = [fileCall EXCEPT ![c].pc = "loaded", ![c].copy = fileRow]
  /\ UNCHANGED <<fileRow, versionRows, objects, passed, quarantined, crossed, cut, crashesOfFiles>>

\* An infected file: the objects of all its versions are removed; what the
\* store refuses to remove (kept) is only logged.
RemovedObjects(c) == versionRows \cup {fileCall[c].copy.current}

Quarantine(c) ==
  /\ fileCall[c].pc = "loaded" /\ fileCall[c].verdict = "infected"
  /\ \E kept \in {{}, RemovedObjects(c)} :
       /\ objects' = objects \ (RemovedObjects(c) \ kept)
       /\ quarantined' = IF kept = {} THEN quarantined \cup versionRows ELSE quarantined
  /\ Goto(c, "emptied")
  /\ UNCHANGED <<fileRow, versionRows, passed, crossed, cut, crashesOfFiles>>

Judged(row, verdict) == [row EXCEPT !.scan = verdict, !.deleted = @ \/ verdict = "infected"]

\* save(file): the whole row as it was loaded, with the verdict.
SaveVerdict(c) ==
  LET call == fileCall[c]
  IN  /\ call.pc = (IF call.verdict = "infected" THEN "emptied" ELSE "loaded")
      /\ fileRow' = Judged(call.copy, call.verdict)
      /\ crossed' = (crossed \/ fileRow # call.copy \/ call.copy.current # call.key)
      /\ Done(c)
      /\ UNCHANGED <<versionRows, objects, passed, quarantined, cut, crashesOfFiles>>

-----------------------------------------------------------------------------
\* deleteFile: load, and save the row with deletedAt.
DeleteFileLoad(c) ==
  /\ fileCall[c].pc = "idle" /\ fileRow.count > 0 /\ ~fileRow.deleted
  /\ fileCall' = [fileCall EXCEPT ![c].pc = "deleting", ![c].copy = fileRow]
  /\ UNCHANGED <<fileRow, versionRows, objects, passed, quarantined, crossed, cut, crashesOfFiles>>

DeleteFileSave(c) ==
  /\ fileCall[c].pc = "deleting"
  /\ fileRow' = [fileCall[c].copy EXCEPT !.deleted = TRUE]
  /\ crossed' = (crossed \/ fileRow # fileCall[c].copy)
  /\ Done(c)
  /\ UNCHANGED <<versionRows, objects, passed, quarantined, cut, crashesOfFiles>>

\* The process stops: the calls and the scans are gone.
CrashOfFiles ==
  /\ crashesOfFiles < MaxCrashes
  /\ crashesOfFiles' = crashesOfFiles + 1
  /\ cut' = (cut \/ \E c \in FileCalls : fileCall[c].pc # "idle")
  /\ fileCall' = [c \in FileCalls |-> FreeCall]
  /\ UNCHANGED <<fileRow, versionRows, objects, passed, quarantined, crossed>>

ScanStep(c) == Scan(c) \/ LoadForVerdict(c) \/ Quarantine(c) \/ SaveVerdict(c)

FileVersionsNext ==
  \/ \E c \in FileCalls :
       \/ \E content \in Contents : BeginUpload(c, content)
       \/ StoreObject(c) \/ StreamFails(c) \/ CommitVersion(c) \/ CommitRefused(c)
       \/ Scan(c) \/ LoadForVerdict(c) \/ Quarantine(c) \/ SaveVerdict(c)
       \/ DeleteFileLoad(c) \/ DeleteFileSave(c)
  \/ CrashOfFiles

FileVersionsSpec ==
  FileVersionsInit /\ [][FileVersionsNext]_fileVars /\ \A c \in FileCalls : WF_fileVars(ScanStep(c))

-----------------------------------------------------------------------------
Downloadable == fileRow.count > 0 /\ ~fileRow.deleted /\ fileRow.scan = "clean"

\* getPresignedDownloadUrl serves the current version only after a scan found
\* that version clean (files.service.ts:310-343, 226-233), unless a verdict
\* overtook an upload.
DownloadableWasScanned == Downloadable => fileRow.current \in passed \/ crossed

\* Every version has its object until a quarantine removed it
\* (files.service.ts:115-121, 213-222): a commit never precedes its object.
VersionHasObject == versionRows \subseteq objects \cup quarantined

\* Once an infected version was found, none of the versions the file had keeps
\* its object and the file is gone for its readers (files.service.ts:620-652),
\* unless a stale save brought the row back or the process stopped on the way.
QuarantineIsComplete ==
  /\ quarantined \cap objects = {}
  /\ quarantined # {} =>
       fileRow.deleted \/ crossed \/ cut \/ \E c \in FileCalls : fileCall[c].pc = "emptied"

\* versionCount is the number of the newest version, so that the next upload
\* does not collide (files.service.ts:192, 228), unless a stale save put an
\* older row back.
NextVersionIsFree == ~crossed => \A v \in versionRows : v.n <= fileRow.count

\* Every stored version is judged: a file does not stay pending
\* (file-scan.listener.ts:23-36), unless a crash took the scan with it.
\* It does while the scan is on; the file is judged again and again.
PendingIsJudged ==
  fileRow.count > 0 /\ fileRow.scan = "pending" => fileRow.deleted \/ cut
=============================================================================
