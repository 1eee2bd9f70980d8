---------------------------- MODULE FileCatalog -----------------------------
(***************************************************************************)
(* The folders of the document store with the files placed in them, and    *)
(* the permissions on one file                                             *)
(* (src/apps/backend/src/modules/files/services/files.service.ts).  The    *)
(* two share no state: each has its own Init, Next and Spec.               *)
(***************************************************************************)
EXTENDS Naturals, FiniteSets

(***************************************************************************)
(* Folders of the document store, their closure table and the files placed *)
(* in them (src/apps/backend/src/modules/files/services/files.service.ts,  *)
(* createFolder, deleteFolder, the folder checks of uploadFile).           *)
(*                                                                         *)
(* Every call checks first and writes in a later step.                     *)
(*                                                                         *)
(* overtaken: a file was placed after the count of a deleteFolder of its   *)
(* folder.                                                                 *)
(***************************************************************************)

CONSTANTS
  FolderCalls,
  MaxFolders, MaxFiles,   \* bounds: rows
  MAX_FOLDER_DEPTH,
  TopClassification

ASSUME FileFoldersAssumption ==
  MaxFolders \in Nat /\ MaxFiles \in Nat /\ MAX_FOLDER_DEPTH \in Nat /\ TopClassification \in Nat

Classes == 0..TopClassification
FolderIds == 1..MaxFolders
NoFolder == 0

VARIABLES
  folderRows,   \* file_folders
  closure,      \* folder_closure: <<ancestor, descendant, depth>>
  placed,       \* file_records: folder, classification, deleted
  folderCall,   \* call -> what it does
  overtaken

folderVars == <<folderRows, closure, placed, folderCall, overtaken>>

FolderRow == [id: FolderIds, parent: FolderIds \cup {NoFolder}, cls: Classes, deleted: BOOLEAN]
PlacedRow == [id: 1..MaxFiles, folder: FolderIds \cup {NoFolder}, cls: Classes, deleted: BOOLEAN]
FolderCall == [op: {"idle", "create", "upload", "drop"}, folder: FolderIds \cup {NoFolder}, cls: Classes]

IdleFolderCall == [op |-> "idle", folder |-> NoFolder, cls |-> 0]

FolderOf(id) == CHOOSE f \in folderRows : f.id = id
LiveFolder(id) == id = NoFolder \/ \E f \in folderRows : f.id = id /\ ~f.deleted

FileFoldersTypeOK ==
  /\ folderRows \subseteq FolderRow
  /\ closure \subseteq FolderIds \X FolderIds \X (0..MAX_FOLDER_DEPTH)
  /\ \A r, s \in closure : r[1] = s[1] /\ r[2] = s[2] => r = s
  /\ placed \subseteq PlacedRow
  /\ folderCall \in [FolderCalls -> FolderCall]
  /\ overtaken \in BOOLEAN

FileFoldersInit ==
  /\ folderRows = {} /\ closure = {} /\ placed = {}
  /\ folderCall = [c \in FolderCalls |-> IdleFolderCall]
  /\ overtaken = FALSE

-----------------------------------------------------------------------------
\* getFolderDepth: MAX(depth) of the rows that have the folder as descendant.
FolderDepth(id) == CHOOSE n \in {r[3] : r \in closure} :
  (\E r \in closure : r[2] = id /\ r[3] = n) /\ (\A r \in closure : r[2] = id => r[3] <= n)

DepthLeft(id) == FolderDepth(id) < MAX_FOLDER_DEPTH

\* What the folder of a new folder or file must satisfy.
Allows(id, cls) == LiveFolder(id) /\ (id # NoFolder => cls >= FolderOf(id).cls)

\* createFolder: the checks of the parent.
CreateFolderCheck(c, parent, cls) ==
  /\ folderCall[c].op = "idle" /\ Cardinality(folderRows) < MaxFolders
  /\ Allows(parent, cls)
  /\ parent # NoFolder => DepthLeft(parent)
  /\ folderCall' = [folderCall EXCEPT ![c] = [op |-> "create", folder |-> parent, cls |-> cls]]
  /\ UNCHANGED <<folderRows, closure, placed, overtaken>>

\* The rows of the closure for folder id: those of the parent, one deeper, and itself.
ClosureRowsFlat(id, parent) ==
  {<<parent, id, 1>> : r \in {q \in closure : q[2] = parent}} \cup {<<id, id, 0>>}
ClosureRows(id, parent) ==
  {<<r[1], id, r[3] + 1>> : r \in {q \in closure : q[2] = parent}} \cup {<<id, id, 0>>}

\* The transaction.
CreateFolder(c) ==
  LET id == Cardinality(folderRows) + 1
      call == folderCall[c]
  IN  /\ call.op = "create" /\ id \in FolderIds
      /\ folderRows' = folderRows \cup {[id |-> id, parent |-> call.folder, cls |-> call.cls, deleted |-> FALSE]}
      /\ closure' = closure \cup ClosureRows(id, call.folder)
      /\ folderCall' = [folderCall EXCEPT ![c] = IdleFolderCall]
      /\ UNCHANGED <<placed, overtaken>>

\* uploadFile: the check of the folder, and the insert once the bytes are stored.
UploadInto(c, folder, cls) ==
  /\ folderCall[c].op = "idle" /\ Cardinality(placed) < MaxFiles
  /\ Allows(folder, cls)
  /\ folderCall' = [folderCall EXCEPT ![c] = [op |-> "upload", folder |-> folder, cls |-> cls]]
  /\ UNCHANGED <<folderRows, closure, placed, overtaken>>

BeingDropped(id) == \E d \in FolderCalls : folderCall[d].op = "drop" /\ folderCall[d].folder = id

PlaceFile(c) ==
  LET id == Cardinality(placed) + 1
      call == folderCall[c]
  IN  /\ call.op = "upload" /\ id <= MaxFiles
      /\ placed' = placed \cup {[id |-> id, folder |-> call.folder, cls |-> call.cls, deleted |-> FALSE]}
      /\ folderCall' = [folderCall EXCEPT ![c] = IdleFolderCall]
      /\ overtaken' = (overtaken \/ ~LiveFolder(call.folder) \/ BeingDropped(call.folder))
      /\ UNCHANGED <<folderRows, closure>>

\* deleteFile, as far as its folder is concerned.
DropFile(r) ==
  /\ ~r.deleted
  /\ placed' = (placed \ {r}) \cup {[r EXCEPT !.deleted = TRUE]}
  /\ UNCHANGED <<folderRows, closure, folderCall, overtaken>>

-----------------------------------------------------------------------------
Holds(id) == \E r \in placed : r.folder = id /\ ~r.deleted

\* deleteFolder: the folder is not deleted and holds no file; save.
DeleteFolder(c, id) ==
  /\ folderCall[c].op = "idle" /\ id # NoFolder /\ LiveFolder(id)
  /\ ~Holds(id)
  /\ folderCall' = [folderCall EXCEPT ![c] = [op |-> "drop", folder |-> id, cls |-> 0]]
  /\ UNCHANGED <<folderRows, closure, placed, overtaken>>

DeleteFolderSave(c) ==
  LET f == FolderOf(folderCall[c].folder)
  IN  /\ folderCall[c].op = "drop"
      /\ folderRows' = (folderRows \ {f}) \cup {[f EXCEPT !.deleted = TRUE]}
      /\ folderCall' = [folderCall EXCEPT ![c] = IdleFolderCall]
      /\ UNCHANGED <<closure, placed, overtaken>>

FileFoldersNext ==
  \/ \E c \in FolderCalls :
       \/ \E f \in FolderIds \cup {NoFolder}, cls \in Classes :
            CreateFolderCheck(c, f, cls) \/ UploadInto(c, f, cls)
       \/ CreateFolder(c) \/ PlaceFile(c)
       \/ \E f \in FolderIds : DeleteFolder(c, f)
       \/ DeleteFolderSave(c)
  \/ \E r \in placed : DropFile(r)

FileFoldersSpec == FileFoldersInit /\ [][FileFoldersNext]_folderVars
-----------------------------------------------------------------------------
\* line leads from folder id up to the folder above, n parent links away.
Lineage(line, id, n, above) ==
  /\ line[0] = id /\ line[n] = above
  /\ \A i \in 0..n : \E f \in folderRows : f.id = line[i] /\ (i < n => f.parent = line[i + 1])

\* The closure table says exactly what the parent links say, at every depth, so
\* that getFolderDepth measures the true depth (files.service.ts:383-402, 749-755)
\* although two calls insert at the same time.
ClosureIsAncestry ==
  \A id, above \in FolderIds, n \in 0..MAX_FOLDER_DEPTH :
    <<above, id, n>> \in closure <=> \E line \in [0..n -> FolderIds] : Lineage(line, id, n, above)

\* Nothing is classified lower than any folder above it
\* (files.service.ts:80-88, 358-369).
ClassificationDescends ==
  /\ \A r \in closure : FolderOf(r[2]).cls >= FolderOf(r[1]).cls
  /\ \A r \in placed, q \in closure : r.folder = q[2] => r.cls >= FolderOf(q[1]).cls

\* A file that is not deleted can be reached: its folder is not deleted
\* (files.service.ts:449-463), unless it was uploaded around the deletion.
FileIsReachable == \A r \in placed : ~r.deleted /\ ~overtaken => LiveFolder(r.folder)

-----------------------------------------------------------------------------
(***************************************************************************)
(* Permissions on one file                                                 *)
(* (src/apps/backend/src/modules/files/services/files.service.ts,          *)
(* grantPermission, revokePermission, assertFileAccess).                   *)
(*                                                                         *)
(* A grant and a revocation load the row of the permission and save all of *)
(* it later.  decided is the last decision that a call completed; blurred  *)
(* holds the permissions that were decided while a revocation was between  *)
(* the two, and whose last save was that one's.                            *)
(***************************************************************************)

CONSTANTS
  AccessCalls,
  Grantees,        \* positions other than the owner's
  Cleared          \* those whose clearance reaches the classification of the file

ASSUME FileAccessAssumption == Cleared \subseteq Grantees

\* write stands for the actions that imply read; share is decided like it, without that.
PermissionActions == {"read", "write"}
Effects == {"allow", "deny"}
Permissions == Grantees \X PermissionActions

\* file_permissions; effect none: there is no row; revoked: revoked or expired.
\* uq_file_permission allows one row per grantee and action.
PermissionRows == [effect: Effects \cup {"none"}, revoked: BOOLEAN]
NoPermission == [effect |-> "none", revoked |-> FALSE]

VARIABLES
  permissionRow, accessCall, decided, blurred

accessVars == <<permissionRow, accessCall, decided, blurred>>

AccessOps == {"idle", "grant", "revoke"}
AccessCallStates == [op: AccessOps, on: Permissions, copy: PermissionRows, saved: PermissionRows, stale: BOOLEAN]

IdleAccessCall ==
  [op |-> "idle", on |-> CHOOSE p \in Permissions : TRUE, copy |-> NoPermission, saved |-> NoPermission, stale |-> FALSE]

FileAccessTypeOK ==
  /\ permissionRow \in [Permissions -> PermissionRows]
  /\ \A p \in Permissions : permissionRow[p].effect = "none" => permissionRow[p] = NoPermission
  /\ accessCall \in [AccessCalls -> AccessCallStates]
  /\ decided \in [Permissions -> Effects \cup {"none"}]
  /\ blurred \subseteq Permissions

FileAccessInit ==
  /\ permissionRow = [p \in Permissions |-> NoPermission]
  /\ accessCall = [c \in AccessCalls |-> IdleAccessCall]
  /\ decided = [p \in Permissions |-> "none"]
  /\ blurred = {}

-----------------------------------------------------------------------------
\* assertFileAccess for a position that does not own the file.
Active(p, effect) == permissionRow[p].effect = effect /\ ~permissionRow[p].revoked

CanAccess(g, action) ==
  /\ g \in Cleared
  /\ ~Active(<<g, action>>, "deny")
  /\ \/ Active(<<g, action>>, "allow")
     \/ action = "read" /\ Active(<<g, "write">>, "allow")

\* What a grant makes of the row it loaded.
Granted(row, effect) == [row EXCEPT !.effect = effect, !.revoked = FALSE]

\* The owner, or a position that may share, grants.
BeginGrant(c, p, effect) ==
  /\ accessCall[c].op = "idle"
  /\ accessCall' = [accessCall EXCEPT ![c] =
       [op |-> "grant", on |-> p, copy |-> permissionRow[p],
        saved |-> Granted(permissionRow[p], effect), stale |-> FALSE]]
  /\ UNCHANGED <<permissionRow, decided, blurred>>

\* revokePermission asks for nothing but the row.
BeginRevoke(c, p) ==
  /\ accessCall[c].op = "idle" /\ permissionRow[p].effect # "none"
  /\ accessCall' = [accessCall EXCEPT ![c] =
       [op |-> "revoke", on |-> p, copy |-> permissionRow[p],
        saved |-> [permissionRow[p] EXCEPT !.revoked = TRUE], stale |-> FALSE]]
  /\ UNCHANGED <<permissionRow, decided, blurred>>

\* The insert of a second row is refused.
Refused(c) == accessCall[c].copy.effect = "none" /\ permissionRow[accessCall[c].on].effect # "none"

AccessCallFails(c) ==
  /\ accessCall[c].op = "grant" /\ Refused(c)
  /\ accessCall' = [accessCall EXCEPT ![c] = IdleAccessCall]
  /\ UNCHANGED <<permissionRow, decided, blurred>>

\* A revocation takes back what it has loaded, and nothing that was granted since.
Overtaken(c) == accessCall[c].op = "revoke" /\ accessCall[c].stale

Decision(c) == IF accessCall[c].op = "grant" THEN accessCall[c].saved.effect ELSE "none"

\* save(): the copies that other calls hold of the row are stale from now on.
SavePermission(c) ==
  LET p == accessCall[c].on
  IN  /\ accessCall[c].op # "idle" /\ ~Refused(c)
      /\ permissionRow' = [permissionRow EXCEPT ![p] = accessCall[c].saved]
      /\ IF Overtaken(c)
           THEN decided' = decided /\ blurred' = blurred \cup {p}
           ELSE /\ decided' = [decided EXCEPT ![p] = Decision(c)]
                /\ blurred' = blurred \ {p}
      /\ accessCall' = [d \in AccessCalls |->
           CASE d = c -> IdleAccessCall
             [] d # c /\ accessCall[d].on = p -> [accessCall[d] EXCEPT !.stale = TRUE]
             [] OTHER -> accessCall[d]]

FileAccessNext ==
  \/ \E c \in AccessCalls, p \in Permissions :
       BeginRevoke(c, p) \/ \E e \in Effects : BeginGrant(c, p, e)
  \/ \E c \in AccessCalls : SavePermission(c) \/ AccessCallFails(c)

FileAccessSpec == FileAccessInit /\ [][FileAccessNext]_accessVars

-----------------------------------------------------------------------------
\* What was decided last is what assertFileAccess answers: a DENY in force
\* refuses whatever else is allowed, an ALLOW in force lets in, and no
\* revoked permission counts (files.service.ts:476-525, 720-746), unless a
\* revocation of what the permission was before has written its copy back.
LastDecisionCounts ==
  \A g \in Grantees, a \in PermissionActions :
    blurred \cap {<<g, a>>, <<g, "write">>} = {} =>
      /\ decided[<<g, a>>] = "deny" => ~CanAccess(g, a)
      /\ decided[<<g, a>>] = "allow" /\ g \in Cleared => CanAccess(g, a)
      /\ CanAccess(g, a) => g \in Cleared /\ \E b \in {a, "write"} : decided[<<g, b>>] = "allow"

=============================================================================
