---------------------------- MODULE Organisation ----------------------------
(***************************************************************************)
(* The organisation: who holds which position (users.service.ts), and the  *)
(* departments, positions and reporting lines themselves (org.service.ts). *)
(***************************************************************************)
EXTENDS Naturals, Sequences, Lifecycles

(***************************************************************************)
(* One user's profile and the positions he holds                           *)
(* (src/apps/backend/src/modules/users/services/users.service.ts).         *)
(*                                                                         *)
(* A row of user_position_assignments is vacated, never deleted.           *)
(* updateProfile loads the profile with its assignments and, the relation  *)
(* being cascaded, saves all of them again.  A unique index allows one     *)
(* active primary assignment.                                              *)
(*                                                                         *)
(* released is what an offboarding found and has vacated, rewritten holds  *)
(* the assignments updateProfile has written back over a vacation.         *)
(***************************************************************************)
CONSTANTS
  UserCalls,     \* concurrent service calls
  Posts,         \* positions
  MaxHeld,       \* bound: assignments
  MaxUserCalls   \* bound: service calls

ASSUME UserPositionsAssumption == Posts # {} /\ MaxHeld \in Nat /\ MaxUserCalls \in Nat

VARIABLES
  profile,    \* status of the profile
  held,       \* user_position_assignments, in the order of insertion
  userCall,   \* call -> what it does next
  userCalls,  \* calls so far
  released,   \* assignments a finished offboarding was there to end
  rewritten   \* assignments a stale profile save has reopened

userVars == <<profile, held, userCall, userCalls, released, rewritten>>

ProfileStatuses == {"active", "on_leave", "suspended", "offboarded"}

UserPositionAssignment == [post: Posts, type: {"primary", "acting"}, vacated: BOOLEAN]

\* A concurrent assignment is treated like an acting one.
UserBusy ==
  [pc: {"vacate", "check", "insert", "release", "offboard", "profile"}, new: UserPositionAssignment,
   rows: SUBSET (1..MaxHeld), copy: UNION {[1..n -> UserPositionAssignment] : n \in 0..MaxHeld}, status: ProfileStatuses,
   all: SUBSET (1..MaxHeld)]

UserIdle == [pc |-> "idle"]

ActiveHeld == {n \in DOMAIN held : ~held[n].vacated}

UserPositionsTypeOK ==
  /\ profile \in ProfileStatuses
  /\ held \in Seq(UserPositionAssignment) /\ Len(held) <= MaxHeld
  /\ \A n, k \in ActiveHeld : held[n].type = "primary" /\ held[k].type = "primary" => n = k
  /\ \A c \in UserCalls : userCall[c] \in UserBusy \cup {UserIdle}
  /\ userCalls \in 0..MaxUserCalls
  /\ released \subseteq DOMAIN held
  /\ rewritten \subseteq DOMAIN held

UserPositionsInit ==
  /\ profile = "active"
  /\ held = <<>>
  /\ userCall = [c \in UserCalls |-> UserIdle]
  /\ userCalls = 0
  /\ released = {}
  /\ rewritten = {}

-----------------------------------------------------------------------------
UserStart(c, pc, new, rows, status) ==
  /\ userCall[c] = UserIdle
  /\ userCalls < MaxUserCalls
  /\ userCalls' = userCalls + 1
  /\ userCall' = [userCall EXCEPT ![c] =
       [pc |-> pc, new |-> new, rows |-> rows, copy |-> held, status |-> status, all |-> rows]]
  /\ UNCHANGED <<profile, held, released, rewritten>>

UserAt(c, pc) == userCall[c].pc = pc
UserGo(c, pc) == userCall' = [userCall EXCEPT ![c].pc = pc]
UserEnd(c) == userCall' = [userCall EXCEPT ![c] = UserIdle]

SomeAssignment == [post |-> CHOOSE p \in Posts : TRUE, type |-> "acting", vacated |-> FALSE]

Vacated(rows) == [n \in DOMAIN held |-> [held[n] EXCEPT !.vacated = @ \/ n \in rows]]

\* assignPosition: an active primary assignment, if the new one is primary ...
AssignPosition(c, post, type) ==
  LET new == [post |-> post, type |-> type, vacated |-> FALSE]
      primary == {n \in ActiveHeld : held[n].type = "primary" /\ type = "primary"}
  IN  UserStart(c, IF primary = {} THEN "check" ELSE "vacate", new, primary, profile)

\* ... is vacated ...
VacatePrimary(c) ==
  /\ UserAt(c, "vacate")
  /\ held' = Vacated(userCall[c].rows)
  /\ UserGo(c, "check")
  /\ UNCHANGED <<profile, userCalls, released, rewritten>>

\* ... and only then the duplicate is looked for, and refused.
CheckDuplicate(c) ==
  /\ UserAt(c, "check")
  /\ IF \E n \in ActiveHeld : held[n].post = userCall[c].new.post THEN UserEnd(c) ELSE UserGo(c, "insert")
  /\ UNCHANGED <<profile, held, userCalls, released, rewritten>>

\* The index refuses a second active primary assignment.
PrimaryFree(new) == new.type = "primary" => \A n \in ActiveHeld : held[n].type # "primary"

InsertHeld(c) ==
  /\ UserAt(c, "insert")
  /\ Len(held) < MaxHeld
  /\ held' = IF PrimaryFree(userCall[c].new) THEN Append(held, userCall[c].new) ELSE held
  /\ UserEnd(c)
  /\ UNCHANGED <<profile, userCalls, released, rewritten>>

\* vacatePosition vacates the row it finds, offboard every row it finds, one
\* after the other, and then marks the profile.
VacatePosition(c, n) ==
  /\ n \in ActiveHeld
  /\ UserStart(c, "release", SomeAssignment, {n}, profile)

Offboard(c) == UserStart(c, "offboard", SomeAssignment, ActiveHeld, "offboarded")

VacateNext(c) ==
  /\ userCall[c].pc \in {"release", "offboard"}
  /\ \E n \in userCall[c].rows :
       /\ held' = Vacated({n})
       /\ IF UserAt(c, "release") THEN UserEnd(c) ELSE userCall' = [userCall EXCEPT ![c].rows = @ \ {n}]
       /\ rewritten' = rewritten \ {n}
  /\ UNCHANGED <<profile, userCalls, released>>

MarkOffboardedEarly(c) ==
  /\ UserAt(c, "offboard")
  /\ profile' = "offboarded"
  /\ released' = released \cup userCall[c].all
  /\ UserEnd(c)
  /\ UNCHANGED <<held, userCalls, rewritten>>

MarkOffboarded(c) ==
  /\ UserAt(c, "offboard") /\ userCall[c].rows = {}
  /\ profile' = "offboarded"
  /\ released' = released \cup userCall[c].all
  /\ UserEnd(c)
  /\ UNCHANGED <<held, userCalls, rewritten>>

\* updateProfile, with a new status or another change.
UpdateProfile(c, status) == UserStart(c, "profile", SomeAssignment, {}, status)

\* The cascade writes every loaded assignment back; one added meanwhile would
\* lose its user, which the column forbids, and the save fails; so does a save
\* that makes a second primary assignment active.
SaveProfile(c) ==
  /\ UserAt(c, "profile")
  /\ LET copy == userCall[c].copy
         reopened == {n \in DOMAIN copy : held[n].vacated /\ ~copy[n].vacated}
         primaries == {n \in DOMAIN copy : ~copy[n].vacated /\ copy[n].type = "primary"}
     IN  IF Len(copy) = Len(held) /\ \A n, k \in primaries : n = k
           THEN /\ profile' = userCall[c].status
                /\ held' = copy
                /\ rewritten' = rewritten \cup reopened
           ELSE UNCHANGED <<profile, held, rewritten>>
  /\ UserEnd(c)
  /\ UNCHANGED <<userCalls, released>>

AbortUserCall(c) ==
  /\ userCall[c] # UserIdle
  /\ UserEnd(c)
  /\ UNCHANGED <<profile, held, userCalls, released, rewritten>>

UserPositionsNext ==
  \E c \in UserCalls :
    \/ \E p \in Posts, t \in {"primary", "acting"} : AssignPosition(c, p, t)
    \/ VacatePrimary(c) \/ CheckDuplicate(c) \/ InsertHeld(c)
    \/ \E n \in DOMAIN held : VacatePosition(c, n)
    \/ Offboard(c) \/ VacateNext(c) \/ MarkOffboarded(c)
    \/ \E s \in ProfileStatuses : UpdateProfile(c, s)
    \/ SaveProfile(c) \/ AbortUserCall(c)

UserPositionsSpec == UserPositionsInit /\ [][UserPositionsNext]_userVars

-----------------------------------------------------------------------------
\* Offboarding ends what it set out to end: once it has marked the profile, no
\* position the user held when it began is his again, unless a profile update
\* that had loaded the assignment before writes it back
\* (users.service.ts:343-375, 126-142).
OffboardingReleases == \A n \in released : held[n].vacated \/ n \in rewritten

-----------------------------------------------------------------------------
(***************************************************************************)
(* Departments, positions and their history                                *)
(* (src/apps/backend/src/modules/org/services/org.service.ts).             *)
(*                                                                         *)
(* Each operation checks, writes its row and then writes the record of the *)
(* change, in separate queries.  A department that is deactivated keeps    *)
(* its positions and the departments below it.                             *)
(***************************************************************************)
CONSTANTS
  OrgDepts,   \* departments to be created
  OrgPosts,   \* positions to be created
  NoOrg,      \* no parent, no superior
  OrgCalls    \* concurrent service calls

ASSUME OrgStructureAssumption == NoOrg \notin OrgDepts \cup OrgPosts

VARIABLES
  department,  \* org.departments
  position,    \* org.positions
  history,     \* org.org_change_history: <<kind, entity>>
  orgCall,     \* call -> what it does next
  cutShort     \* entities whose call stopped before its record

orgVars == <<department, position, history, orgCall, cutShort>>

Department == [exists: BOOLEAN, active: BOOLEAN, parent: OrgDepts \cup {NoOrg}]

Position == [exists: BOOLEAN, dept: OrgDepts \cup {NoOrg}, reportsTo: OrgPosts \cup {NoOrg}]

OrgChanges == {"department_created", "position_created", "department_deactivated"}

OrgBusy ==
  [pc: {"save", "record"}, kind: OrgChanges, id: OrgDepts \cup OrgPosts, up: OrgDepts \cup OrgPosts \cup {NoOrg},
   dept: OrgDepts \cup {NoOrg}]

OrgIdle == [pc |-> "idle"]

OrgStructureTypeOK ==
  /\ department \in [OrgDepts -> Department]
  /\ position \in [OrgPosts -> Position]
  /\ \A p \in OrgPosts : position[p].exists => \E d \in OrgDepts : department[d].exists /\ position[p].dept = d
  /\ history \subseteq OrgChanges \X (OrgDepts \cup OrgPosts)
  /\ orgCall \in [OrgCalls -> OrgBusy \cup {OrgIdle}]
  /\ cutShort \subseteq OrgChanges \X (OrgDepts \cup OrgPosts)

OrgStructureInit ==
  /\ department = [d \in OrgDepts |-> [exists |-> FALSE, active |-> TRUE, parent |-> NoOrg]]
  /\ position = [p \in OrgPosts |-> [exists |-> FALSE, dept |-> NoOrg, reportsTo |-> NoOrg]]
  /\ history = {}
  /\ orgCall = [c \in OrgCalls |-> OrgIdle]
  /\ cutShort = {}

-----------------------------------------------------------------------------
OrgStart(c, kind, id, up, dept) ==
  /\ orgCall[c] = OrgIdle
  /\ orgCall' = [orgCall EXCEPT ![c] = [pc |-> "save", kind |-> kind, id |-> id, up |-> up, dept |-> dept]]
  /\ UNCHANGED <<department, position, history, cutShort>>

\* The database gives every new row an id of its own.
FreshId(id) == \A c \in OrgCalls : orgCall[c] # OrgIdle => orgCall[c].id # id

\* createDepartment: under an active department, if under any.
CreateDepartment(c, d, parent) ==
  /\ ~department[d].exists /\ FreshId(d)
  /\ parent # NoOrg => department[parent].exists /\ department[parent].active
  /\ OrgStart(c, "department_created", d, parent, NoOrg)

\* createPosition: in an active department; the superior is an existing position.
CreatePosition(c, p, dept, boss) ==
  /\ ~position[p].exists /\ FreshId(p)
  /\ department[dept].exists /\ department[dept].active
  /\ boss # NoOrg => position[boss].exists
  /\ OrgStart(c, "position_created", p, boss, dept)

DeactivateDepartment(c, d) ==
  /\ department[d].exists
  /\ OrgStart(c, "department_deactivated", d, NoOrg, NoOrg)

SaveOrgChange(c) ==
  /\ orgCall[c].pc = "save"
  /\ LET call == orgCall[c]
     IN  CASE call.kind = "department_created" ->
                /\ department' = [department EXCEPT ![call.id] = [exists |-> TRUE, active |-> TRUE, parent |-> call.up]]
                /\ UNCHANGED position
           [] call.kind = "department_deactivated" ->
                /\ department' = [department EXCEPT ![call.id].active = FALSE]
                /\ UNCHANGED position
           [] call.kind = "position_created" ->
                /\ position' = [position EXCEPT ![call.id] = [exists |-> TRUE, dept |-> call.dept, reportsTo |-> call.up]]
                /\ UNCHANGED department
  /\ orgCall' = [orgCall EXCEPT ![c].pc = "record"]
  /\ UNCHANGED <<history, cutShort>>

RecordChange(c) ==
  /\ orgCall[c].pc = "record"
  /\ history' = history \cup {<<orgCall[c].kind, orgCall[c].id>>}
  /\ orgCall' = [orgCall EXCEPT ![c] = OrgIdle]
  /\ UNCHANGED <<department, position, cutShort>>

AbortOrgCall(c) ==
  /\ orgCall[c] # OrgIdle
  /\ cutShort' = IF orgCall[c].pc = "record" THEN cutShort \cup {<<orgCall[c].kind, orgCall[c].id>>} ELSE cutShort
  /\ orgCall' = [orgCall EXCEPT ![c] = OrgIdle]
  /\ UNCHANGED <<department, position, history>>

OrgStructureNext ==
  \E c \in OrgCalls :
    \/ \E d \in OrgDepts, u \in OrgDepts \cup {NoOrg} : CreateDepartment(c, d, u)
    \/ \E p \in OrgPosts, d \in OrgDepts, b \in OrgPosts \cup {NoOrg} : CreatePosition(c, p, d, b)
    \/ \E d \in OrgDepts : DeactivateDepartment(c, d)
    \/ SaveOrgChange(c) \/ RecordChange(c) \/ AbortOrgCall(c)

OrgStructureSpec == OrgStructureInit /\ [][OrgStructureNext]_orgVars

-----------------------------------------------------------------------------
\* No positions report only to one another: the walk up the reporting lines ends,
\* and getCommandChain has no other way out of its loop than a position without
\* superior (org.service.ts:202-219).
CommandChainEnds ==
  \A ring \in SUBSET OrgPosts : ring # {} => \E p \in ring : position[p].reportsTo \notin ring

\* Whatever exists, or has been switched off, has its line in the history, unless
\* the call that made the change was cut short (org.service.ts:57-65, 104-113, 152-160).
ChangesAreRecorded ==
  LET happened == {<<"department_created", d>> : d \in {e \in OrgDepts : department[e].exists}}
                  \cup {<<"department_deactivated", d>> : d \in {e \in OrgDepts : ~department[e].active}}
                  \cup {<<"position_created", p>> : p \in {q \in OrgPosts : position[q].exists}}
  IN  \A h \in happened \ (history \cup cutShort) :
        \E c \in OrgCalls : orgCall[c].pc = "record" /\ <<orgCall[c].kind, orgCall[c].id>> = h

=============================================================================
