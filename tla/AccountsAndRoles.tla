-------------------------- MODULE AccountsAndRoles ---------------------------
(***************************************************************************)
(* How an account comes to be, and what the roles of a user allow him      *)
(* (src/apps/backend/src/modules/iam, src/apps/backend/src/modules/        *)
(* authorization).  The two share no state: each has its own Init, Next    *)
(* and Spec.                                                               *)
(***************************************************************************)
EXTENDS Naturals, FiniteSets

(***************************************************************************)
(* How an account comes to be: register                                    *)
(* (src/apps/backend/src/modules/iam/services/iam.service.ts) and          *)
(* provisionOrUpdate, the first and every later sign-in of a person whom   *)
(* an identity provider vouches for (sso.service.ts).                      *)
(*                                                                         *)
(* Every look-up is a query of its own, and only the unique indexes on     *)
(* user name, address and identity see all calls at once.                  *)
(***************************************************************************)
CONSTANTS
  Identities,     \* <provider, subject> pairs
  EmailOf,        \* identity -> the address the provider reports
  LocalPart,      \* address -> what deriveUsername makes of it
  NoIdentity,     \* an account without a provider
  MaxAccounts,    \* bound: accounts
  MaxRegistered   \* bound: registrations

Emails == DOMAIN LocalPart
BaseNames == {LocalPart[e] : e \in Emails}

ASSUME AccountsAssumption ==
  /\ NoIdentity \notin Identities
  /\ EmailOf \in [Identities -> Emails]
  /\ MaxAccounts \in Nat \ {0}
  /\ MaxRegistered \in Nat

VARIABLES
  account,     \* iam.user_credentials, a set of rows
  ssoCall,     \* identity -> where its sign-in stands
  registering, \* the registration that has found no duplicate
  registered,  \* registrations so far
  signedIn     \* identities that have signed in

accountVars == <<account, ssoCall, registering, registered, signedIn>>

\* The second user name derived from a base is <<base, 2>>.
Usernames == BaseNames \X (1..MaxAccounts)

AccountRow == [username: Usernames, email: Emails, sso: Identities \cup {NoIdentity}]

SsoBusy ==
  [pc: {"email", "name"}] \cup [pc: {"link", "update"}, row: AccountRow] \cup [pc: {"insert"}, username: Usernames]

SsoIdle == [pc |-> "idle"]

\* The three unique indexes are part of the type.
AccountsTypeOK ==
  /\ account \subseteq AccountRow
  /\ \A a, b \in account :
       a # b => a.username # b.username /\ a.email # b.email /\ (a.sso = NoIdentity \/ a.sso # b.sso)
  /\ ssoCall \in [Identities -> SsoBusy \cup {SsoIdle}]
  /\ registering \subseteq AccountRow /\ Cardinality(registering) <= 1
  /\ registered \in 0..MaxRegistered
  /\ signedIn \subseteq Identities

AccountsInit ==
  /\ account = {}
  /\ ssoCall = [i \in Identities |-> SsoIdle]
  /\ registering = {}
  /\ registered = 0
  /\ signedIn = {}

-----------------------------------------------------------------------------
\* The unique indexes accept the row beside the others.
Accepted(row, others) ==
  \A a \in others :
    a.username # row.username /\ a.email # row.email /\ (row.sso = NoIdentity \/ a.sso # row.sso)

SsoGo(i, next) == ssoCall' = [ssoCall EXCEPT ![i] = next]

SsoAt(i, pc) == ssoCall[i].pc = pc

\* register: the check ...
Register(name, email) ==
  /\ registering = {} /\ registered < MaxRegistered
  /\ \A a \in account : a.username # <<name, 1>> /\ a.email # email
  /\ registering' = {[username |-> <<name, 1>>, email |-> email, sso |-> NoIdentity]}
  /\ registered' = registered + 1
  /\ UNCHANGED <<account, ssoCall, signedIn>>

\* ... and the insert, which the indexes may refuse.
SaveRegistered ==
  /\ registering # {}
  /\ account' = account \cup {r \in registering : Accepted(r, account)}
  /\ registering' = {}
  /\ UNCHANGED <<ssoCall, registered, signedIn>>

\* provisionOrUpdate: the account of the identity.
FindByIdentity(i) ==
  /\ SsoAt(i, "idle") /\ i \notin signedIn
  /\ LET known == {a \in account : a.sso = i}
     IN  \/ known = {} /\ SsoGo(i, [pc |-> "email"])
         \/ \E a \in known : SsoGo(i, [pc |-> "update", row |-> a])
  /\ UNCHANGED <<account, registering, registered, signedIn>>

\* The account of the address, unless it belongs to another identity.
FindByEmail(i) ==
  /\ SsoAt(i, "email")
  /\ LET found == {a \in account : a.email = EmailOf[i]}
     IN  \/ found = {} /\ SsoGo(i, [pc |-> "name"])
         \/ \E a \in found : a.sso \in {NoIdentity, i} /\ SsoGo(i, [pc |-> "link", row |-> a])
         \/ \E a \in found : a.sso \notin {NoIdentity, i} /\ SsoGo(i, SsoIdle)
  /\ UNCHANGED <<account, registering, registered, signedIn>>

\* The whole copy of a row is saved over the row, if the indexes accept it.
SaveCopy(i, copy) ==
  LET others == {a \in account : a.username # copy.username}
  IN  IF Accepted(copy, others)
        THEN account' = others \cup {copy} /\ signedIn' = signedIn \cup {i}
        ELSE UNCHANGED <<account, signedIn>>

\* The copy is saved with the identity.
LinkIdentityToNewRow(i) ==
  /\ SsoAt(i, "link")
  /\ account' = account \cup {[ssoCall[i].row EXCEPT !.sso = i]}
  /\ signedIn' = signedIn \cup {i}
  /\ SsoGo(i, SsoIdle)
  /\ UNCHANGED <<registering, registered>>

LinkIdentity(i) ==
  /\ SsoAt(i, "link")
  /\ SaveCopy(i, [ssoCall[i].row EXCEPT !.sso = i])
  /\ SsoGo(i, SsoIdle)
  /\ UNCHANGED <<registering, registered>>

\* resolveUniqueUsername: the first suffix that is free.
ResolveUniqueUsername(i) ==
  /\ SsoAt(i, "name")
  /\ \E k \in 1..MaxAccounts :
       LET taken(n) == \E a \in account : a.username = <<LocalPart[EmailOf[i]], n>>
       IN  /\ ~taken(k) /\ \A n \in 1..(k - 1) : taken(n)
           /\ SsoGo(i, [pc |-> "insert", username |-> <<LocalPart[EmailOf[i]], k>>])
  /\ UNCHANGED <<account, registering, registered, signedIn>>

ProvisionAccount(i) ==
  /\ SsoAt(i, "insert")
  /\ LET row == [username |-> ssoCall[i].username, email |-> EmailOf[i], sso |-> i]
     IN  IF Accepted(row, account)
           THEN account' = account \cup {row} /\ signedIn' = signedIn \cup {i}
           ELSE UNCHANGED <<account, signedIn>>
  /\ SsoGo(i, SsoIdle)
  /\ UNCHANGED <<registering, registered>>

\* The known account takes over the address the provider reports.
UpdateAccount(i) ==
  /\ SsoAt(i, "update")
  /\ SaveCopy(i, [ssoCall[i].row EXCEPT !.email = EmailOf[i]])
  /\ SsoGo(i, SsoIdle)
  /\ UNCHANGED <<registering, registered>>

\* The person signs in again later.
SignInAgain(i) ==
  /\ i \in signedIn /\ SsoAt(i, "idle")
  /\ signedIn' = signedIn \ {i}
  /\ UNCHANGED <<account, ssoCall, registering, registered>>

SignInStep(i) ==
  \/ FindByIdentity(i) \/ FindByEmail(i) \/ LinkIdentity(i)
  \/ ResolveUniqueUsername(i) \/ ProvisionAccount(i) \/ UpdateAccount(i)

AccountsNext ==
  \/ \E i \in Identities : SignInStep(i) \/ SignInAgain(i)
  \/ \E n \in BaseNames, e \in Emails : Register(n, e)
  \/ SaveRegistered

\* A person who is refused tries again, and the service answers.
AccountsFairness == \A i \in Identities : WF_accountVars(SignInStep(i))

AccountsSpec == AccountsInit /\ [][AccountsNext]_accountVars /\ AccountsFairness

-----------------------------------------------------------------------------
\* Nobody is shut out for good: two people whose addresses give the same user
\* name, or a registration that takes the name or the address first, cost a
\* retry at most (sso.service.ts:117-189, 277-289).  Must hold in the end.
EveryIdentityGetsIn == \A i \in Identities : \E a \in account : a.sso = i

-----------------------------------------------------------------------------
(***************************************************************************)
(* Roles, who holds them, and what a decision says about one permission    *)
(* (src/apps/backend/src/modules/authorization/services:                   *)
(* authorization.service.ts, delegated-admin.service.ts and the scan of    *)
(* governance.service.ts).                                                 *)
(*                                                                         *)
(* The permission is dept:admin, so that the department administrators of  *)
(* delegated-admin.service.ts are decided about by the same decision.  The *)
(* decision from functional roles is cached per user and department; the   *)
(* roles of a position and delegations are read each time.  Delegations    *)
(* are created nowhere in the repository and are left out.                 *)
(***************************************************************************)
CONSTANTS
  RoleUsers,      \* users
  Roles,          \* roles, existing or to be created
  NoRole,         \* no parent role
  ExistingRoles,  \* the table the behaviours start from
  ExistingGrants, \* assignments the behaviours start from
  Depts,          \* departments
  DeptParent,     \* department -> the one above, itself at the top
  PostDept,       \* user -> department of the position he occupies
  RoleCalls,      \* concurrent service calls
  MaxGrants,      \* bound: assignments
  MaxRoleCalls    \* bound: service calls

RoleRow == [exists: BOOLEAN, permits: BOOLEAN, system: BOOLEAN, parent: Roles \cup {NoRole}]

\* Two roles nobody may hold together, and the roles a position brings along.
SodRules == {rule \in SUBSET Roles : Cardinality(rule) = 2}
PositionRoles == RoleUsers \X Roles

\* scope NoRole-like absence is the top department, which covers all others.
GrantRow == [user: RoleUsers, role: Roles, scope: Depts, status: {"absent", "active", "revoked", "expired"}]

ASSUME RoleGrantsAssumption ==
  /\ ExistingRoles \in [Roles -> RoleRow]
  /\ ExistingGrants \in [1..MaxGrants -> GrantRow]
  /\ \A n \in 1..MaxGrants : ExistingGrants[n].status = "active" => ExistingRoles[ExistingGrants[n].role].exists
  /\ DeptParent \in [Depts -> Depts]
  /\ PostDept \in [RoleUsers -> Depts]
  /\ MaxRoleCalls \in Nat

VARIABLES
  role,      \* authz.roles
  grant,     \* authz.user_role_assignments
  postRole,  \* authz.position_roles: <<user in the position, role>>
  sodRule,   \* authz.sod_rules: sets of two roles
  cache,     \* <<user, department>> -> cached decision
  roleCall,  \* call -> what it does next
  roleCalls  \* calls so far

roleVars == <<role, grant, postRole, sodRule, cache, roleCall, roleCalls>>

CacheKeys == RoleUsers \X Depts

RoleBusy ==
  [pc: {"grant"}, new: GrantRow] \cup [pc: {"revoke", "revokeDept", "flush"}, n: 1..MaxGrants]
  \cup [pc: {"delete"}, role: Roles] \cup [pc: {"cache"}, key: CacheKeys, allowed: BOOLEAN]

RoleIdle == [pc |-> "idle"]

RoleGrantsTypeOK ==
  /\ role \in [Roles -> RoleRow]
  /\ grant \in [1..MaxGrants -> GrantRow]
  /\ postRole \subseteq PositionRoles
  /\ sodRule \subseteq SodRules
  /\ cache \in [CacheKeys -> {"none", "allow", "deny"}]
  /\ roleCall \in [RoleCalls -> RoleBusy \cup {RoleIdle}]
  /\ roleCalls \in 0..MaxRoleCalls

RoleGrantsInit ==
  /\ role = ExistingRoles
  /\ grant = ExistingGrants
  /\ postRole = {}
  /\ sodRule = {}
  /\ cache = [k \in CacheKeys |-> "none"]
  /\ roleCall = [c \in RoleCalls |-> RoleIdle]
  /\ roleCalls = 0

-----------------------------------------------------------------------------
\* roleHasPermission: the role or one it inherits from, each looked at once.
Lineage(r) ==
  LET up[n \in 0..Cardinality(Roles)] ==
        IF n = 0 THEN {r} ELSE up[n - 1] \cup ({role[x].parent : x \in up[n - 1]} \ {NoRole})
  IN  up[Cardinality(Roles)]

RoleHasPermission(r) == \E x \in Lineage(r) : role[x].permits

\* isDepartmentInScope: the scope itself or a department below it.
DepartmentInScope(d, scope) ==
  LET up[n \in 0..Cardinality(Depts)] == IF n = 0 THEN d ELSE DeptParent[up[n - 1]]
  IN  \E n \in 0..Cardinality(Depts) : up[n] = scope

ActiveGrants(u) == {n \in 1..MaxGrants : grant[n].status = "active" /\ grant[n].user = u}

\* What checkRbacWithScope finds in the table, and checkPositionalRoles.
GrantedByRole(u, d) ==
  \E n \in ActiveGrants(u) : RoleHasPermission(grant[n].role) /\ DepartmentInScope(d, grant[n].scope)

GrantedByPosition(u, d) ==
  /\ DepartmentInScope(d, PostDept[u])
  /\ \E r \in Roles : <<u, r>> \in postRole /\ RoleHasPermission(r)

\* can, for a decision that has the cache at hand.
Allowed(u, d) == \/ cache[u, d] = "allow"
                 \/ cache[u, d] = "none" /\ GrantedByRole(u, d)
                 \/ GrantedByPosition(u, d)

RoleStart(c, call) ==
  /\ roleCall[c] = RoleIdle
  /\ roleCalls < MaxRoleCalls
  /\ roleCalls' = roleCalls + 1
  /\ roleCall' = [roleCall EXCEPT ![c] = call]
  /\ UNCHANGED <<role, grant, postRole, sodRule, cache>>

RoleAt(c, pc) == roleCall[c].pc = pc

RoleEnd(c) == roleCall' = [roleCall EXCEPT ![c] = RoleIdle] /\ UNCHANGED roleCalls

\* A decision that is not cached is computed, and stored afterwards.
Decide(c, u, d) ==
  /\ cache[u, d] = "none"
  /\ RoleStart(c, [pc |-> "cache", key |-> <<u, d>>, allowed |-> GrantedByRole(u, d)])

StoreDecision(c) ==
  /\ RoleAt(c, "cache")
  /\ cache' = [cache EXCEPT ![roleCall[c].key] = IF roleCall[c].allowed THEN "allow" ELSE "deny"]
  /\ RoleEnd(c)
  /\ UNCHANGED <<role, grant, postRole, sodRule>>

\* AUTHZ_CACHE_TTL has passed.
DecisionOutlives(k) == cache[k] = "allow" /\ UNCHANGED roleVars

DecisionExpires(k) ==
  /\ cache[k] # "none"
  /\ cache' = [cache EXCEPT ![k] = "none"]
  /\ UNCHANGED <<role, grant, postRole, sodRule, roleCall, roleCalls>>

-----------------------------------------------------------------------------
\* assignRoleToUser: checkSodViolation and the duplicate, then the insert.
SodConflict(u, r) == \E n \in ActiveGrants(u) : {r, grant[n].role} \in sodRule

\* Neither duplicate check looks at the expiry.
HoldsRole(u, r, d) ==
  \E n \in 1..MaxGrants : grant[n].user = u /\ grant[n].status \in {"active", "expired"} /\ grant[n].role = r /\ grant[n].scope = d

NewGrant(u, r, d) == [user |-> u, role |-> r, scope |-> d, status |-> "active"]

AssignRoleToUser(c, u, r, d) ==
  /\ role[r].exists
  /\ ~SodConflict(u, r)
  /\ ~HoldsRole(u, r, d)
  /\ RoleStart(c, [pc |-> "grant", new |-> NewGrant(u, r, d)])

\* grantDeptRole: the administrator of the department, holding the role there.
GrantDeptRole(c, actor, u, r, d) ==
  /\ Allowed(actor, d)
  /\ role[r].exists /\ ~role[r].system
  /\ HoldsRole(actor, r, d)
  /\ ~HoldsRole(u, r, d)
  /\ RoleStart(c, [pc |-> "grant", new |-> NewGrant(u, r, d)])

\* The foreign key refuses a role that has been deleted.
InsertGrant(c) ==
  /\ RoleAt(c, "grant")
  /\ IF role[roleCall[c].new.role].exists
       THEN \E n \in 1..MaxGrants :
              /\ grant[n].status = "absent" /\ \A k \in 1..(n - 1) : grant[k].status # "absent"
              /\ grant' = [grant EXCEPT ![n] = roleCall[c].new]
       ELSE UNCHANGED grant
  /\ RoleEnd(c)
  /\ UNCHANGED <<role, postRole, sodRule, cache>>

\* revokeUserRoleAssignment flushes the user's decisions, revokeDeptRole not.
RevokeUserRole(c, n) ==
  /\ grant[n].status \in {"active", "expired"}
  /\ RoleStart(c, [pc |-> "revoke", n |-> n])

RevokeDeptRole(c, actor, n) ==
  /\ grant[n].status \in {"active", "expired"}
  /\ Allowed(actor, grant[n].scope)
  /\ RoleStart(c, [pc |-> "revokeDept", n |-> n])

Revoked(n) == IF grant[n].status = "absent" THEN grant ELSE [grant EXCEPT ![n].status = "revoked"]

SaveRevoked(c) ==
  /\ roleCall[c].pc \in {"revoke", "revokeDept"}
  /\ grant' = Revoked(roleCall[c].n)
  /\ IF RoleAt(c, "revoke") THEN roleCall' = [roleCall EXCEPT ![c].pc = "flush"] /\ UNCHANGED roleCalls
                            ELSE RoleEnd(c)
  /\ UNCHANGED <<role, postRole, sodRule, cache>>

\* invalidateUserCache, whose failure is swallowed.
InvalidateUserCache(c) ==
  /\ RoleAt(c, "flush")
  /\ LET u == grant[roleCall[c].n].user
     IN  cache' \in {cache, [k \in CacheKeys |-> IF k[1] = u THEN "none" ELSE cache[k]]}
  /\ RoleEnd(c)
  /\ UNCHANGED <<role, grant, postRole, sodRule>>

\* expiresAt has passed.
GrantExpires(n) ==
  /\ grant[n].status = "active"
  /\ grant' = [grant EXCEPT ![n].status = "expired"]
  /\ UNCHANGED <<role, postRole, sodRule, cache, roleCall, roleCalls>>

-----------------------------------------------------------------------------
CreateRole(r, parent, permits) ==
  /\ ~role[r].exists /\ roleCalls < MaxRoleCalls
  /\ parent # NoRole => role[parent].exists
  /\ role' = [role EXCEPT ![r] = [exists |-> TRUE, permits |-> permits, system |-> FALSE, parent |-> parent]]
  /\ roleCalls' = roleCalls + 1
  /\ UNCHANGED <<grant, postRole, sodRule, cache, roleCall>>

\* deleteRole: no active assignment is counted ...
DeleteRole(c, r) ==
  /\ role[r].exists /\ ~role[r].system
  /\ \A n \in 1..MaxGrants : grant[n].role = r => grant[n].status \in {"absent", "revoked"}
  /\ RoleStart(c, [pc |-> "delete", role |-> r])

RoleTableWithout(r) ==
  [x \in Roles |-> IF x = r THEN [role[x] EXCEPT !.exists = FALSE, !.permits = FALSE, !.parent = NoRole]
                   ELSE IF role[x].parent = r THEN [role[x] EXCEPT !.parent = NoRole] ELSE role[x]]

\* ... and the row goes, with everything the foreign keys cascade to.
DropRole(c) ==
  /\ RoleAt(c, "delete")
  /\ LET r == roleCall[c].role
     IN  /\ role' = RoleTableWithout(r)
         /\ grant' = [n \in 1..MaxGrants |-> IF grant[n].role = r THEN [grant[n] EXCEPT !.status = "absent"] ELSE grant[n]]
         /\ postRole' = {p \in postRole : p[2] # r}
         /\ sodRule' = {s \in sodRule : r \notin s}
  /\ RoleEnd(c)
  /\ UNCHANGED cache

AssignRoleToPosition(u, r) ==
  /\ role[r].exists /\ <<u, r>> \notin postRole /\ roleCalls < MaxRoleCalls
  /\ postRole' = postRole \cup {<<u, r>>}
  /\ roleCalls' = roleCalls + 1
  /\ UNCHANGED <<role, grant, sodRule, cache, roleCall>>

RevokeRoleFromPosition(u, r) ==
  /\ <<u, r>> \in postRole
  /\ postRole' = postRole \ {<<u, r>>}
  /\ cache' \in {cache, [k \in CacheKeys |-> IF k[1] = u THEN "none" ELSE cache[k]]}
  /\ UNCHANGED <<role, grant, sodRule, roleCall, roleCalls>>

CreateSodRule(r, s) ==
  /\ role[r].exists /\ role[s].exists /\ r # s
  /\ {r, s} \notin sodRule /\ roleCalls < MaxRoleCalls
  /\ sodRule' = sodRule \cup {{r, s}}
  /\ roleCalls' = roleCalls + 1
  /\ UNCHANGED <<role, grant, postRole, cache, roleCall>>

AbortRoleCall(c) ==
  /\ roleCall[c] # RoleIdle
  /\ RoleEnd(c)
  /\ UNCHANGED <<role, grant, postRole, sodRule, cache>>

RoleCallStep(c) ==
  StoreDecision(c) \/ InsertGrant(c) \/ SaveRevoked(c) \/ InvalidateUserCache(c) \/ DropRole(c)

RoleGrantsNext ==
  \/ \E c \in RoleCalls :
       \/ \E u \in RoleUsers, d \in Depts : Decide(c, u, d)
       \/ \E u \in RoleUsers, r \in Roles, d \in Depts :
            AssignRoleToUser(c, u, r, d) \/ \E a \in RoleUsers : GrantDeptRole(c, a, u, r, d)
       \/ \E n \in 1..MaxGrants : RevokeUserRole(c, n) \/ \E a \in RoleUsers : RevokeDeptRole(c, a, n)
       \/ \E r \in Roles : DeleteRole(c, r)
       \/ RoleCallStep(c) \/ AbortRoleCall(c)
  \/ \E k \in CacheKeys : DecisionExpires(k)
  \/ \E n \in 1..MaxGrants : GrantExpires(n)
  \/ \E r \in Roles, p \in Roles \cup {NoRole}, b \in BOOLEAN : CreateRole(r, p, b)
  \/ \E u \in RoleUsers, r \in Roles : AssignRoleToPosition(u, r) \/ RevokeRoleFromPosition(u, r)
  \/ \E r, s \in Roles : CreateSodRule(r, s)

\* Every cached decision expires, and calls run on.
RoleGrantsFairness ==
  /\ \A k \in CacheKeys : WF_roleVars(DecisionExpires(k))
  /\ \A c \in RoleCalls : WF_roleVars(RoleCallStep(c))

RoleGrantsSpec == RoleGrantsInit /\ [][RoleGrantsNext]_roleVars /\ RoleGrantsFairness

-----------------------------------------------------------------------------
\* No assignment refers to a role that is gone, although the count of deleteRole
\* and the insert of an assignment race (authorization.service.ts:448-475).
GrantsHaveRoles == \A n \in 1..MaxGrants : grant[n].status = "active" => role[grant[n].role].exists

\* A role that is taken away stops counting, even where nobody flushes the cache,
\* the flush fails, or a decision taken before is stored after it
\* (authorization.service.ts:228-275, 363-381, delegated-admin.service.ts:153).
\* The cache may be behind, but is right again and again.
RevocationTakesEffect ==
  \A k \in CacheKeys : cache[k] = "allow" => GrantedByRole(k[1], k[2])

=============================================================================
