------------------------------ MODULE Sessions ------------------------------
(***************************************************************************)
(* One account's sign-in and its refresh tokens                            *)
(* (src/apps/backend/src/modules/iam/services/iam.service.ts, and the      *)
(* sign-in through an identity provider of sso.service.ts).                *)
(*                                                                         *)
(* A login decides on the row it loaded and writes single columns back;    *)
(* the identity provider's path writes the whole row back.  A refresh      *)
(* revokes the old token and inserts its successor in two queries.  A      *)
(* refused call changes nothing and is not a step.                         *)
(*                                                                         *)
(* ended holds the families a reuse or logoutAll has ended, overtaken      *)
(* those of them that a refresh past its checks was still working on.      *)
(***************************************************************************)
EXTENDS Naturals, Sequences

CONSTANTS
  SessionCalls,       \* concurrent service calls
  MaxFailedAttempts,  \* MAX_FAILED_ATTEMPTS, 5 in the code
  LockoutTicks,       \* LOCKOUT_MINUTES
  MaxTicks,           \* bound: clock
  MaxTokens,          \* bound: refresh tokens
  MaxSessionCalls     \* bound: service calls

ASSUME SessionsAssumption ==
  /\ MaxFailedAttempts \in Nat \ {0}
  /\ LockoutTicks \in Nat \ {0}
  /\ MaxTicks \in Nat
  /\ MaxTokens \in Nat
  /\ MaxSessionCalls \in Nat

VARIABLES
  ticks,        \* the clock
  credential,   \* the row of iam.user_credentials
  token,        \* iam.refresh_tokens, in the order of insertion
  sessionCall,  \* call -> what it does next
  sessionCalls, \* calls so far
  ended,        \* families ended by a reuse or by logoutAll
  overtaken     \* ended families a refresh was working on

sessionVars == <<ticks, credential, token, sessionCall, sessionCalls, ended, overtaken>>

\* SUSPENDED and PENDING_RESET are written by nothing in the repository.
CredentialRow ==
  [status: {"active", "locked"}, failedAttempts: 0..MaxFailedAttempts, lockedUntil: 0..(MaxTicks + LockoutTicks)]

\* A family is named after its first token, parent is the token it replaced.
RefreshToken == [family: 1..MaxTokens, parent: 0..MaxTokens, revoked: BOOLEAN]

SessionBusy ==
  [pc: {"unlock", "judge", "issue", "revoke", "burn", "link"}, valid: BOOLEAN,
   row: CredentialRow, family: 0..MaxTokens, parent: 0..MaxTokens]

SessionIdle == [pc |-> "idle"]

SessionsTypeOK ==
  /\ ticks \in 0..MaxTicks
  /\ credential \in CredentialRow
  /\ token \in Seq(RefreshToken) /\ Len(token) <= MaxTokens
  /\ sessionCall \in [SessionCalls -> SessionBusy \cup {SessionIdle}]
  /\ sessionCalls \in 0..MaxSessionCalls
  /\ overtaken \subseteq ended /\ ended \subseteq 1..MaxTokens

SessionsInit ==
  /\ ticks = 0
  /\ credential = [status |-> "active", failedAttempts |-> 0, lockedUntil |-> 0]
  /\ token = <<>>
  /\ sessionCall = [c \in SessionCalls |-> SessionIdle]
  /\ sessionCalls = 0
  /\ ended = {}
  /\ overtaken = {}

-----------------------------------------------------------------------------
SessionStart(c, pc, valid, family, parent) ==
  /\ sessionCall[c] = SessionIdle
  /\ sessionCalls < MaxSessionCalls
  /\ sessionCalls' = sessionCalls + 1
  /\ sessionCall' = [sessionCall EXCEPT ![c] =
       [pc |-> pc, valid |-> valid, row |-> credential, family |-> family, parent |-> parent]]
  /\ UNCHANGED <<ticks, credential, token, ended, overtaken>>

SessionAt(c, pc) == sessionCall[c].pc = pc

SessionGo(c, pc) == sessionCall' = [sessionCall EXCEPT ![c].pc = pc]

SessionEnd(c) == sessionCall' = [sessionCall EXCEPT ![c] = SessionIdle]

\* login: a locked account is refused until its lock has expired.
Login(c, valid) ==
  \/ /\ credential.status = "active"
     /\ SessionStart(c, "judge", valid, 0, 0)
  \/ /\ credential.status = "locked" /\ credential.lockedUntil <= ticks
     /\ SessionStart(c, "unlock", valid, 0, 0)

\* The expired lock is lifted, in the row and in the copy.
Unlock(c) ==
  /\ SessionAt(c, "unlock")
  /\ credential' = [status |-> "active", failedAttempts |-> 0, lockedUntil |-> 0]
  /\ sessionCall' = [sessionCall EXCEPT ![c].pc = "judge", ![c].row.status = "active", ![c].row.failedAttempts = 0]
  /\ UNCHANGED <<ticks, token, sessionCalls, ended, overtaken>>

\* recordFailedAttempt counts from the copy.
LockoutDue(count) == count >= MaxFailedAttempts

RecordFailedAttempt(c) ==
  /\ SessionAt(c, "judge") /\ ~sessionCall[c].valid
  /\ LET count == sessionCall[c].row.failedAttempts + 1
     IN  credential' = IF LockoutDue(count)
                         THEN [status |-> "locked", failedAttempts |-> count, lockedUntil |-> ticks + LockoutTicks]
                         ELSE [credential EXCEPT !.failedAttempts = count]
  /\ SessionEnd(c)
  /\ UNCHANGED <<ticks, token, sessionCalls, ended, overtaken>>

\* The right password; where a second factor is due the call ends here, and
\* IssueTokensForCredential continues.
PasswordAccepted(c) ==
  /\ SessionAt(c, "judge") /\ sessionCall[c].valid
  /\ credential' = [credential EXCEPT !.failedAttempts = 0]
  /\ SessionGo(c, "issue") \/ SessionEnd(c)
  /\ UNCHANGED <<ticks, token, sessionCalls, ended, overtaken>>

IssueTokensForCredential(c) ==
  /\ credential.status = "active"
  /\ SessionStart(c, "issue", TRUE, 0, 0)

\* issueTokenPair: a new family, or the family of the token that is replaced.
IssueTokenPair(c) ==
  /\ SessionAt(c, "issue")
  /\ Len(token) < MaxTokens
  /\ LET s == sessionCall[c]
     IN  token' = Append(token, [family |-> IF s.family = 0 THEN Len(token) + 1 ELSE s.family,
                                 parent |-> s.parent, revoked |-> FALSE])
  /\ SessionEnd(c)
  /\ UNCHANGED <<ticks, credential, sessionCalls, ended, overtaken>>

-----------------------------------------------------------------------------
\* refreshTokens: a revoked token ends its family, a live one of an active
\* account is replaced.
RefreshTokens(c, t) ==
  /\ t \in DOMAIN token
  /\ \/ token[t].revoked /\ SessionStart(c, "burn", TRUE, token[t].family, t)
     \/ /\ ~token[t].revoked /\ credential.status = "active"
        /\ SessionStart(c, "revoke", TRUE, token[t].family, t)

RevokeOldAfterwards(c) ==
  /\ SessionAt(c, "revoke")
  /\ SessionGo(c, "issue")
  /\ UNCHANGED <<ticks, credential, token, sessionCalls, ended, overtaken>>

RevokeOld(c) ==
  /\ SessionAt(c, "revoke")
  /\ token' = [token EXCEPT ![sessionCall[c].parent].revoked = TRUE]
  /\ SessionGo(c, "issue")
  /\ UNCHANGED <<ticks, credential, sessionCalls, ended, overtaken>>

RevokeWhere(families) ==
  token' = [t \in DOMAIN token |-> [token[t] EXCEPT !.revoked = @ \/ token[t].family \in families]]

\* The ghosts of an operation that ends families.
EndFamilies(families) ==
  /\ ended' = ended \cup families
  /\ overtaken' = overtaken \cup
       {f \in families : \E c \in SessionCalls : sessionCall[c].pc \in {"revoke", "issue"} /\ sessionCall[c].family = f}

RevokeFamilyTokens(c) ==
  /\ SessionAt(c, "burn")
  /\ RevokeWhere({sessionCall[c].family})
  /\ EndFamilies({sessionCall[c].family})
  /\ SessionEnd(c)
  /\ UNCHANGED <<ticks, credential, sessionCalls>>

Logout(t) ==
  /\ t \in DOMAIN token /\ ~token[t].revoked
  /\ token' = [token EXCEPT ![t].revoked = TRUE]
  /\ UNCHANGED <<ticks, credential, sessionCall, sessionCalls, ended, overtaken>>

LogoutAll ==
  /\ \E t \in DOMAIN token : ~token[t].revoked
  /\ LET families == {token[t].family : t \in DOMAIN token}
     IN  RevokeWhere(families) /\ EndFamilies(families)
  /\ UNCHANGED <<ticks, credential, sessionCall, sessionCalls>>

-----------------------------------------------------------------------------
\* ldapLogin and samlCallback: provisionOrUpdate loads the account and saves
\* all of it, locked or not; then a new family.
SsoLogin(c) == SessionStart(c, "link", TRUE, 0, 0)

SaveSsoProfile(c) ==
  /\ SessionAt(c, "link")
  /\ credential' = sessionCall[c].row
  /\ SessionGo(c, "issue")
  /\ UNCHANGED <<ticks, token, sessionCalls, ended, overtaken>>

AbortSessionCall(c) ==
  /\ sessionCall[c] # SessionIdle
  /\ SessionEnd(c)
  /\ UNCHANGED <<ticks, credential, token, sessionCalls, ended, overtaken>>

Tick ==
  /\ ticks < MaxTicks
  /\ ticks' = ticks + 1
  /\ UNCHANGED <<credential, token, sessionCall, sessionCalls, ended, overtaken>>

SessionsNext ==
  \/ \E c \in SessionCalls :
       \/ \E v \in BOOLEAN : Login(c, v)
       \/ Unlock(c) \/ RecordFailedAttempt(c) \/ PasswordAccepted(c)
       \/ IssueTokensForCredential(c) \/ IssueTokenPair(c)
       \/ \E t \in DOMAIN token : RefreshTokens(c, t)
       \/ RevokeOld(c) \/ RevokeFamilyTokens(c)
       \/ SsoLogin(c) \/ SaveSsoProfile(c) \/ AbortSessionCall(c)
  \/ \E t \in DOMAIN token : Logout(t)
  \/ LogoutAll
  \/ Tick

SessionsSpec == SessionsInit /\ [][SessionsNext]_sessionVars

-----------------------------------------------------------------------------
\* Rotation: a token that was replaced is revoked, however refreshes of the
\* same token race and wherever a call is cut short (iam.service.ts:202-206).
ReplacedIsRevoked == \A t \in DOMAIN token : token[t].parent # 0 => token[token[t].parent].revoked

\* After a detected reuse or logoutAll no token of the family is accepted any
\* more, except through a refresh that had passed its checks before
\* (iam.service.ts:182-192, 217-224).
EndedFamilyStaysEnded ==
  \A t \in DOMAIN token : ~token[t].revoked /\ token[t].family \in ended => token[t].family \in overtaken

\* An account that has used up its attempts is locked: no stale copy brings it
\* back to work with a full counter (iam.service.ts:104-116, 273-289).
SpentAttemptsLock == credential.failedAttempts >= MaxFailedAttempts => credential.status = "locked"

\* Neither a replaced or ended token nor a locked account lets anybody in
\* (iam.service.ts).
SessionsAreSafe == ReplacedIsRevoked /\ EndedFamilyStaysEnded /\ SpentAttemptsLock

-----------------------------------------------------------------------------
(***************************************************************************)
(* The second factor of one account                                        *)
(* (src/apps/backend/src/modules/iam/services/mfa.service.ts).             *)
(*                                                                         *)
(* Every operation loads the record, decides, and updates the columns it   *)
(* names.  A secret and a set of backup codes are named by the number of   *)
(* the set-up, or confirmation, that made them.                            *)
(***************************************************************************)

CONSTANTS
  MfaCalls,     \* concurrent service calls
  BackupCodes,  \* the one-time codes of a confirmation
  MaxSecrets,   \* bound: set-ups
  MaxMfaCalls   \* bound: service calls

ASSUME MfaAssumption == MaxSecrets \in Nat /\ MaxMfaCalls \in Nat

VARIABLES
  mfa,         \* the row of iam.mfa_credentials
  usedTotp,    \* replay keys in the cache: secret of the code
  mfaCall,     \* call -> what it does next
  secrets,     \* set-ups so far
  mfaCalls     \* calls so far

mfaVars == <<mfa, usedTotp, mfaCall, secrets, mfaCalls>>

\* codes 0: no codes.  secret 0: no record.
MfaCredential == [secret: 0..MaxSecrets, enabled: BOOLEAN, codes: 0..MaxMfaCalls, used: SUBSET BackupCodes]

MfaBusy ==
  [pc: {"init", "confirm", "disable", "totp", "replay", "backup"}, row: MfaCredential, used: SUBSET BackupCodes]

MfaIdle == [pc |-> "idle"]

MfaTypeOK ==
  /\ mfa \in MfaCredential
  /\ usedTotp \subseteq 1..MaxSecrets
  /\ mfaCall \in [MfaCalls -> MfaBusy \cup {MfaIdle}]
  /\ secrets \in 0..MaxSecrets
  /\ mfaCalls \in 0..MaxMfaCalls

MfaInit ==
  /\ mfa = [secret |-> 0, enabled |-> FALSE, codes |-> 0, used |-> {}]
  /\ usedTotp = {}
  /\ mfaCall = [c \in MfaCalls |-> MfaIdle]
  /\ secrets = 0
  /\ mfaCalls = 0

-----------------------------------------------------------------------------
MfaStart(c, pc, used) ==
  /\ mfaCall[c] = MfaIdle
  /\ mfaCalls < MaxMfaCalls
  /\ mfaCalls' = mfaCalls + 1
  /\ mfaCall' = [mfaCall EXCEPT ![c] = [pc |-> pc, row |-> mfa, used |-> used]]
  /\ UNCHANGED <<mfa, usedTotp, secrets>>

MfaEnd(c, pc) ==
  /\ mfaCall[c].pc = pc
  /\ mfaCall' = [mfaCall EXCEPT ![c] = MfaIdle]
  /\ UNCHANGED mfaCalls

InitSetup(c) == MfaStart(c, "init", {})

\* A record there is updated, a missing one inserted; the backup codes stay.
StoreSecret(c) ==
  /\ MfaEnd(c, "init")
  /\ secrets < MaxSecrets
  /\ secrets' = secrets + 1
  /\ mfa' = [mfa EXCEPT !.secret = secrets + 1, !.enabled = FALSE]
  /\ UNCHANGED usedTotp

\* confirmSetup with a valid one-time password of the loaded secret.
ConfirmSetup(c) ==
  /\ mfa.secret # 0 /\ ~mfa.enabled
  /\ MfaStart(c, "confirm", {})

EnableMfa(c) ==
  /\ MfaEnd(c, "confirm")
  /\ mfa' = [mfa EXCEPT !.enabled = TRUE, !.codes = mfaCalls, !.used = {}]
  /\ UNCHANGED <<usedTotp, secrets>>

DisableWithToken(c) == mfa.secret # 0 /\ MfaStart(c, "disable", {})

DisableMfa(c) ==
  /\ MfaEnd(c, "disable")
  /\ mfa' = [mfa EXCEPT !.enabled = FALSE, !.codes = 0, !.used = {}]
  /\ UNCHANGED <<usedTotp, secrets>>

\* verifyAndIssueTokens: the record is read, then the replay key, then the key is
\* written; the tokens that follow are those of Sessions.
VerifyTotp(c) == mfa.enabled /\ MfaStart(c, "totp", {})

ReadReplayKey(c) ==
  /\ mfaCall[c].pc = "totp"
  /\ mfaCall' = [mfaCall EXCEPT ![c] = IF @.row.secret \in usedTotp THEN MfaIdle ELSE [@ EXCEPT !.pc = "replay"]]
  /\ UNCHANGED <<mfa, usedTotp, secrets, mfaCalls>>

WriteReplayKey(c) ==
  /\ MfaEnd(c, "replay")
  /\ usedTotp' = usedTotp \cup {mfaCall[c].row.secret}
  /\ UNCHANGED <<mfa, secrets>>

\* The key lives for ninety seconds.
ReplayKeyExpires(s) ==
  /\ s \in usedTotp
  /\ usedTotp' = usedTotp \ {s}
  /\ UNCHANGED <<mfa, mfaCall, secrets, mfaCalls>>

\* verifyBackupAndIssueTokens: the whole list of codes is written back.
VerifyBackup(c, code) ==
  /\ mfa.enabled /\ mfa.codes # 0 /\ code \notin mfa.used
  /\ MfaStart(c, "backup", mfa.used \cup {code})

MarkCodeUsed(c) ==
  /\ MfaEnd(c, "backup")
  /\ mfa' = [mfa EXCEPT !.codes = mfaCall[c].row.codes, !.used = mfaCall[c].used]
  /\ UNCHANGED <<usedTotp, secrets>>

AbortMfaCall(c) ==
  /\ mfaCall[c] # MfaIdle
  /\ mfaCall' = [mfaCall EXCEPT ![c] = MfaIdle]
  /\ UNCHANGED <<mfa, usedTotp, secrets, mfaCalls>>

MfaNext ==
  \/ \E c \in MfaCalls :
       \/ InitSetup(c) \/ StoreSecret(c) \/ ConfirmSetup(c) \/ EnableMfa(c)
       \/ DisableWithToken(c) \/ DisableMfa(c)
       \/ VerifyTotp(c) \/ ReadReplayKey(c) \/ WriteReplayKey(c)
       \/ \E b \in BackupCodes : VerifyBackup(c, b)
       \/ MarkCodeUsed(c) \/ AbortMfaCall(c)
  \/ \E s \in 1..MaxSecrets : ReplayKeyExpires(s)

MfaSpec == MfaInit /\ [][MfaNext]_mfaVars

-----------------------------------------------------------------------------
\* Whoever has a second factor has backup codes to fall back on, whatever races
\* with the confirmation (mfa.service.ts:100-104, 119-123, 202-205).
EnabledHasBackupCodes == mfa.enabled => mfa.codes # 0

=============================================================================
