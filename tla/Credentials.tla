----------------------------- MODULE Credentials -----------------------------
(***************************************************************************)
(* What changes or relies on the columns of an existing row: PATCH         *)
(* /users/:id, whose save() reads the row twice before it writes; a        *)
(* forgotten password and its reset; the second factor set up, verified,   *)
(* and asked for at login.  The name, the version and the audit log of an  *)
(* update are in UserProfile, the refresh tokens in Sessions.              *)
(***************************************************************************)
EXTENDS UserTable

CONSTANTS
    Change,     \* requests PATCH /users/:id
    Forgot,     \* requests POST /auth/forgot-password
    Reset,      \* requests POST /auth/reset-password
    Setup,      \* requests POST /auth/mfa/setup
    Enable,     \* requests POST /auth/mfa/verify
    Login,      \* requests POST /auth/login, with the right password
    Challenge,  \* requests POST /auth/mfa/challenge
    RequireEmailVerification    \* REQUIRE_EMAIL_VERIFICATION

ASSUME CredentialsAssumption ==
    /\ Change \cup Forgot \cup Reset \cup Setup \cup Enable \cup Login \cup Challenge
          \subseteq Request
    /\ RequireEmailVerification \in BOOLEAN

VARIABLES
    held,          \* held[q]: the hash, the secret or the token q has read
    columns,       \* columns[q]: what TypeORM found to differ
    resetToken,    \* resetToken[f]: the PASSWORD_RESET token that f issued
    lastReset,     \* history: lastReset[u]: the last reset of u to commit
    stale,         \* history: updates that selected another hash than they held
    straddled,     \* history: straddled[u]: the updates that had read another hash
                   \* when it did, and may yet write it
    readdressed,   \* history: users whose address an update has changed
    proven,        \* history: secrets a right code has been shown for
    sessions       \* history: the logins that ended in tokens, and how

credentialVars == <<held, columns, resetToken, lastReset, stale, straddled,
                    readdressed, proven, sessions>>
resetVars == <<resetToken, lastReset, stale, straddled, readdressed>>
factorVars == <<proven, sessions>>

Session == [user : User, asked : Credential, code : Credential]

CredentialsTypeOK ==
    /\ held \in [Request -> Credential]
    /\ columns \in [Change -> SUBSET {"email", "password"}]
    /\ resetToken \in [Forgot -> {"none", "valid", "used"}]
    /\ lastReset \in [User -> Reset \cup {None}]
    /\ stale \in SUBSET Change
    /\ straddled \in [User -> SUBSET Change]
    /\ readdressed \in SUBSET User
    /\ proven \in SUBSET Setup
    /\ sessions \in SUBSET Session

CredentialsInit ==
    /\ held = [q \in Request |-> None]
    /\ columns = [q \in Change |-> {}]
    /\ resetToken = [f \in Forgot |-> "none"]
    /\ lastReset = [u \in User |-> None]
    /\ stale = {}
    /\ straddled = [u \in User |-> {}]
    /\ readdressed = {}
    /\ proven = {}
    /\ sessions = {}

Present == {u \in User : rows[u] # None}
RowOf(q) == rows[target[q]]
Find(q, u) == target' = [target EXCEPT ![q] = u]
Hold(q, x) == held' = [held EXCEPT ![q] = x]

\* A DomainError, or a user that forgot-password does not know: nothing is
\* written.
Refused(q) ==
    /\ pc[q] = "new"
    /\ Goto(q, "done")
    /\ UNCHANGED <<tableVars, target, address, credentialVars, faults>>

\* A statement throws: what the transaction, if there is one, has written is
\* rolled back.
Throws(q) ==
    /\ pc[q] \notin {"absent", "new", "done", "sent", "challenged"}
    /\ Fault
    /\ Rollback(q)
    /\ Goto(q, "done")
    /\ UNCHANGED <<target, address, credentialVars>>

(***************************************************************************)
(* UpdateUserUseCase and the three statements of TypeOrmUserRepository.save *)
(***************************************************************************)

\* findById, existsByEmail, user.update(): the entity has the new address or
\* the one that was read.
LoadUser(q) ==
    /\ pc[q] = "new"
    /\ \E u \in Present, a \in Address :
          /\ a = rows[u].email \/ ~Known(a)
          /\ Find(q, u)
          /\ address' = [address EXCEPT ![q] = a]
    /\ Goto(q, "find")
    /\ UNCHANGED <<tableVars, credentialVars, faults>>

\* Wrong on purpose: the entity of an existing row without its hash.
NoHash(q) == None

ExistingHash(q) == RowOf(q).password

\* findOne: entity.passwordHash = existing.passwordHash.
FindExisting(q) ==
    /\ pc[q] = "find"
    /\ Hold(q, ExistingHash(q))
    /\ Goto(q, "select")
    /\ UNCHANGED <<tableVars, target, address, columns, resetVars, factorVars, faults>>

\* Wrong on purpose: the whole entity is written, like repo.update would.
AllColumns(q) == {"email", "password"}

Differing(q) ==
    {c \in {"email", "password"} :
        IF c = "email" THEN address[q] # RowOf(q).email ELSE held[q] # RowOf(q).password}

\* TypeORM's own SELECT, to see what differs from the entity.
SelectAgain(q) ==
    /\ pc[q] = "select"
    /\ columns' = [columns EXCEPT ![q] = Differing(q)]
    /\ stale' = IF held[q] # RowOf(q).password THEN stale \cup {q} ELSE stale
    /\ Goto(q, "update")
    /\ UNCHANGED <<tableVars, target, address, held, resetToken, lastReset, straddled,
                   readdressed, factorVars, faults>>

\* UPDATE ... SET what differed.
UpdateColumns(q) ==
    /\ pc[q] = "update"
    /\ Write(q, target[q],
             [RowOf(q) EXCEPT
                !.email = IF "email" \in columns[q] THEN address[q] ELSE @,
                !.password = IF "password" \in columns[q] THEN held[q] ELSE @])
    /\ Goto(q, "commit")
    /\ UNCHANGED <<target, address, credentialVars, faults>>

UpdateConflicts(q) ==
    /\ pc[q] = "update"
    /\ "email" \in columns[q]
    /\ Conflicts(q, target[q], address[q])
    /\ Rollback(q)
    /\ Goto(q, "done")
    /\ UNCHANGED <<target, address, credentialVars, faults>>

CommitChange(q) ==
    /\ pc[q] = "commit"
    /\ Commit(q)
    /\ readdressed' = IF work[q].row.email # RowOf(q).email
                      THEN readdressed \cup {target[q]} ELSE readdressed
    /\ Goto(q, "done")
    /\ UNCHANGED <<target, address, held, columns, resetToken, lastReset, stale,
                   straddled, factorVars, faults>>

(***************************************************************************)
(* ForgotPasswordUseCase and ResetPasswordUseCase                          *)
(***************************************************************************)
ForgotFinds(f) ==
    /\ pc[f] = "new"
    /\ \E u \in Present : Find(f, u)
    /\ Goto(f, "token")
    /\ UNCHANGED <<tableVars, address, credentialVars, faults>>

SaveResetToken(f) ==
    /\ pc[f] = "token"
    /\ resetToken' = [resetToken EXCEPT ![f] = "valid"]
    /\ Goto(f, "send")
    /\ UNCHANGED <<tableVars, target, address, held, columns, lastReset, stale,
                   straddled, readdressed, factorVars, faults>>

SendReset(f) ==
    /\ pc[f] = "send"
    /\ Goto(f, "sent")
    /\ UNCHANGED <<tableVars, target, address, credentialVars, faults>>

\* findValidByHash of a token that was mailed; it may also have expired.
ResetFinds(r) ==
    /\ pc[r] = "new"
    /\ \E f \in Forgot :
          /\ pc[f] = "sent" /\ resetToken[f] = "valid"
          /\ Find(r, target[f])
          /\ Hold(r, f)
    /\ Goto(r, "update")
    /\ UNCHANGED <<tableVars, address, columns, resetVars, factorVars, faults>>

UpdatePassword(r) ==
    /\ pc[r] = "update"
    /\ Write(r, target[r], [RowOf(r) EXCEPT !.password = r])
    /\ Goto(r, "commit")
    /\ UNCHANGED <<target, address, credentialVars, faults>>

\* consume, revokeAllForUser (see Sessions) and the commit.
CommitReset(r) ==
    /\ pc[r] = "commit"
    /\ Commit(r)
    /\ resetToken' = [resetToken EXCEPT ![held[r]] = "used"]
    /\ lastReset' = [lastReset EXCEPT ![target[r]] = r]
    /\ straddled' = [straddled EXCEPT ![target[r]] =
          {q \in Change :
              /\ target[q] = target[r]
              /\ \/ pc[q] = "select"
                 \/ pc[q] = "update" /\ q \in stale}]
    /\ Goto(r, "done")
    /\ UNCHANGED <<target, address, held, columns, stale, readdressed, factorVars,
                   faults>>

(***************************************************************************)
(* MfaSetupUseCase and MfaVerifyUseCase, without transactions              *)
(***************************************************************************)

\* setMfaPendingSecret; the answer shows the secret to the user.
SetPendingSecret(s) ==
    /\ pc[s] = "new"
    /\ \E u \in Present :
          /\ Find(s, u)
          /\ WriteNow(s, u, [rows[u] EXCEPT !.pending = s])
    /\ Goto(s, "sent")
    /\ UNCHANGED <<address, credentialVars, faults>>

\* A code of a secret the user was shown.
CodeOf(secret) == secret \in Setup /\ pc[secret] = "sent"

\* findAuthDataById, and a code that is right for the pending secret.
CheckPending(e) ==
    /\ pc[e] = "new"
    /\ \E u \in Present :
          /\ CodeOf(rows[u].pending)
          /\ Find(e, u)
          /\ Hold(e, rows[u].pending)
          /\ proven' = proven \cup {rows[u].pending}
    /\ Goto(e, "enable")
    /\ UNCHANGED <<tableVars, address, columns, resetVars, sessions, faults>>

\* Wrong on purpose: what is pending by now is enabled.
PendingNow(e) == RowOf(e).pending

SecretToEnable(e) == held[e]

\* enableMfa with the secret that was read, whatever is pending by now.
EnableMfa(e) ==
    /\ pc[e] = "enable"
    /\ WriteNow(e, target[e],
                [RowOf(e) EXCEPT !.secret = SecretToEnable(e), !.pending = None])
    /\ Goto(e, "done")
    /\ UNCHANGED <<target, address, credentialVars, faults>>

(***************************************************************************)
(* LoginUseCase and MfaChallengeUseCase                                    *)
(***************************************************************************)

\* findByEmail, the password, the verified address; an enabled second factor
\* is answered with an MFA token.
CheckPassword(l) ==
    /\ pc[l] = "new"
    /\ \E u \in Present :
          /\ RequireEmailVerification => rows[u].verified
          /\ Find(l, u)
          /\ Hold(l, rows[u].secret)
          /\ Goto(l, IF rows[u].secret # None THEN "challenged" ELSE "issue")
    /\ UNCHANGED <<tableVars, address, columns, resetVars, factorVars, faults>>

\* verifyMfaToken, findAuthDataById, and a code that is right for the secret.
CheckCode(c) ==
    /\ pc[c] = "new"
    /\ \E l \in Login :
          /\ pc[l] = "challenged"
          /\ CodeOf(rows[target[l]].secret)
          /\ Find(c, target[l])
          /\ Hold(c, rows[target[l]].secret)
    /\ Goto(c, "issue")
    /\ UNCHANGED <<tableVars, address, columns, resetVars, factorVars, faults>>

MayIssue(q) == pc[q] = "issue"

\* The refresh token, and the commit.
IssueTokens(q) ==
    /\ MayIssue(q)
    /\ sessions' = sessions \cup
          {[user |-> target[q],
            asked |-> held[q],
            code |-> IF q \in Challenge THEN held[q] ELSE None]}
    /\ Goto(q, "done")
    /\ UNCHANGED <<tableVars, target, address, held, columns, resetVars, proven, faults>>

(***************************************************************************)
(* The next step of a request                                              *)
(***************************************************************************)
ChangeStep(q) ==
    \/ LoadUser(q) \/ FindExisting(q) \/ SelectAgain(q) \/ UpdateColumns(q)
    \/ UpdateConflicts(q) \/ CommitChange(q)
PasswordStep(q) ==
    \/ q \in Forgot /\ (ForgotFinds(q) \/ SaveResetToken(q) \/ SendReset(q))
    \/ q \in Reset /\ (ResetFinds(q) \/ UpdatePassword(q) \/ CommitReset(q))
FactorStep(q) ==
    \/ q \in Setup /\ SetPendingSecret(q)
    \/ q \in Enable /\ (CheckPending(q) \/ EnableMfa(q))
    \/ q \in Login /\ (CheckPassword(q) \/ IssueTokens(q))
    \/ q \in Challenge /\ (CheckCode(q) \/ IssueTokens(q))

CredentialsNext ==
    \/ \E q \in Change : ChangeStep(q)
    \/ \E q \in Forgot \cup Reset : PasswordStep(q)
    \/ \E q \in Setup \cup Enable \cup Login \cup Challenge : FactorStep(q)
    \/ \E q \in Change \cup Forgot \cup Reset \cup Setup \cup Enable \cup Login \cup Challenge :
          Refused(q) \/ Throws(q)

=============================================================================
