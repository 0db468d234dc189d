------------------------------ MODULE Sessions ------------------------------
(***************************************************************************)
(* Sessions: refresh tokens issued by logins, rotated by refreshes, and    *)
(* revoked by logouts, by password resets and when a token is presented a  *)
(* second time.                                                            *)
(*                                                                         *)
(* Logins, refreshes and resets run in a READ COMMITTED transaction of     *)
(* CommandUseCase; what they check first they read outside it.  Each       *)
(* action is one statement: a read sees what is committed, a write waits   *)
(* for the transaction that holds the row, and takes effect at the commit. *)
(***************************************************************************)
EXTENDS Naturals, FiniteSets

CONSTANTS
    User,       \* users, numbered in the order of their ids
    ResetOf,    \* the user that the resets are of
    Login,      \* requests POST /auth/login
    Refresh,    \* requests POST /auth/refresh
    Logout,     \* requests POST /auth/logout
    Reset,      \* requests POST /auth/reset-password, with one token
    Nobody,     \* not a request
    MaxFaults   \* bound: statements and commits that fail

\* A refresh token is named after the request that issues it.
Token == Login \cup Refresh
Request == Token \cup Logout \cup Reset

ASSUME UsersAreOrdered == User \subseteq Nat /\ ResetOf \in User
ASSUME RequestsAreDistinct ==
    /\ Login \cap Refresh = {}
    /\ Token \cap Logout = {}
    /\ (Token \cup Logout) \cap Reset = {}
    /\ Nobody \notin Request
ASSUME FaultsAreBounded == MaxFaults \in Nat

VARIABLES
    row,        \* row[t]: refresh token t, as last committed
    owner,      \* owner[t]: the user_id of token t, or Nobody
    expired,    \* tokens whose expires_at has passed
    lock,       \* lock[t]: the transaction that holds the row of t, or Nobody
    userLock,   \* the transaction that holds the row of ResetOf, or Nobody
    gone,       \* users that have been deleted
    consumed,   \* the token of the resets has a consumed_at, as committed
    pc,         \* pc[q]: the statement request q is at
    shown,      \* tokens a client has been answered
    asked,      \* asked[q]: the token that request q presents
    found,      \* found[q]: the rows revokeAllForUser of q has to revoke
    revokedBy,  \* history: the request that revoked a token first
    origin,     \* history: origin[t]: the login at the head of the rotations
    slipped,    \* history: refreshes that went on without having consumed
    swept,      \* history: requests whose revokeAllForUser committed
    resets,     \* history: resets that committed
    before,     \* history: before[k]: those that had when k found its token
    faults

tokenVars == <<row, owner, expired, lock>>
userVars == <<userLock, gone, consumed>>
requestVars == <<asked, found>>
historyVars == <<revokedBy, origin, slipped, swept, resets, before>>
vars == <<tokenVars, userVars, pc, shown, requestVars, historyVars, faults>>

RefreshPc == {"new", "consume", "load", "save", "commit", "findAll", "revokeAll", "end", "done"}
ResetPc == {"new", "password", "use", "findAll", "revokeAll", "end", "done"}

TypeOK ==
    /\ row \in [Token -> {"none", "live", "revoked"}]
    /\ owner \in [Token -> User \cup {Nobody}]
    /\ expired \in SUBSET Token
    /\ lock \in [Token -> Request \cup {Nobody}]
    /\ userLock \in Reset \cup {Nobody}
    /\ gone \in SUBSET User
    /\ consumed \in BOOLEAN
    /\ \A l \in Login : pc[l] \in {"new", "save", "commit", "done"}
    /\ \A r \in Refresh : pc[r] \in RefreshPc
    /\ \A o \in Logout : pc[o] \in {"new", "revoke", "done"}
    /\ \A k \in Reset : pc[k] \in ResetPc
    /\ shown \in SUBSET Token
    /\ asked \in [Refresh \cup Logout -> Token \cup {Nobody}]
    /\ found \in [Refresh \cup Reset -> SUBSET Token]
    /\ \A t \in Token : (row[t] = "revoked") = (revokedBy[t] # Nobody)
    /\ revokedBy \in [Token -> Request \cup {Nobody}]
    /\ origin \in [Token -> Login \cup {Nobody}]
    /\ slipped \in SUBSET Refresh
    /\ swept \in SUBSET (Refresh \cup Reset)
    /\ resets \in SUBSET Reset
    /\ before \in [Reset -> SUBSET Reset]
    /\ faults \in 0..MaxFaults

Init ==
    /\ row = [t \in Token |-> "none"]
    /\ owner = [t \in Token |-> Nobody]
    /\ expired = {}
    /\ lock = [t \in Token |-> Nobody]
    /\ userLock = Nobody
    /\ gone = {}
    /\ consumed = FALSE
    /\ pc = [q \in Request |-> "new"]
    /\ shown = {}
    /\ asked = [q \in Refresh \cup Logout |-> Nobody]
    /\ found = [q \in Refresh \cup Reset |-> {}]
    /\ revokedBy = [t \in Token |-> Nobody]
    /\ origin = [t \in Token |-> IF t \in Login THEN t ELSE Nobody]
    /\ slipped = {}
    /\ swept = {}
    /\ resets = {}
    /\ before = [k \in Reset |-> {}]
    /\ faults = 0

Goto(q, p) == pc' = [pc EXCEPT ![q] = p]
Fault == faults < MaxFaults /\ faults' = faults + 1

Valid(t) == row[t] = "live" /\ t \notin expired

(***************************************************************************)
(* LoginUseCase                                                            *)
(***************************************************************************)

\* findByEmail and compare.  A login that is refused changes nothing.
Authenticate(l) ==
    /\ pc[l] = "new"
    /\ \E u \in User \ gone : owner' = [owner EXCEPT ![l] = u]
    /\ Goto(l, "save")
    /\ UNCHANGED <<row, expired, lock, userVars, shown, requestVars, historyVars, faults>>

\* refreshTokenRepository.save(): an INSERT nobody sees before the commit.
Save(q) ==
    /\ pc[q] = "save"
    /\ Goto(q, "commit")
    /\ UNCHANGED <<tokenVars, userVars, shown, requestVars, historyVars, faults>>

(***************************************************************************)
(* RefreshTokenUseCase                                                     *)
(***************************************************************************)

\* findByHash: a token that was revoked is being presented again.  (One that
\* has expired is refused, which changes nothing.)
Find(r) ==
    /\ pc[r] = "new"
    /\ \E t \in shown :
        /\ row[t] = "revoked" \/ Valid(t)
        /\ asked' = [asked EXCEPT ![r] = t]
        /\ origin' = [origin EXCEPT ![r] = origin[t]]
        /\ Goto(r, IF row[t] = "revoked" THEN "findAll" ELSE "consume")
    /\ UNCHANGED <<tokenVars, userVars, shown, found, revokedBy, slipped, swept,
                   resets, before, faults>>

\* Wrong on purpose: an UPDATE by token_hash alone; one outside the
\* transaction.
ConsumesAny(r) ==
    /\ lock[asked[r]] = Nobody
    /\ lock' = [lock EXCEPT ![asked[r]] = r]
    /\ UNCHANGED <<row, revokedBy, slipped>>

ConsumesAtOnce(r) ==
    /\ lock[asked[r]] = Nobody
    /\ Valid(asked[r])
    /\ row' = [row EXCEPT ![asked[r]] = "revoked"]
    /\ revokedBy' = [revokedBy EXCEPT ![asked[r]] = r]
    /\ UNCHANGED <<lock, slipped>>

\* consumeValidByHash: UPDATE ... WHERE revoked_at IS NULL AND not expired.
\* What query() returns of an UPDATE is the rows and their number, so rows[0]
\* is an array whether a row matched or not, and is never taken for null.
Consumes(r) ==
    /\ lock[asked[r]] = Nobody
    /\ IF Valid(asked[r])
       THEN lock' = [lock EXCEPT ![asked[r]] = r] /\ UNCHANGED slipped
       ELSE slipped' = slipped \cup {r} /\ UNCHANGED lock
    /\ UNCHANGED <<row, revokedBy>>

Consume(r) ==
    /\ pc[r] = "consume"
    /\ Consumes(r)
    /\ Goto(r, "load")
    /\ UNCHANGED <<owner, expired, userVars, shown, requestVars, origin, swept, resets,
                   before, faults>>

\* findByIdWithRolesAndPermissions(consumed.userId): an array has no userId,
\* a condition on undefined is left out, and what is found is the first user.
LoadUser(r) ==
    /\ pc[r] = "load"
    /\ \E u \in User \ gone :
        /\ \A v \in User \ gone : u <= v
        /\ owner' = [owner EXCEPT ![r] = u]
    /\ Goto(r, "save")
    /\ UNCHANGED <<row, expired, lock, userVars, shown, requestVars, historyVars, faults>>

\* Without any user a DomainError ends the command, and the transaction
\* commits what it has done so far.
LoadNobody(r) ==
    /\ pc[r] = "load"
    /\ gone = User
    /\ Goto(r, "end")
    /\ UNCHANGED <<tokenVars, userVars, shown, requestVars, historyVars, faults>>

(***************************************************************************)
(* revokeAllForUser, of a refresh that presents a revoked token and of a   *)
(* reset: one UPDATE, which finds the rows that are live when it starts,   *)
(* waits for those that are held, and looks at each again.                 *)
(***************************************************************************)
UserOf(q) == IF q \in Reset THEN ResetOf ELSE owner[asked[q]]

FindAll(q) ==
    /\ pc[q] = "findAll"
    /\ found' = [found EXCEPT ![q] = {t \in Token : row[t] = "live" /\ owner[t] = UserOf(q)}]
    /\ Goto(q, "revokeAll")
    /\ UNCHANGED <<tokenVars, userVars, shown, asked, historyVars, faults>>

\* Wrong on purpose: rows that are held are passed over.
SkipsHeld(q) == {t \in found[q] : row[t] = "live" /\ lock[t] = Nobody}

StillLive(q) == {t \in found[q] : row[t] = "live"}

RevokeAll(q) ==
    /\ pc[q] = "revokeAll"
    /\ \A t \in StillLive(q) : lock[t] = Nobody
    /\ lock' = [t \in Token |-> IF t \in StillLive(q) THEN q ELSE lock[t]]
    /\ Goto(q, "end")
    /\ UNCHANGED <<row, owner, expired, userVars, shown, requestVars, historyVars, faults>>

(***************************************************************************)
(* LogoutUseCase, without a transaction                                    *)
(***************************************************************************)

\* findValidByHash.  (Without a valid token there is nothing to do.)
FindValid(o) ==
    /\ pc[o] = "new"
    /\ \E t \in shown :
        /\ Valid(t)
        /\ asked' = [asked EXCEPT ![o] = t]
    /\ Goto(o, "revoke")
    /\ UNCHANGED <<tokenVars, userVars, shown, found, historyVars, faults>>

\* revoke(): UPDATE by id, whatever the row has become.
Revoke(o) ==
    /\ pc[o] = "revoke"
    /\ lock[asked[o]] = Nobody
    /\ row' = [row EXCEPT ![asked[o]] = "revoked"]
    /\ revokedBy' = [revokedBy EXCEPT ![asked[o]] = IF @ = Nobody THEN o ELSE @]
    /\ Goto(o, "done")
    /\ UNCHANGED <<owner, expired, lock, userVars, shown, requestVars, origin, slipped, swept,
                   resets, before, faults>>

(***************************************************************************)
(* ResetPasswordUseCase                                                    *)
(***************************************************************************)

\* Wrong on purpose: consumed_at is not looked at.
AnyResetToken == TRUE

ResetTokenValid == ~consumed

\* findValidByHash, and the hash of the new password.
FindResetToken(k) ==
    /\ pc[k] = "new"
    /\ ResetTokenValid
    /\ before' = [before EXCEPT ![k] = resets]
    /\ Goto(k, "password")
    /\ UNCHANGED <<tokenVars, userVars, shown, requestVars, revokedBy, origin, slipped, swept,
                   resets, faults>>

\* updatePasswordHash, which waits for the row of the user.
UpdatePassword(k) ==
    /\ pc[k] = "password"
    /\ userLock = Nobody
    /\ userLock' = IF ResetOf \in gone THEN userLock ELSE k
    /\ Goto(k, "use")
    /\ UNCHANGED <<tokenVars, gone, consumed, shown, requestVars, historyVars, faults>>

\* authTokenRepository.consume(), by id: one reset at a time holds the row.
Use(k) ==
    /\ pc[k] = "use"
    /\ \A j \in Reset \ {k} : pc[j] \notin {"findAll", "revokeAll", "end"}
    /\ Goto(k, "findAll")
    /\ UNCHANGED <<tokenVars, userVars, shown, requestVars, historyVars, faults>>

(***************************************************************************)
(* The end of a transaction                                                *)
(***************************************************************************)
Held(q) == {t \in Token : lock[t] = q}

ReleaseLocks(q) ==
    /\ lock' = [t \in Token |-> IF t \in Held(q) THEN Nobody ELSE lock[t]]
    /\ userLock' = IF userLock = q THEN Nobody ELSE userLock

\* Wrong on purpose: the token that was presented is saved as well, with the
\* revoked_at it was loaded with.
SavesOver(q, t) ==
    IF pc[q] = "commit" /\ t \in Held(q) \cup {q} THEN "live"
    ELSE IF t \in Held(q) THEN "revoked" ELSE row[t]

\* The rows q holds are revoked, and the token it issues, if any, is live.
RowAfter(q, t) ==
    IF t \in Held(q) THEN "revoked"
    ELSE IF t = q /\ pc[q] = "commit" THEN "live" ELSE row[t]

Committed(q) ==
    /\ pc[q] \in {"commit", "end"}
    /\ row' = [t \in Token |-> RowAfter(q, t)]
    /\ revokedBy' = [t \in Token |-> IF t \in Held(q) /\ revokedBy[t] = Nobody THEN q
                                     ELSE revokedBy[t]]
    /\ swept' = IF pc[q] = "end" THEN swept \cup {q} ELSE swept
    /\ resets' = resets \cup (Reset \cap {q})
    /\ consumed' = (consumed \/ q \in Reset)
    /\ ReleaseLocks(q)
    /\ Goto(q, "done")
    /\ UNCHANGED <<owner, expired, gone, requestVars, origin, slipped, before>>

Commit(q) ==
    /\ Committed(q)
    /\ shown' = IF pc[q] = "commit" THEN shown \cup {q} ELSE shown
    /\ UNCHANGED faults

\* The client does not hear of the commit.
CommitUnacknowledged(q) ==
    /\ Fault
    /\ Committed(q)
    /\ UNCHANGED shown

\* A statement or the commit fails, the transaction is rolled back, and what
\* the request had read is gone with it.
Fail(q) ==
    /\ pc[q] \notin {"new", "done"}
    /\ Fault
    /\ ReleaseLocks(q)
    /\ Goto(q, "done")
    /\ asked' = [p \in DOMAIN asked |-> IF p = q THEN Nobody ELSE asked[p]]
    /\ found' = [p \in DOMAIN found |-> IF p = q THEN {} ELSE found[p]]
    /\ owner' = [t \in Token |-> IF t = q THEN Nobody ELSE owner[t]]
    /\ UNCHANGED <<row, expired, gone, consumed, shown, historyVars>>

(***************************************************************************)
(* Time, and DeleteUserUseCase, which leaves refresh_tokens alone          *)
(***************************************************************************)

\* (Nobody can tell when a token expires that no client has.)
Expire(t) ==
    /\ row[t] = "live"
    /\ t \in shown
    /\ t \notin expired
    /\ expired' = expired \cup {t}
    /\ UNCHANGED <<row, owner, lock, userVars, pc, shown, requestVars, historyVars, faults>>

DeleteUser(u) ==
    /\ u \notin gone
    /\ u = ResetOf => userLock = Nobody
    /\ gone' = gone \cup {u}
    /\ UNCHANGED <<tokenVars, userLock, consumed, pc, shown, requestVars, historyVars, faults>>

(***************************************************************************)
(* Specification                                                           *)
(***************************************************************************)
Next ==
    \/ \E l \in Login : Authenticate(l)
    \/ \E t \in Token : Save(t) \/ Expire(t)
    \/ \E r \in Refresh : Find(r) \/ Consume(r) \/ LoadUser(r) \/ LoadNobody(r)
    \/ \E q \in Refresh \cup Reset : FindAll(q) \/ RevokeAll(q)
    \/ \E o \in Logout : FindValid(o) \/ Revoke(o)
    \/ \E k \in Reset : FindResetToken(k) \/ UpdatePassword(k) \/ Use(k)
    \/ \E q \in Request : Commit(q) \/ CommitUnacknowledged(q) \/ Fail(q)
    \/ \E u \in User : DeleteUser(u)

Spec == Init /\ [][Next]_vars

(***************************************************************************)
(* Properties                                                              *)
(***************************************************************************)

\* What the test of a refresh that loses the race expects: a login has at most
\* one live token, however refreshes of it and of its successors race.
OneLivePerLogin ==
    \A t, u \in Token :
        row[t] = "live" /\ row[u] = "live" /\ origin[t] = origin[u] => t = u

\* A refresh of login l went on although its token had been used or revoked,
\* or had expired, since it was found.
Slipped(l) == \E r \in slipped : origin[r] = l

\* A login has one live token at a time until one of its refreshes slips.
OneLiveUnlessSlipped ==
    \A t, u \in Token :
        row[t] = "live" /\ row[u] = "live" /\ origin[t] = origin[u]
            => t = u \/ Slipped(origin[t])

\* A token is not used up without its successor being issued, whichever
\* statement fails, unless there is no user.
RotationIsAtomic ==
    \A r \in Refresh :
        asked[r] # Nobody /\ revokedBy[asked[r]] = r => row[r] # "none" \/ gone = User

\* A session that a logout has ended stays ended: a refresh that had found
\* the token valid before issues nothing, unless it slips.
LogoutEndsUnlessSlipped ==
    \A t, u \in Token :
        revokedBy[t] \in Logout /\ origin[u] = origin[t]
            => row[u] # "live" \/ Slipped(origin[t])

\* A reset, or the reuse of a token, leaves none of the tokens live that were
\* live when it looked, those included that a refresh was about to consume.
RevokeAllMissesNone ==
    \A q \in swept : \A t \in found[q] : row[t] = "revoked"

\* A reset token is used twice only by resets that overlap.
OneUseUnlessOverlapping == \A k \in resets : before[k] = {}

=============================================================================
