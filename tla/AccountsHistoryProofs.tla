------------------------- MODULE AccountsHistoryProofs -------------------------
(***************************************************************************)
(* What the accounts of Accounts owe to what was done before: to a mail,   *)
(* to a person, to a reset, to a code.                                     *)
(*                                                                         *)
(* Base says what each request may write.  RowChanges draws from it the    *)
(* six ways in which a step may change a row, so that each of the four     *)
(* invariants below (Mailing, Linked, ResetHeld, Proven) is a matter of    *)
(* the few columns and the few steps it is about.                          *)
(***************************************************************************)
EXTENDS AccountsRequestsProofs

(***************************************************************************)
(* The steps, and what they do to a row                                    *)
(***************************************************************************)

Registering(q) ==
    q \in Register /\ (RegisterStep(q) \/ HandlerStep(q)) /\ UNCHANGED credentialVars
Verifying(q) == q \in Verify /\ VerifyStep(q) /\ UNCHANGED credentialVars
CallingBack(q) == q \in Callback /\ CallbackStep(q) /\ UNCHANGED credentialVars
Changing(q) == q \in Change /\ ChangeStep(q) /\ UNCHANGED registrationVars
Resetting(q) == q \in Forgot \cup Reset /\ PasswordStep(q) /\ UNCHANGED registrationVars
Proving(q) ==
    /\ q \in Setup \cup Enable \cup Login \cup Challenge
    /\ FactorStep(q) /\ UNCHANGED registrationVars
Failing(q) == q \in Credentialed /\ (Refused(q) \/ Throws(q)) /\ UNCHANGED registrationVars

Step(q) ==
    \/ Registering(q) \/ Verifying(q) \/ CallingBack(q) \/ Changing(q) \/ Resetting(q)
    \/ Proving(q) \/ Failing(q)

\* A step is one request's, and the others are left alone.
LEMMA Steps ==
    ASSUME Base, [Next]_vars
    PROVE  \/ \E q \in Request : Step(q) /\ Kept(q) /\ RowsGrow(q)
           \/ Crash
           \/ UNCHANGED vars
<1>1. ASSUME NEW q \in Request, Step(q) PROVE Kept(q) /\ RowsGrow(q)
    BY <1>1, RegisterKeepsBase, VerifyKeepsBase, CallbackKeepsBase, ChangeKeepsBase,
       PasswordKeepsBase, FactorKeepsBase, RefusedOrThrowsKeepsBase
    DEF Step, Registering, Verifying, CallingBack, Changing, Resetting, Proving, Failing
<1>2. CASE RegistrationNext /\ UNCHANGED credentialVars
    <2>1. PICK q \in Register \cup Verify \cup Callback : Step(q)
        BY <1>2 DEF RegistrationNext, Step, Registering, Verifying, CallingBack
    <2>2. QED
        BY <1>1, <2>1, RegistrationAssumption
<1>3. CASE CredentialsNext /\ UNCHANGED registrationVars
    <2>1. PICK q \in Credentialed : Step(q)
        BY <1>3 DEF CredentialsNext, Credentialed, Step, Changing, Resetting, Proving, Failing
    <2>2. QED
        BY <1>1, <2>1, CredentialsAssumption DEF Credentialed
<1>4. QED
    BY <1>2, <1>3 DEF Next

Created(u) ==
    /\ u \in Register \cup Callback
    /\ rows[u] = None /\ rows'[u] = NewRow(address[u], u)
ByVerify(u) ==
    /\ rows[u] \in Row
    /\ \E v \in Verify :
          /\ CommitVerified(v) /\ target[v] = u
          /\ rows'[u] = [rows[u] EXCEPT !.verified = TRUE]
ByChange(u) ==
    /\ rows[u] \in Row
    /\ \E q \in Change :
          /\ CommitChange(q) /\ target[q] = u
          /\ work[q].row = Changed(q) /\ rows'[u] = Changed(q)
ByReset(u) ==
    /\ rows[u] \in Row
    /\ \E r \in Reset :
          /\ CommitReset(r) /\ target[r] = u
          /\ rows'[u] = [rows[u] EXCEPT !.password = r]
BySetup(u) ==
    /\ rows[u] \in Row
    /\ \E s \in Setup : rows'[u] = [rows[u] EXCEPT !.pending = s]
ByEnable(u) ==
    /\ rows[u] \in Row
    /\ \E e \in Enable :
          /\ pc[e] = "enable"
          /\ rows'[u] = [rows[u] EXCEPT !.secret = held[e], !.pending = None]

RowChange(u) ==
    \/ rows'[u] = rows[u]
    \/ Created(u) \/ ByVerify(u) \/ ByChange(u) \/ ByReset(u) \/ BySetup(u) \/ ByEnable(u)

\* A request that commits its work on an existing row.
LEMMA CommitChanges ==
    ASSUME Base, NEW q \in Verify \cup Change \cup Reset, pc[q] = "commit", Commit(q)
    PROVE  /\ \A u \in User \ {target[q]} : rows'[u] = rows[u]
           /\ rows[target[q]] \in Row
           /\ rows'[target[q]] = work[q].row
           /\ q \in Verify => work[q].row = [rows[target[q]] EXCEPT !.verified = TRUE]
           /\ q \in Change => work[q].row = Changed(q)
           /\ q \in Reset => work[q].row = [rows[target[q]] EXCEPT !.password = q]
<1>1. q \in Request
    BY RegistrationAssumption, CredentialsAssumption
<1>2. work[q] # None /\ WorkOK(q)
    BY <1>1, RowIsCommitted DEF Base, RequestOK
<1>3. QED
    BY <1>1, <1>2, RowIsCommitted DEF WorkOK, RowOf

LEMMA RowChanges ==
    ASSUME Base, [Next]_vars, NEW u \in User
    PROVE  RowChange(u)
<1>1. CASE UNCHANGED rows
    BY <1>1 DEF RowChange
<1>2. ASSUME NEW q \in Request, Step(q) PROVE RowChange(u)
    <2>1. CASE Registering(q)
        <3>1. CASE RegisterStep(q)
            BY <2>1, <3>1, RegisterRows DEF Registering, RowChange, Created
        <3>2. CASE HandlerStep(q)
            BY <3>2
            DEF HandlerStep, SaveVerifyToken, SendVerification, HandlerFails, tableVars,
                RowChange
        <3>3. QED
            BY <2>1, <3>1, <3>2 DEF Registering
    <2>2. CASE Verifying(q)
        <3>1. CASE CommitVerified(q)
            BY <2>2, <3>1, CommitChanges
            DEF Verifying, CommitVerified, RowChange, ByVerify
        <3>2. CASE ~CommitVerified(q)
            BY <2>2, <3>2
            DEF Verifying, VerifyStep, VerifyFinds, VerifyRefused, MarkVerified, VerifyThrows,
                Write, Rollback, tableVars, RowChange
        <3>3. QED
            BY <3>1, <3>2
    <2>3. CASE CallingBack(q)
        BY <2>3, CallbackRows DEF CallingBack, RowChange, Created
    <2>4. CASE Changing(q)
        <3>1. CASE CommitChange(q)
            BY <2>4, <3>1, CommitChanges
            DEF Changing, CommitChange, RowChange, ByChange
        <3>2. CASE ~CommitChange(q)
            BY <2>4, <3>2
            DEF Changing, ChangeStep, LoadUser, FindExisting, SelectAgain, UpdateColumns,
                UpdateConflicts, Write, Rollback, tableVars, RowChange
        <3>3. QED
            BY <3>1, <3>2
    <2>5. CASE Resetting(q)
        <3>1. CASE q \in Reset /\ CommitReset(q)
            <4>1. pc[q] = "commit" /\ Commit(q)
                BY <3>1 DEF CommitReset
            <4>2. /\ \A w \in User \ {target[q]} : rows'[w] = rows[w]
                  /\ rows[target[q]] \in Row
                  /\ rows'[target[q]] = [rows[target[q]] EXCEPT !.password = q]
                BY <3>1, <4>1, CommitChanges
            <4>3. QED
                BY <3>1, <4>2 DEF RowChange, ByReset
        <3>2. CASE ~(q \in Reset /\ CommitReset(q))
            BY <2>5, <3>2
            DEF Resetting, PasswordStep, ForgotFinds, SaveResetToken, SendReset, ResetFinds,
                UpdatePassword, Write, tableVars, RowChange
        <3>3. QED
            BY <3>1, <3>2
    <2>6. CASE Proving(q)
        <3>1. CASE q \in Setup /\ SetPendingSecret(q)
            <4>1. PICK w \in Present : WriteNow(q, w, [rows[w] EXCEPT !.pending = q])
                BY <3>1 DEF SetPendingSecret
            <4>2. w \in User /\ rows[w] \in Row /\ rows \in [User -> Row \cup {None}]
                BY TypedHolds DEF Present, Typed
            <4>3. rows'[u] = IF u = w THEN [rows[w] EXCEPT !.pending = q] ELSE rows[u]
                BY <4>1, <4>2 DEF WriteNow
            <4>4. QED
                BY <3>1, <4>2, <4>3 DEF RowChange, BySetup
        <3>2. CASE q \in Enable /\ EnableMfa(q)
            <4>1. /\ pc[q] = "enable"
                  /\ WriteNow(q, target[q],
                              [rows[target[q]] EXCEPT !.secret = held[q], !.pending = None])
                BY <3>2 DEF EnableMfa, RowOf, SecretToEnable
            <4>2. /\ target[q] \in User /\ rows[target[q]] \in Row
                  /\ rows \in [User -> Row \cup {None}]
                BY <3>2, <4>1, TypedHolds, OneRoute DEF Base, RequestOK, FoundOK, Typed
            <4>3. rows'[u] = IF u = target[q]
                             THEN [rows[u] EXCEPT !.secret = held[q], !.pending = None]
                             ELSE rows[u]
                BY <4>1, <4>2 DEF WriteNow
            <4>4. QED
                BY <3>2, <4>1, <4>2, <4>3 DEF RowChange, ByEnable
        <3>3. CASE ~(q \in Setup /\ SetPendingSecret(q)) /\ ~(q \in Enable /\ EnableMfa(q))
            BY <2>6, <3>3
            DEF Proving, FactorStep, CheckPending, CheckPassword, CheckCode, IssueTokens,
                tableVars, RowChange
        <3>4. QED
            BY <3>1, <3>2, <3>3
    <2>7. CASE Failing(q)
        BY <2>7 DEF Failing, Refused, Throws, Rollback, tableVars, RowChange
    <2>8. QED
        BY <1>2, <2>1, <2>2, <2>3, <2>4, <2>5, <2>6, <2>7 DEF Step
<1>3. CASE Crash
    BY <1>3 DEF Crash, RowChange
<1>4. CASE UNCHANGED vars
    BY <1>4 DEF vars, tableVars, RowChange
<1>5. QED
    BY <1>2, <1>3, <1>4, Steps

\* Each column of a row that is there has its writers.
LEMMA ColumnChanges ==
    ASSUME Base, [Next]_vars, NEW u \in User, rows[u] # None
    PROVE  /\ rows[u] \in Row /\ rows'[u] \in Row /\ rows'[u] # None
           /\ rows'[u].email = rows[u].email \/ ByChange(u)
           /\ rows'[u].verified = rows[u].verified \/ ByVerify(u)
           /\ rows'[u].password = rows[u].password \/ ByChange(u) \/ ByReset(u)
           /\ rows'[u].secret = rows[u].secret \/ ByEnable(u)
<1>1. rows[u] \in Row /\ rows'[u] \in Row /\ rows'[u] # None
    <2>1. Base'
        BY StepKeepsBase
    <2>2. rows'[u] # None
        BY Steps DEF RowsGrow, Crash, vars, tableVars
    <2>3. QED
        BY <2>1, <2>2, TypedHolds DEF Base, TypeOK, TableTypeOK
<1>2. CASE ByVerify(u)
    BY <1>1, <1>2 DEF ByVerify, Row
<1>3. CASE ByChange(u)
    <2>1. PICK q \in Change : target[q] = u /\ rows'[u] = Changed(q)
        BY <1>3 DEF ByChange
    <2>2. /\ rows'[u].verified = rows[u].verified
          /\ rows'[u].secret = rows[u].secret
        BY <1>1, <2>1 DEF Changed, RowOf, Row
    <2>3. QED
        BY <1>1, <1>3, <2>2
<1>4. CASE ByReset(u)
    BY <1>1, <1>4 DEF ByReset, Row
<1>5. CASE BySetup(u)
    BY <1>1, <1>5 DEF BySetup, Row
<1>6. CASE ByEnable(u)
    BY <1>1, <1>6 DEF ByEnable, Row
<1>7. ~Created(u)
    BY DEF Created
<1>8. QED
    BY <1>1, <1>2, <1>3, <1>4, <1>5, <1>6, <1>7, RowChanges DEF RowChange

(***************************************************************************)
(* The mail                                                                *)
(***************************************************************************)

\* An address that has changed is on record.
LEMMA AddressChanges ==
    ASSUME Base, [Next]_vars, NEW u \in User, rows[u] # None
    PROVE  /\ rows'[u] # None
           /\ rows'[u].email = rows[u].email \/ u \in readdressed'
<1>1. CASE ByChange(u)
    <2>1. PICK q \in Change : CommitChange(q) /\ target[q] = u /\ rows'[u] = work[q].row
        BY <1>1 DEF ByChange
    <2>2. QED
        BY <2>1, ColumnChanges DEF CommitChange, RowOf
<1>2. QED
    BY <1>1, ColumnChanges

LEMMA HistoryStays ==
    ASSUME Base, [Next]_vars
    PROVE  mailed \subseteq mailed' /\ readdressed \subseteq readdressed'
<1>1. ASSUME NEW q \in Request, Step(q)
      PROVE  mailed \subseteq mailed' /\ readdressed \subseteq readdressed'
    <2>1. CASE Registering(q)
        BY <2>1
        DEF Registering, RegisterStep, RegisterStarts, InsertUser, InsertConflicts,
            SaveRefreshToken, Stage, CommitRegistration, Flush, RegisterThrows,
            HandlerStep, SaveVerifyToken, SendVerification, HandlerFails,
            registrationVars, eventVars, credentialVars
    <2>2. CASE Verifying(q)
        BY <2>2
        DEF Verifying, VerifyStep, VerifyFinds, VerifyRefused, MarkVerified, CommitVerified,
            VerifyThrows, registrationVars, credentialVars
    <2>3. CASE CallingBack(q)
        BY <2>3
        DEF CallingBack, CallbackStep, LookUpSubject, FindByAddress, CreateUser,
            CreateConflicts, Link, SignIn, CallbackThrows, registrationVars, eventVars,
            credentialVars
    <2>4. CASE Changing(q)
        BY <2>4
        DEF Changing, ChangeStep, LoadUser, FindExisting, SelectAgain, UpdateColumns,
            UpdateConflicts, CommitChange, registrationVars, credentialVars, resetVars
    <2>5. CASE Resetting(q)
        BY <2>5
        DEF Resetting, PasswordStep, ForgotFinds, SaveResetToken, SendReset, ResetFinds,
            UpdatePassword, CommitReset, registrationVars, credentialVars, resetVars
    <2>6. CASE Proving(q)
        BY <2>6
        DEF Proving, FactorStep, SetPendingSecret, CheckPending, EnableMfa, CheckPassword,
            CheckCode, IssueTokens, registrationVars, credentialVars, resetVars
    <2>7. CASE Failing(q)
        BY <2>7 DEF Failing, Refused, Throws, registrationVars, credentialVars
    <2>8. QED
        BY <1>1, <2>1, <2>2, <2>3, <2>4, <2>5, <2>6, <2>7 DEF Step
<1>2. QED
    BY <1>1, Steps DEF Crash, vars, registrationVars, credentialVars

\* A user keeps the address it came with: the statement that sets one comes
\* before the user.
LEMMA OwnAddressStays ==
    ASSUME Base, [Next]_vars, NEW u \in Register \cup Callback, rows'[u] # None
    PROVE  address'[u] = address[u]
<1>1. u \in Request /\ RegisterOK(u) /\ CallbackOK(u) /\ Typed
    BY TypedHolds, RegistrationAssumption DEF Base, RequestOK
<1>2. u \notin Verify \cup Change \cup Credentialed
    BY OneRoute DEF Credentialed
<1>3. ASSUME NEW q \in Request, Step(q), Kept(q) PROVE address'[u] = address[u]
    <2>1. CASE u # q
        BY <1>1, <1>3, <2>1 DEF Kept
    <2>2. CASE u = q /\ u \in Register
        <3>1. ~RegisterStarts(u)
            BY <1>1, <2>2 DEF RegisterStarts, RegisterOK, tableVars
        <3>2. QED
            BY <1>2, <1>3, <2>2, <3>1, OneRoute
            DEF Step, Verifying, CallingBack, Changing, Resetting, Proving, Failing,
                Credentialed,
                Registering, RegisterStep, InsertUser, InsertConflicts, SaveRefreshToken,
                Stage, CommitRegistration, Flush, RegisterThrows, HandlerStep,
                SaveVerifyToken, SendVerification, HandlerFails, requestVars
    <2>3. CASE u = q /\ u \in Callback
        <3>1. ~LookUpSubject(u)
            BY <1>1, <2>3 DEF LookUpSubject, CallbackOK, tableVars
        <3>2. QED
            BY <1>2, <1>3, <2>3, <3>1, OneRoute
            DEF Step, Verifying, Registering, Changing, Resetting, Proving, Failing,
                Credentialed,
                CallingBack, CallbackStep, FindByAddress, CreateUser, CreateConflicts, Link,
                SignIn, CallbackThrows
    <2>4. QED
        BY <2>1, <2>2, <2>3
<1>4. QED
    BY <1>3, Steps DEF Crash, vars, requestVars

\* Who is verified was mailed, and has the address it came with.
Mailing ==
    /\ \A v \in Verify : pc[v] \in {"mark", "commit"} => target[v] \in mailed
    /\ \A u \in Present \ {Seeded} :
          /\ rows[u].verified => u \in mailed
          /\ rows[u].email = address[u] \/ u \in readdressed

\* A request that verifies has found a token that was mailed.
LEMMA VerifiesWhatWasMailed ==
    ASSUME Base, Mailing, [Next]_vars, NEW v \in Verify, pc'[v] \in {"mark", "commit"}
    PROVE  target'[v] \in mailed'
<1>1. v \in Request /\ Typed
    BY TypedHolds, RegistrationAssumption
<1>2. v \notin Register \cup Callback \cup Credentialed
    BY OneRoute DEF Credentialed
<1>3. pc[v] \in {"mark", "commit"} => target[v] \in mailed
    BY DEF Mailing
<1>4. mailed \subseteq mailed'
    BY HistoryStays
<1>5. ASSUME NEW q \in Request, Step(q), Kept(q) PROVE target'[v] \in mailed'
    <2>1. CASE v # q
        BY <1>1, <1>3, <1>4, <1>5, <2>1 DEF Kept
    <2>2. CASE v = q
        <3>1. VerifyStep(v)
            BY <1>2, <1>5, <2>2
            DEF Step, Registering, Verifying, CallingBack, Changing, Resetting, Proving,
                Failing, Credentialed
        <3>2. CASE VerifyFinds(v)
            BY <1>1, <1>4, <3>2 DEF VerifyFinds, TokensFound, Typed
        <3>3. CASE MarkVerified(v)
            BY <1>3, <1>4, <3>3 DEF MarkVerified
        <3>4. CASE VerifyRefused(v) \/ CommitVerified(v) \/ VerifyThrows(v)
            BY <1>1, <3>4 DEF VerifyRefused, CommitVerified, VerifyThrows, Goto, Typed
        <3>5. QED
            BY <3>1, <3>2, <3>3, <3>4 DEF VerifyStep
    <2>3. QED
        BY <2>1, <2>2
<1>6. CASE Crash
    BY <1>1, <1>3, <1>4, <1>6 DEF Crash
<1>7. QED
    BY <1>3, <1>4, <1>5, <1>6, Steps DEF vars, requestVars

LEMMA StepKeepsMailing ==
    ASSUME Base, Mailing, [Next]_vars
    PROVE  Mailing'
<1>1. \A v \in Verify : pc'[v] \in {"mark", "commit"} => target'[v] \in mailed'
    BY VerifiesWhatWasMailed
<1>2. ASSUME NEW u \in User \ {Seeded}, rows'[u] # None
      PROVE  /\ rows'[u].verified => u \in mailed'
             /\ rows'[u].email = address'[u] \/ u \in readdressed'
    <2>1. CASE rows[u] # None
        <3>1. u \in Register \cup Callback
            BY <2>1 DEF Base, Existing
        <3>2. /\ rows[u].verified => u \in mailed
              /\ rows[u].email = address[u] \/ u \in readdressed
            BY <2>1 DEF Mailing, Present
        <3>3. address'[u] = address[u]
            BY <1>2, <3>1, OwnAddressStays
        <3>4. ByVerify(u) => u \in mailed
            BY DEF ByVerify, CommitVerified, Mailing
        <3>5. QED
            BY <2>1, <3>2, <3>3, <3>4, AddressChanges, ColumnChanges, HistoryStays
    <2>2. CASE rows[u] = None
        <3>1. Created(u)
            BY <1>2, <2>2, RowChanges, NoneAssumption
            DEF RowChange, ByVerify, ByChange, ByReset, BySetup, ByEnable
        <3>2. rows'[u].verified = FALSE /\ rows'[u].email = address[u]
            BY <3>1 DEF Created, NewRow
        <3>3. address'[u] = address[u]
            BY <1>2, <3>1, OwnAddressStays DEF Created
        <3>4. QED
            BY <3>2, <3>3
    <2>3. QED
        BY <2>1, <2>2
<1>3. QED
    BY <1>1, <1>2 DEF Mailing, Present

(***************************************************************************)
(* The person                                                              *)
(***************************************************************************)

\* The users that callbacks have found, created or linked.
Persons ==
    identities \cup {account[c] : c \in {d \in Callback : account[d] # None}}
               \cup {target[c] : c \in {d \in Callback : pc[d] \in {"link", "issue"}}}

Linked ==
    \A u \in Persons : rows[u] # None /\ (rows[u].email = PersonAddress \/ u \in readdressed)

\* A callback comes to a user that it finds linked, finds by the person's
\* address, or creates with it.
LEMMA PersonsCome ==
    ASSUME Base, [Next]_vars, NEW u \in Persons'
    PROVE  u \in Persons \/ (rows'[u] # None /\ rows'[u].email = PersonAddress)
<1>1. Typed /\ TypeOK /\ Callback \subseteq Request
    BY TypedHolds, RegistrationAssumption DEF Base
<1>2. ASSUME NEW q \in Request, Step(q), Kept(q), q \notin Callback PROVE Persons' = Persons
    <2>1. UNCHANGED <<identities, account>>
        BY <1>2
        DEF Step, Registering, Verifying, CallingBack, Changing, Resetting, Proving, Failing,
            RegisterStep, RegisterStarts, InsertUser, InsertConflicts, SaveRefreshToken,
            Stage, CommitRegistration, Flush, RegisterThrows, HandlerStep, SaveVerifyToken,
            SendVerification, HandlerFails, VerifyStep, VerifyFinds, VerifyRefused,
            MarkVerified, CommitVerified, VerifyThrows, registrationVars, personVars
    <2>2. \A c \in Callback : pc'[c] = pc[c] /\ target'[c] = target[c]
        BY <1>1, <1>2 DEF Kept
    <2>3. QED
        BY <2>1, <2>2 DEF Persons
<1>3. ASSUME NEW q \in Callback, Step(q), Kept(q)
      PROVE  u \in Persons \/ (rows'[u] # None /\ rows'[u].email = PersonAddress)
    <2>1. CallbackStep(q) /\ q \in Request /\ CallbackOK(q)
        BY <1>1, <1>3, OneRoute
        DEF Step, Registering, Verifying, CallingBack, Changing, Resetting, Proving, Failing,
            Credentialed, Base, RequestOK
    <2>2. \A c \in Callback \ {q} : pc'[c] = pc[c] /\ target'[c] = target[c]
        BY <1>1, <1>3 DEF Kept
    <2>3. \A c \in Callback \ {q} : pc[c] \in {"link", "issue"} => target[c] \in Persons
        BY DEF Persons
    <2>4. /\ identities \subseteq Persons
          /\ \A c \in Callback : account[c] # None => account[c] \in Persons
          /\ pc[q] \in {"link", "issue"} => target[q] \in Persons
        BY DEF Persons
    <2>5. /\ identities' \subseteq Persons
          /\ \A c \in Callback : account'[c] # None => account'[c] \in Persons
        BY <1>1, <2>1, <2>4
        DEF CallbackStep, LookUpSubject, FindByAddress, CreateUser, CreateConflicts, Link,
            SignIn, CallbackThrows, registrationVars, TypeOK, RegistrationTypeOK
    <2>6. pc'[q] \in {"link", "issue"} =>
              \/ target'[q] \in Persons
              \/ rows'[target'[q]] # None /\ rows'[target'[q]].email = PersonAddress
        <3>1. CASE LookUpSubject(q)
            BY <1>1, <2>1, <2>4, <3>1 DEF LookUpSubject, Goto, Typed
        <3>2. CASE FindByAddress(q)
            <4>1. address[q] = PersonAddress /\ UNCHANGED rows
                BY <2>1, <3>2 DEF FindByAddress, CallbackOK, tableVars
            <4>2. Known(address[q]) => /\ rows[UserOf(address[q])] # None
                                      /\ rows[UserOf(address[q])].email = address[q]
                BY DEF Known, UserOf
            <4>3. QED
                BY <1>1, <2>1, <3>2, <4>1, <4>2 DEF FindByAddress, Goto, Typed
        <3>3. CASE CreateUser(q)
            <4>1. /\ address[q] = PersonAddress /\ target'[q] = q
                  /\ rows'[q] = NewRow(address[q], q) /\ rows'[q] # None
                BY <1>3, <2>1, <3>3, CallbackRows DEF CreateUser, CallbackOK
            <4>2. QED
                BY <4>1 DEF NewRow
        <3>4. CASE Link(q)
            BY <2>4, <3>4 DEF Link
        <3>5. CASE CreateConflicts(q) \/ SignIn(q) \/ CallbackThrows(q)
            BY <1>1, <2>1, <3>5 DEF CreateConflicts, SignIn, CallbackThrows, Goto, Typed
        <3>6. QED
            BY <2>1, <3>1, <3>2, <3>3, <3>4, <3>5 DEF CallbackStep
    <2>7. QED
        BY <2>2, <2>3, <2>5, <2>6 DEF Persons
<1>4. CASE Crash
    BY <1>1, <1>4 DEF Crash, Persons, personVars
<1>5. CASE UNCHANGED vars
    BY <1>5 DEF vars, requestVars, registrationVars, Persons
<1>6. QED
    BY <1>2, <1>3, <1>4, <1>5, Steps

LEMMA PersonsAreUsers == Base => Persons \subseteq User
BY RegistrationAssumption DEF Persons, Base, TypeOK, RegistrationTypeOK

LEMMA StepKeepsLinked ==
    ASSUME Base, Linked, [Next]_vars
    PROVE  Linked'
<1> SUFFICES ASSUME NEW u \in Persons'
             PROVE  rows'[u] # None /\ (rows'[u].email = PersonAddress \/ u \in readdressed')
    BY DEF Linked
<1>1. CASE u \in Persons
    <2>1. u \in User /\ rows[u] # None /\ (rows[u].email = PersonAddress \/ u \in readdressed)
        BY <1>1, PersonsAreUsers DEF Linked
    <2>2. QED
        BY <2>1, AddressChanges, HistoryStays
<1>2. CASE u \notin Persons
    BY <1>2, PersonsCome
<1>3. QED
    BY <1>1, <1>2

(***************************************************************************)
(* The reset                                                               *)
(***************************************************************************)

\* Nobody is about to write another hash than that of the last reset.
ResetHeld ==
    /\ \A q \in Change :
          pc[q] \in {"update", "commit"} /\ "password" \in columns[q] => q \in stale
    /\ \A u \in User : lastReset[u] # None => rows[u] # None
    /\ \A u \in User : lastReset[u] # None /\ straddled[u] = {} =>
          /\ rows[u].password = lastReset[u]
          /\ \A q \in Change : target[q] = u =>
                /\ pc[q] = "select" => held[q] = lastReset[u]
                /\ pc[q] \in {"update", "commit"} => "password" \notin columns[q]

\* Who has found the hash to differ is counted.
LEMMA DifferingIsStale ==
    ASSUME Base, ResetHeld, [Next]_vars, NEW q \in Change,
           pc'[q] \in {"update", "commit"}, "password" \in columns'[q]
    PROVE  q \in stale'
<1>1. q \in Request /\ Typed /\ q \notin Register \cup Verify \cup Callback
    BY TypedHolds, OneRoute, CredentialsAssumption
<1>2. pc[q] \in {"update", "commit"} /\ "password" \in columns[q] => q \in stale
    BY DEF ResetHeld
<1>3. stale \subseteq stale'
    BY Steps
    DEF Step, Registering, Verifying, CallingBack, Changing, Resetting, Proving, Failing,
        ChangeStep, LoadUser, FindExisting, SelectAgain, UpdateColumns, UpdateConflicts,
        CommitChange, PasswordStep, ForgotFinds, SaveResetToken, SendReset, ResetFinds,
        UpdatePassword, CommitReset, FactorStep, SetPendingSecret, CheckPending, EnableMfa,
        CheckPassword, CheckCode, IssueTokens, Refused, Throws, Crash, vars,
        credentialVars, resetVars
<1>4. ASSUME NEW p \in Request, Step(p), Kept(p) PROVE q \in stale'
    <2>1. CASE p # q
        BY <1>1, <1>2, <1>3, <1>4, <2>1 DEF Kept
    <2>2. CASE p = q
        <3>1. Changing(q) \/ Failing(q)
            BY <1>1, <1>4, <2>2, OneRoute
            DEF Step, Registering, Verifying, CallingBack, Resetting, Proving
        <3>2. CASE SelectAgain(q)
            BY <1>1, <3>2 DEF SelectAgain, Differing, Typed
        <3>3. CASE UpdateColumns(q)
            BY <1>2, <1>3, <3>3 DEF UpdateColumns, credentialVars
        <3>4. CASE \/ LoadUser(q) \/ FindExisting(q) \/ UpdateConflicts(q) \/ CommitChange(q)
                   \/ Failing(q)
            BY <1>1, <3>4
            DEF LoadUser, FindExisting, UpdateConflicts, CommitChange, Failing, Refused,
                Throws, Goto, Typed
        <3>5. QED
            BY <3>1, <3>2, <3>3, <3>4 DEF Changing, ChangeStep
    <2>3. QED
        BY <2>1, <2>2
<1>5. CASE Crash
    BY <1>1, <1>2, <1>3, <1>5 DEF Crash, credentialVars
<1>6. CASE UNCHANGED vars
    BY <1>2, <1>6 DEF vars, requestVars, credentialVars
<1>7. QED
    BY <1>4, <1>5, <1>6, Steps

LEMMA ResetsAreCommitted ==
    ASSUME Base, [Next]_vars
    PROVE  \/ UNCHANGED <<lastReset, straddled>>
           \/ \E r \in Reset : CommitReset(r) /\ Kept(r)
<1>1. ASSUME NEW q \in Request, Step(q), Kept(q)
      PROVE  UNCHANGED <<lastReset, straddled>> \/ (q \in Reset /\ CommitReset(q))
    BY <1>1
    DEF Step, Registering, Verifying, CallingBack, Changing, Resetting, Proving, Failing,
        ChangeStep, LoadUser, FindExisting, SelectAgain, UpdateColumns, UpdateConflicts,
        CommitChange, PasswordStep, ForgotFinds, SaveResetToken, SendReset, ResetFinds,
        UpdatePassword, FactorStep, SetPendingSecret, CheckPending, EnableMfa,
        CheckPassword, CheckCode, IssueTokens, Refused, Throws, credentialVars, resetVars
<1>2. QED
    BY <1>1, Steps DEF Crash, vars, credentialVars

\* An update that reads after a reset reads its hash, and one that had read it
\* finds it the same.
LEMMA UpdatesFollow ==
    ASSUME Base, ResetHeld, [Next]_vars, NEW u \in User,
           lastReset[u] # None, straddled[u] = {},
           NEW q \in Change, target'[q] = u
    PROVE  /\ pc'[q] = "select" => held'[q] = lastReset[u]
           /\ pc'[q] \in {"update", "commit"} => "password" \notin columns'[q]
<1> DEFINE Follows == /\ pc'[q] = "select" => held'[q] = lastReset[u]
                      /\ pc'[q] \in {"update", "commit"} => "password" \notin columns'[q]
<1>1. q \in Request /\ Typed /\ q \notin Register \cup Verify \cup Callback
    BY TypedHolds, OneRoute, CredentialsAssumption
<1>2. /\ rows[u].password = lastReset[u]
      /\ target[q] = u =>
            /\ pc[q] = "select" => held[q] = lastReset[u]
            /\ pc[q] \in {"update", "commit"} => "password" \notin columns[q]
    BY DEF ResetHeld
<1>3. ASSUME NEW p \in Request, Step(p), Kept(p) PROVE Follows
    <2>1. CASE p # q
        BY <1>1, <1>2, <1>3, <2>1 DEF Kept
    <2>2. CASE p = q
        <3>1. Changing(q) \/ Failing(q)
            BY <1>1, <1>3, <2>2, OneRoute
            DEF Step, Registering, Verifying, CallingBack, Resetting, Proving
        <3>2. CASE FindExisting(q)
            <4>1. pc'[q] = "select" /\ held'[q] = rows[target[q]].password /\ target' = target
                BY <1>1, <3>2 DEF FindExisting, ExistingHash, Hold, RowOf, Goto, Typed
            <4>2. QED
                BY <1>2, <4>1
        <3>3. CASE SelectAgain(q)
            <4>1. /\ pc[q] = "select" /\ pc'[q] = "update" /\ target' = target
                  /\ columns'[q] = Differing(q)
                BY <1>1, <3>3 DEF SelectAgain, Goto, Typed
            <4>2. held[q] = RowOf(q).password
                BY <1>2, <4>1 DEF RowOf
            <4>3. QED
                BY <4>1, <4>2 DEF Differing
        <3>4. CASE UpdateColumns(q)
            BY <1>1, <1>2, <3>4 DEF UpdateColumns, credentialVars, Goto, Typed
        <3>5. CASE LoadUser(q) \/ UpdateConflicts(q) \/ CommitChange(q) \/ Failing(q)
            BY <1>1, <3>5
            DEF LoadUser, UpdateConflicts, CommitChange, Failing, Refused, Throws, Goto, Typed
        <3>6. QED
            BY <3>1, <3>2, <3>3, <3>4, <3>5 DEF Changing, ChangeStep
    <2>3. QED
        BY <2>1, <2>2
<1>4. CASE Crash
    BY <1>1, <1>2, <1>4 DEF Crash, credentialVars
<1>5. CASE UNCHANGED vars
    BY <1>2, <1>5 DEF vars, requestVars, credentialVars
<1>6. QED
    BY <1>3, <1>4, <1>5, Steps

\* The password stays the one of the last reset.
LEMMA PasswordStays ==
    ASSUME Base, ResetHeld, [Next]_vars, NEW u \in User,
           lastReset[u] # None, straddled[u] = {}, ~ByReset(u)
    PROVE  rows'[u].password = lastReset[u]
<1>1. rows[u] # None /\ rows[u].password = lastReset[u]
    BY DEF ResetHeld
<1>2. CASE ByChange(u)
    <2>1. PICK q \in Change : pc[q] = "commit" /\ target[q] = u /\ rows'[u] = Changed(q)
        BY <1>2 DEF ByChange, CommitChange
    <2>2. "password" \notin columns[q] /\ RowOf(q) = rows[u]
        BY <2>1 DEF ResetHeld, RowOf
    <2>3. Changed(q).password = rows[u].password
        BY <1>1, <2>2, ColumnChanges DEF Changed, Row
    <2>4. QED
        BY <1>1, <2>1, <2>3
<1>3. QED
    BY <1>1, <1>2, ColumnChanges

\* A reset that commits leaves no update behind that would write another hash
\* and is not counted: one that had written holds the row.
LEMMA ResetCommits ==
    ASSUME Base, ResetHeld, [Next]_vars, NEW r \in Reset, CommitReset(r), Kept(r)
    PROVE  /\ \A u \in User : lastReset'[u] # None => rows'[u] # None
           /\ \A u \in User : lastReset'[u] # None /\ straddled'[u] = {} =>
                 /\ rows'[u].password = lastReset'[u]
                 /\ \A q \in Change : target'[q] = u =>
                       /\ pc'[q] = "select" => held'[q] = lastReset'[u]
                       /\ pc'[q] \in {"update", "commit"} => "password" \notin columns'[q]
<1>1. r \in Request /\ Typed /\ TypeOK /\ WorkOK(r) /\ target[r] \in User
    BY TypedHolds, CredentialsAssumption DEF Base, RequestOK, Typed
<1>2. /\ \A u \in User \ {target[r]} : rows'[u] = rows[u]
      /\ rows[target[r]] \in Row /\ rows'[target[r]] # None
      /\ rows'[target[r]] = [rows[target[r]] EXCEPT !.password = r]
      /\ work[r] # None /\ work[r].user = target[r]
    <2>1. pc[r] = "commit" /\ Commit(r)
        BY DEF CommitReset
    <2>2. work[r] # None /\ work[r].user = target[r] /\ RowsGrow(r)
        BY <1>1, <2>1, RowIsCommitted
    <2>3. /\ \A u \in User \ {target[r]} : rows'[u] = rows[u]
          /\ rows[target[r]] \in Row
          /\ rows'[target[r]] = [rows[target[r]] EXCEPT !.password = r]
        BY <2>1, OneRoute, CommitChanges
    <2>4. rows'[target[r]] # None
        BY <1>1, <2>2, <2>3, NoneAssumption DEF RowsGrow
    <2>5. QED
        BY <2>2, <2>3, <2>4
<1>3. /\ lastReset'[target[r]] = r
      /\ straddled'[target[r]] = {q \in Change : /\ target[q] = target[r]
                                                /\ \/ pc[q] = "select"
                                                   \/ pc[q] = "update" /\ q \in stale}
      /\ \A u \in User \ {target[r]} :
            lastReset'[u] = lastReset[u] /\ straddled'[u] = straddled[u]
    BY <1>1 DEF CommitReset, TypeOK, CredentialsTypeOK
<1>4. \A q \in Change : /\ pc'[q] = pc[q] /\ target'[q] = target[q]
                        /\ held'[q] = held[q] /\ columns'[q] = columns[q]
    BY OneRoute, CredentialsAssumption DEF Kept
<1>5. ASSUME NEW q \in Change, target[q] = target[r], pc[q] = "commit" PROVE FALSE
    <2>1. q \in Request /\ q # r /\ work[q] # None /\ work[q].user = target[q]
        BY <1>5, OneRoute, CredentialsAssumption DEF Base, RequestOK, WorkOK
    <2>2. QED
        BY <1>1, <1>2, <1>5, <2>1 DEF Base, IInv, Core, Table, Reserved
<1>6. \A u \in User : lastReset'[u] # None => rows'[u] # None
    BY <1>2, <1>3 DEF ResetHeld
<1>7. ASSUME NEW u \in User, lastReset'[u] # None, straddled'[u] = {}
      PROVE  /\ rows'[u].password = lastReset'[u]
             /\ \A q \in Change : target'[q] = u =>
                   /\ pc'[q] = "select" => held'[q] = lastReset'[u]
                   /\ pc'[q] \in {"update", "commit"} => "password" \notin columns'[q]
    <2>1. CASE u = target[r]
        <3>1. rows'[u].password = r
            BY <1>2, <2>1 DEF Row
        <3>2. \A q \in Change : target[q] = u =>
                pc[q] # "select" /\ (pc[q] = "update" => q \notin stale)
            BY <1>3, <1>7, <2>1
        <3>3. \A q \in Change : target[q] = u /\ pc[q] \in {"update", "commit"} =>
                  "password" \notin columns[q]
            BY <1>5, <2>1, <3>2 DEF ResetHeld
        <3>4. QED
            BY <1>3, <1>4, <2>1, <3>1, <3>2, <3>3
    <2>2. CASE u # target[r]
        BY <1>2, <1>3, <1>4, <1>7, <2>2 DEF ResetHeld
    <2>3. QED
        BY <2>1, <2>2
<1>8. QED
    BY <1>6, <1>7

LEMMA StepKeepsResetHeld ==
    ASSUME Base, ResetHeld, [Next]_vars
    PROVE  ResetHeld'
<1>1. \A q \in Change : pc'[q] \in {"update", "commit"} /\ "password" \in columns'[q] =>
          q \in stale'
    BY DifferingIsStale
<1>2. CASE UNCHANGED <<lastReset, straddled>>
    <2>1. \A u \in User : lastReset[u] # None => rows'[u] # None
        BY ColumnChanges DEF ResetHeld
    <2>2. ASSUME NEW u \in User, lastReset[u] # None, straddled[u] = {}
          PROVE  rows'[u].password = lastReset[u]
        <3>1. CASE ByReset(u)
            <4>1. PICK r \in Reset : CommitReset(r) /\ target[r] = u
                                    /\ rows'[u] = [rows[u] EXCEPT !.password = r]
                BY <3>1 DEF ByReset
            <4>2. lastReset'[u] = r
                BY <4>1 DEF CommitReset, Base, TypeOK, CredentialsTypeOK
            <4>3. QED
                BY <1>2, <3>1, <4>1, <4>2 DEF ByReset, Row
        <3>2. QED
            BY <2>2, <3>1, PasswordStays
    <2>3. QED
        BY <1>1, <1>2, <2>1, <2>2, UpdatesFollow DEF ResetHeld
<1>3. CASE \E r \in Reset : CommitReset(r) /\ Kept(r)
    BY <1>1, <1>3, ResetCommits DEF ResetHeld
<1>4. QED
    BY <1>2, <1>3, ResetsAreCommitted

(***************************************************************************)
(* The code                                                                *)
(***************************************************************************)

\* What is about to be enabled, and what a login is about to end with, was
\* proven.
Proven ==
    /\ \A e \in Enable : pc[e] = "enable" => held[e] \in proven
    /\ \A c \in Challenge : pc[c] = "issue" => held[c] \in proven
    /\ \A l \in Login : pc[l] = "issue" => held[l] = None
    /\ SecondFactorIsProven

\* The rows' part: a secret is enabled by who has shown its code.
LEMMA SecretsAreProven ==
    ASSUME Base, Proven, [Next]_vars, proven \subseteq proven',
           NEW u \in User, rows'[u] # None, rows'[u].secret # None
    PROVE  rows'[u].secret \in proven'
<1>1. CASE rows[u] = None
    <2>1. Created(u)
        BY <1>1, RowChanges, NoneAssumption
        DEF RowChange, ByVerify, ByChange, ByReset, BySetup, ByEnable
    <2>2. QED
        BY <2>1 DEF Created, NewRow
<1>2. CASE rows[u] # None
    <2>1. CASE ByEnable(u)
        <3>1. PICK e \in Enable : pc[e] = "enable" /\ rows[u] \in Row
                 /\ rows'[u] = [rows[u] EXCEPT !.secret = held[e], !.pending = None]
            BY <2>1 DEF ByEnable
        <3>2. rows'[u].secret = held[e]
            BY <3>1 DEF Row
        <3>3. QED
            BY <3>1, <3>2 DEF Proven
    <2>2. CASE ~ByEnable(u)
        BY <1>2, <2>2, ColumnChanges DEF Proven, SecondFactorIsProven, Present
    <2>3. QED
        BY <2>1, <2>2
<1>3. QED
    BY <1>1, <1>2

\* A secret that has a code is one; one that is enabled is proven.
LEMMA EnabledIsProven ==
    ASSUME Base, Proven, NEW u \in User, rows[u] # None, CodeOf(rows[u].secret)
    PROVE  rows[u].secret \in proven
<1>1. rows[u].secret # None
    BY TableAssumption, CredentialsAssumption DEF CodeOf
<1>2. QED
    BY <1>1 DEF Proven, SecondFactorIsProven, Present

LEMMA FactorKeepsProven ==
    ASSUME Base, Proven, [Next]_vars, NEW q \in Request, Proving(q), Kept(q)
    PROVE  Proven'
<1>1. Typed /\ TypeOK /\ Enable \cup Challenge \cup Login \subseteq Request
    BY TypedHolds, CredentialsAssumption DEF Base
<1>2. proven \subseteq proven'
    BY DEF Proving, FactorStep, SetPendingSecret, CheckPending, EnableMfa, CheckPassword,
           CheckCode, IssueTokens, credentialVars, factorVars
<1>3. \A p \in Request \ {q} : pc'[p] = pc[p] /\ held'[p] = held[p]
    BY DEF Kept
<1>4. \A u \in Present' : rows'[u].secret # None => rows'[u].secret \in proven'
    BY <1>2, SecretsAreProven DEF Present
<1>5. /\ q \in Enable /\ pc'[q] = "enable" => held'[q] \in proven'
      /\ q \in Challenge /\ pc'[q] = "issue" => held'[q] \in proven'
      /\ q \in Login /\ pc'[q] = "issue" => held'[q] = None
    <2>1. CASE q \in Setup
        BY <2>1, OneRoute
    <2>2. CASE q \in Enable
        <3>1. CheckPending(q) \/ EnableMfa(q)
            BY <2>2, OneRoute DEF Proving, FactorStep
        <3>2. CASE CheckPending(q)
            BY <1>1, <2>2, <3>2, OneRoute DEF CheckPending, Hold, Typed
        <3>3. CASE EnableMfa(q)
            BY <1>1, <2>2, <3>3, OneRoute DEF EnableMfa, Goto, Typed
        <3>4. QED
            BY <3>1, <3>2, <3>3
    <2>3. CASE q \in Login
        <3>1. CheckPassword(q) \/ IssueTokens(q)
            BY <2>3, OneRoute DEF Proving, FactorStep
        <3>2. CASE CheckPassword(q)
            <4>1. PICK u \in Present :
                    /\ Hold(q, rows[u].secret)
                    /\ Goto(q, IF rows[u].secret # None THEN "challenged" ELSE "issue")
                BY <3>2 DEF CheckPassword
            <4>2. QED
                BY <1>1, <2>3, <4>1, OneRoute DEF Hold, Goto, Typed
        <3>3. CASE IssueTokens(q)
            BY <1>1, <2>3, <3>3, OneRoute DEF IssueTokens, Goto, Typed
        <3>4. QED
            BY <3>1, <3>2, <3>3
    <2>4. CASE q \in Challenge
        <3>1. CheckCode(q) \/ IssueTokens(q)
            BY <2>4, OneRoute DEF Proving, FactorStep
        <3>2. CASE CheckCode(q)
            <4>1. PICK l \in Login : /\ pc[l] = "challenged"
                                    /\ CodeOf(rows[target[l]].secret)
                                    /\ Hold(q, rows[target[l]].secret)
                BY <3>2 DEF CheckCode
            <4>2. rows[target[l]] # None /\ target[l] \in User
                BY <1>1, <4>1, OneRoute DEF Base, RequestOK, FoundOK, Typed
            <4>3. rows[target[l]].secret \in proven
                BY <4>1, <4>2, EnabledIsProven
            <4>4. QED
                BY <1>1, <1>2, <2>4, <4>1, <4>3, OneRoute DEF Hold, Typed
        <3>3. CASE IssueTokens(q)
            BY <1>1, <2>4, <3>3, OneRoute DEF IssueTokens, Goto, Typed
        <3>4. QED
            BY <3>1, <3>2, <3>3
    <2>5. QED
        BY <2>1, <2>2, <2>3, <2>4 DEF Proving
<1>6. \A x \in sessions' : x.asked # None => x.code = x.asked /\ x.code \in proven'
    <2>1. CASE IssueTokens(q) /\ q \in Login \cup Challenge
        <3>1. /\ pc[q] = "issue"
              /\ sessions' = sessions \cup {[user |-> target[q], asked |-> held[q],
                                           code |-> IF q \in Challenge THEN held[q] ELSE None]}
            BY <2>1 DEF IssueTokens, MayIssue
        <3>2. IF q \in Challenge THEN held[q] \in proven ELSE held[q] = None
            BY <2>1, <3>1 DEF Proven
        <3>3. QED
            BY <1>2, <3>1, <3>2 DEF Proven, SecondFactorIsProven
    <2>2. CASE sessions' = sessions
        BY <1>2, <2>2 DEF Proven, SecondFactorIsProven
    <2>3. QED
        BY <2>1, <2>2
        DEF Proving, FactorStep, SetPendingSecret, CheckPending, EnableMfa, CheckPassword,
            CheckCode, credentialVars, factorVars
<1>7. QED
    BY <1>1, <1>2, <1>3, <1>4, <1>5, <1>6 DEF Proven, SecondFactorIsProven

LEMMA StepKeepsProven ==
    ASSUME Base, Proven, [Next]_vars
    PROVE  Proven'
<1>1. Typed /\ Enable \cup Challenge \cup Login \subseteq Request
    BY TypedHolds, CredentialsAssumption
<1>2. CASE UNCHANGED <<proven, sessions>> /\ \A p \in Enable \cup Challenge \cup Login :
                \/ pc'[p] \notin {"enable", "issue"}
                \/ pc'[p] = pc[p] /\ held'[p] = held[p]
    <2>1. \A u \in Present' : rows'[u].secret # None => rows'[u].secret \in proven'
        BY <1>2, SecretsAreProven DEF Present
    <2>2. QED
        BY <1>2, <2>1 DEF Proven, SecondFactorIsProven
<1>3. ASSUME NEW q \in Request, Step(q), Kept(q) PROVE Proven'
    <2>1. CASE Proving(q)
        BY <1>3, <2>1, FactorKeepsProven
    <2>2. CASE ~Proving(q)
        <3>1. UNCHANGED <<proven, sessions>>
            BY <1>3, <2>2
            DEF Step, Registering, Verifying, CallingBack, Changing, Resetting, Failing,
                ChangeStep, LoadUser, FindExisting, SelectAgain, UpdateColumns,
                UpdateConflicts, CommitChange, PasswordStep, ForgotFinds, SaveResetToken,
                SendReset, ResetFinds, UpdatePassword, CommitReset, Refused, Throws,
                credentialVars, factorVars
        <3>2. q \in Enable \cup Challenge \cup Login => pc'[q] = "done"
            BY <1>1, <1>3, <2>2, OneRoute
            DEF Step, Registering, Verifying, CallingBack, Changing, Resetting, Failing,
                Refused, Throws, Goto, Typed
        <3>3. QED
            BY <1>1, <1>2, <1>3, <3>1, <3>2 DEF Kept
    <2>3. QED
        BY <2>1, <2>2
<1>4. CASE Crash
    BY <1>1, <1>2, <1>4 DEF Crash, credentialVars
<1>5. CASE UNCHANGED vars
    BY <1>2, <1>5 DEF vars, requestVars, credentialVars
<1>6. QED
    BY <1>3, <1>4, <1>5, Steps

(***************************************************************************)
(* The theorems                                                            *)
(***************************************************************************)

History == Base /\ Mailing /\ Linked /\ ResetHeld /\ Proven

LEMMA InitHistory == Init => History
<1> SUFFICES ASSUME Init PROVE History
    OBVIOUS
<1>1. Base
    BY InitBase
<1>2. /\ \A q \in Request : pc[q] \in {"absent", "new"}
      /\ rows[Seeded] = [NewRow(SeededAddress, Seeded) EXCEPT !.verified = TRUE]
      /\ \A u \in User \ {Seeded} : rows[u] = None
    BY TableAssumption DEF Init, TableInit
<1>3. Mailing
    BY <1>2, RegistrationAssumption DEF Mailing, Present
<1>4. Linked
    BY <1>2, RegistrationAssumption DEF Linked, Persons, Init, RegistrationInit
<1>5. ResetHeld
    BY <1>2, CredentialsAssumption DEF ResetHeld, Init, CredentialsInit
<1>6. Proven
    <2>1. rows[Seeded].secret = None
        BY <1>2 DEF NewRow
    <2>2. SecondFactorIsProven
        BY <1>2, <2>1 DEF SecondFactorIsProven, Present, Init, CredentialsInit
    <2>3. QED
        BY <1>2, <2>2, CredentialsAssumption DEF Proven
<1>7. QED
    BY <1>1, <1>3, <1>4, <1>5, <1>6 DEF History

LEMMA StepKeepsHistory == History /\ [Next]_vars => History'
BY StepKeepsBase, StepKeepsMailing, StepKeepsLinked, StepKeepsResetHeld, StepKeepsProven
DEF History

\* Who is verified was mailed a token, and has the address it registered with
\* unless an update changed it; no mail goes to who never became a user.
THEOREM AccountsVerifiedWasMailed == Spec => []VerifiedWasMailed
<1>1. History => VerifiedWasMailed
    <2> SUFFICES ASSUME History PROVE VerifiedWasMailed
        OBVIOUS
    <2>1. \A q \in mailed : rows[q] # None
        BY RegistrationAssumption
        DEF History, Base, TypeOK, RegistrationTypeOK, RequestOK, RegisterOK
    <2>2. QED
        BY <2>1 DEF History, Mailing, VerifiedWasMailed
<1>2. QED
    BY <1>1, InitHistory, StepKeepsHistory, PTL DEF Spec

\* Callbacks of one person sign in to one account, unless an update moves its
\* address in between.
THEOREM AccountsOneAccountPerPerson == Spec => []OneAccountPerPerson
<1>1. History => OneAccountPerPerson
    <2> SUFFICES ASSUME History, NEW c \in Callback, NEW d \in Callback,
                        account[c] # None, account[d] # None, account[c] # account[d],
                        account[c] \notin readdressed, account[d] \notin readdressed
                 PROVE  FALSE
        BY DEF OneAccountPerPerson
    <2>1. account[c] \in Persons /\ account[d] \in Persons
        BY DEF Persons
    <2>2. account[c] \in User /\ account[d] \in User
        BY <2>1, PersonsAreUsers DEF History
    <2>3. /\ rows[account[c]] # None /\ rows[account[c]].email = PersonAddress
          /\ rows[account[d]] # None /\ rows[account[d]].email = PersonAddress
        BY <2>1 DEF History, Linked
    <2>4. QED
        BY <2>2, <2>3 DEF History, Base, IInv, Core, Table, OneUserPerAddress
<1>2. QED
    BY <1>1, InitHistory, StepKeepsHistory, PTL DEF Spec

\* The password a reset has set stays until the next reset, unless an update
\* straddled it.
THEOREM AccountsResetStands == Spec => []ResetStands
<1>1. History => ResetStands
    BY DEF History, ResetHeld, ResetStands
<1>2. QED
    BY <1>1, InitHistory, StepKeepsHistory, PTL DEF Spec

\* The second factor that is enabled was proven with a code, and who is asked
\* for one gives one that was.
THEOREM AccountsSecondFactorIsProven == Spec => []SecondFactorIsProven
<1>1. History => SecondFactorIsProven
    BY DEF History, Proven
<1>2. QED
    BY <1>1, InitHistory, StepKeepsHistory, PTL DEF Spec

=============================================================================
