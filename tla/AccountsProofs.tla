---------------------------- MODULE AccountsProofs ----------------------------
(***************************************************************************)
(* One user per address, for any number of requests, users and addresses,  *)
(* any workloads and any number of faults.                                 *)
(*                                                                         *)
(* The unique index alone is not inductive: a commit makes a row visible   *)
(* that was checked when it was written.  What carries the check to the    *)
(* commit is that nobody else may write an address, or a row, that an open *)
(* transaction has to do with (Reserved), and that a request that writes   *)
(* without a transaction has none open (OpenWork).                         *)
(***************************************************************************)
EXTENDS Accounts, TLAPS

\* What is written and not committed: its address is nobody else's.
Reserved ==
    \A p \in Request : work[p] # None =>
        /\ work[p].user \in User
        /\ Unique(work[p].user, work[p].row.email)
        /\ \A q \in Request \ {p} : work[q] # None =>
              work[p].user # work[q].user /\ work[p].row.email # work[q].row.email

Open == {"refresh", "stage", "commit"}

OpenWork == \A q \in Request : work[q] # None => pc[q] \in Open

Table ==
    /\ rows = [u \in User |-> rows[u]]
    /\ work = [q \in Request |-> work[q]]
    /\ OneUserPerAddress
    /\ Reserved

Core == Table /\ pc = [q \in Request |-> pc[q]] /\ OpenWork

\* What a request refers to is a user.
Targets ==
    /\ target \in [Request -> User]
    /\ identities \subseteq User
    /\ mailed \subseteq Register

IInv == Core /\ Targets

(***************************************************************************)
(* Statements and transactions                                             *)
(***************************************************************************)

\* A write in a transaction that the index lets pass keeps the table.
LEMMA WriteKeepsTable ==
    ASSUME Table, NEW q \in Request, NEW u \in User, NEW r, Write(q, u, r)
    PROVE  Table'
<1>1. rows' = rows /\ work' = [work EXCEPT ![q] = [user |-> u, row |-> r]]
    BY DEF Write
<1>2. /\ \A p \in Request \ {q} : work[p] # None =>
            work[p].user # u /\ work[p].row.email # r.email
      /\ Unique(u, r.email)
    BY DEF Write, Writable, RowFree, AddressFree
<1>3. work' = [p \in Request |-> work'[p]]
    BY <1>1 DEF Table
<1>4. work'[q].user = u /\ work'[q].row = r
    BY <1>1 DEF Table
<1>5. \A p \in Request \ {q} : work'[p] = work[p]
    BY <1>1 DEF Table
<1>6. Reserved'
    BY <1>1, <1>2, <1>4, <1>5 DEF Table, Reserved, Unique
<1>7. QED
    BY <1>1, <1>3, <1>6 DEF Table, OneUserPerAddress

\* So does one without a transaction, of a request that has none open.
LEMMA WriteNowKeepsTable ==
    ASSUME Table, NEW q \in Request, NEW u \in User, NEW r, WriteNow(q, u, r),
           work[q] = None
    PROVE  Table'
<1>1. work' = work /\ rows' = [rows EXCEPT ![u] = r]
    BY DEF WriteNow
<1>2. /\ \A p \in Request : work[p] # None =>
            work[p].user # u /\ work[p].row.email # r.email
      /\ Unique(u, r.email)
    BY DEF WriteNow, Writable, RowFree, AddressFree
<1>3. rows' = [w \in User |-> rows'[w]]
    BY <1>1 DEF Table
<1>4. rows'[u] = r /\ \A w \in User \ {u} : rows'[w] = rows[w]
    BY <1>1 DEF Table
<1>5. OneUserPerAddress'
    BY <1>2, <1>4 DEF Table, OneUserPerAddress, Unique
<1>6. Reserved'
    BY <1>1, <1>2, <1>4 DEF Table, Reserved, Unique
<1>7. QED
    BY <1>1, <1>3, <1>5, <1>6 DEF Table

\* A commit shows what was reserved.
LEMMA CommitKeepsTable ==
    ASSUME Table, NEW q \in Request, Commit(q)
    PROVE  Table'
<1>1. work' = [work EXCEPT ![q] = None]
    BY DEF Commit
<1>2. work'[q] = None /\ \A p \in Request \ {q} : work'[p] = work[p]
    BY <1>1 DEF Table
<1>3. work' = [p \in Request |-> work'[p]]
    BY <1>1 DEF Table
<1>4. CASE work[q] = None
    <2>1. rows' = rows
        BY <1>4 DEF Commit
    <2>2. Reserved'
        BY <2>1, <1>2 DEF Table, Reserved, Unique
    <2>3. QED
        BY <2>1, <2>2, <1>3 DEF Table, OneUserPerAddress
<1>5. CASE work[q] # None
    <2>1. rows' = [rows EXCEPT ![work[q].user] = work[q].row]
        BY <1>5 DEF Commit
    <2>2. work[q].user \in User /\ Unique(work[q].user, work[q].row.email)
        BY <1>5 DEF Table, Reserved
    <2>3. rows' = [w \in User |-> rows'[w]]
        BY <2>1 DEF Table
    <2>4. /\ rows'[work[q].user] = work[q].row
          /\ \A w \in User \ {work[q].user} : rows'[w] = rows[w]
        BY <2>1, <2>2 DEF Table
    <2>5. OneUserPerAddress'
        BY <2>2, <2>4 DEF Table, OneUserPerAddress, Unique
    <2>6. Reserved'
        <3> SUFFICES ASSUME NEW p \in Request, work'[p] # None
                     PROVE  /\ work'[p].user \in User
                            /\ \A w \in User \ {work'[p].user} : rows'[w] # None =>
                                  rows'[w].email # work'[p].row.email
                            /\ \A x \in Request \ {p} : work'[x] # None =>
                                  /\ work'[p].user # work'[x].user
                                  /\ work'[p].row.email # work'[x].row.email
            BY DEF Reserved, Unique
        <3>1. p # q /\ work'[p] = work[p]
            BY <1>2
        <3>2. /\ work[p].user \in User
              /\ Unique(work[p].user, work[p].row.email)
              /\ work[p].user # work[q].user
              /\ work[p].row.email # work[q].row.email
            BY <3>1, <1>5 DEF Table, Reserved
        <3>3. \A w \in User \ {work[p].user} : rows'[w] # None =>
                  rows'[w].email # work[p].row.email
            BY <3>2, <2>4 DEF Unique
        <3>4. \A x \in Request \ {p} : work'[x] # None =>
                  /\ work'[p].user # work'[x].user
                  /\ work'[p].row.email # work'[x].row.email
            BY <3>1, <1>2 DEF Table, Reserved
        <3>5. QED
            BY <3>1, <3>2, <3>3, <3>4 DEF Unique
    <2>7. QED
        BY <2>3, <2>5, <2>6, <1>3 DEF Table
<1>6. QED
    BY <1>4, <1>5

\* A rollback gives the address back.
LEMMA RollbackKeepsTable ==
    ASSUME Table, NEW q \in Request, Rollback(q)
    PROVE  Table'
<1>1. rows' = rows /\ work' = [work EXCEPT ![q] = None]
    BY DEF Rollback
<1>2. work'[q] = None /\ \A p \in Request \ {q} : work'[p] = work[p]
    BY <1>1 DEF Table
<1>3. work' = [p \in Request |-> work'[p]]
    BY <1>1 DEF Table
<1>4. Reserved'
    BY <1>1, <1>2 DEF Table, Reserved, Unique
<1>5. QED
    BY <1>1, <1>3, <1>4 DEF Table, OneUserPerAddress

\* A step that does not touch the table keeps it.
LEMMA TableUnchanged ==
    ASSUME Table, UNCHANGED tableVars
    PROVE  Table'
BY DEF Table, tableVars, OneUserPerAddress, Reserved, Unique

(***************************************************************************)
(* The same, for a request that goes on to another statement               *)
(***************************************************************************)

\* Where a request goes decides whether it may have work.
LEMMA OpenWorkGoesOn ==
    ASSUME Core, NEW q \in Request, NEW p, Goto(q, p), Table',
           \A x \in Request \ {q} : work'[x] = work[x],
           work'[q] = None \/ p \in Open
    PROVE  Core'
<1>1. pc' = [pc EXCEPT ![q] = p]
    BY DEF Goto
<1>2. pc' = [x \in Request |-> pc'[x]]
    BY <1>1 DEF Core
<1>3. pc'[q] = p /\ \A x \in Request \ {q} : pc'[x] = pc[x]
    BY <1>1 DEF Core
<1>4. OpenWork'
    BY <1>3 DEF Core, OpenWork
<1>5. QED
    BY <1>2, <1>4 DEF Core

\* A write goes on to the next statement of its transaction.
LEMMA WriteStep ==
    ASSUME Core, NEW q \in Request, NEW u \in User, NEW r, NEW p \in Open,
           Write(q, u, r), Goto(q, p)
    PROVE  Core'
<1>1. Table'
    BY WriteKeepsTable DEF Core
<1>2. \A x \in Request \ {q} : work'[x] = work[x]
    BY DEF Write, Core, Table
<1>3. QED
    BY <1>1, <1>2, OpenWorkGoesOn

\* A write without a transaction.
LEMMA WriteNowStep ==
    ASSUME Core, NEW q \in Request, NEW u \in User, NEW r, NEW p,
           WriteNow(q, u, r), Goto(q, p), pc[q] \notin Open
    PROVE  Core'
<1>1. work[q] = None
    BY DEF Core, OpenWork
<1>2. work' = work
    BY DEF WriteNow
<1>3. Table'
    BY <1>1, WriteNowKeepsTable DEF Core
<1>4. QED
    BY <1>1, <1>2, <1>3, OpenWorkGoesOn

\* The end of a transaction.
LEMMA EndStep ==
    ASSUME Core, NEW q \in Request, NEW p, Commit(q) \/ Rollback(q), Goto(q, p)
    PROVE  Core'
<1>1. Table'
    BY CommitKeepsTable, RollbackKeepsTable DEF Core
<1>2. work' = [work EXCEPT ![q] = None]
    BY DEF Commit, Rollback
<1>3. work'[q] = None /\ \A x \in Request \ {q} : work'[x] = work[x]
    BY <1>2 DEF Core, Table
<1>4. QED
    BY <1>1, <1>3, OpenWorkGoesOn

\* A step that only reads, or writes to another table.
LEMMA QuietStep ==
    ASSUME Core, NEW q \in Request, NEW p, UNCHANGED tableVars, Goto(q, p),
           pc[q] \notin Open \/ p \in Open
    PROVE  Core'
<1>1. Table'
    BY TableUnchanged DEF Core
<1>2. work' = work
    BY DEF tableVars
<1>3. work'[q] = None \/ p \in Open
    BY <1>2 DEF Core, OpenWork
<1>4. QED
    BY <1>1, <1>2, <1>3, OpenWorkGoesOn

\* A step of no request.
LEMMA CoreUnchanged ==
    ASSUME Core, UNCHANGED <<tableVars, pc>>
    PROVE  Core'
<1>1. Table'
    BY TableUnchanged DEF Core
<1>2. work' = work
    BY DEF tableVars
<1>3. QED
    BY <1>1, <1>2 DEF Core, OpenWork

(***************************************************************************)
(* What the requests refer to                                              *)
(***************************************************************************)

\* A step that finds nobody and links nobody.
LEMMA TargetsUnchanged ==
    ASSUME Targets, UNCHANGED <<target, identities, mailed>>
    PROVE  Targets'
BY DEF Targets

\* A request finds a user.
LEMMA FindStep ==
    ASSUME Targets, NEW q \in Request, NEW u \in User,
           target' = [target EXCEPT ![q] = u], UNCHANGED <<identities, mailed>>
    PROVE  Targets'
BY DEF Targets

(***************************************************************************)
(* The steps of the requests                                               *)
(***************************************************************************)

\* POST /auth/register.
LEMMA RegisterKeeps ==
    ASSUME IInv, NEW q \in Register, RegisterStep(q)
    PROVE  IInv'
<1>1. q \in Request /\ q \in User
    BY RegistrationAssumption
<1>2. Core /\ Targets
    BY DEF IInv
<1>3. Targets'
    BY <1>2, TargetsUnchanged
    DEF RegisterStep, RegisterStarts, InsertUser, InsertConflicts, SaveRefreshToken, Stage,
        CommitRegistration, RegisterThrows, Flush, registrationVars, personVars, eventVars
<1>4. Core'
    <2>1. CASE RegisterStarts(q)
        BY <1>1, <1>2, <2>1, QuietStep DEF RegisterStarts, Open
    <2>2. CASE InsertUser(q)
        BY <1>1, <1>2, <2>2, WriteStep DEF InsertUser, Open
    <2>3. CASE InsertConflicts(q)
        BY <1>1, <1>2, <2>3, EndStep DEF InsertConflicts
    <2>4. CASE SaveRefreshToken(q)
        BY <1>1, <1>2, <2>4, QuietStep DEF SaveRefreshToken, Open
    <2>5. CASE Stage(q)
        BY <1>1, <1>2, <2>5, QuietStep DEF Stage, Open
    <2>6. CASE CommitRegistration(q)
        BY <1>1, <1>2, <2>6, EndStep DEF CommitRegistration, CommitAll
    <2>7. CASE RegisterThrows(q)
        BY <1>1, <1>2, <2>7, EndStep DEF RegisterThrows, CommitAll
    <2>8. CASE Flush(q)
        BY <1>1, <1>2, <2>8, QuietStep DEF Flush, Open
    <2>9. QED
        BY <2>1, <2>2, <2>3, <2>4, <2>5, <2>6, <2>7, <2>8 DEF RegisterStep
<1>5. QED
    BY <1>3, <1>4 DEF IInv

\* The handler that sends the verification e-mail.
LEMMA HandlerKeeps ==
    ASSUME IInv, NEW q \in Register, HandlerStep(q)
    PROVE  IInv'
<1>1. UNCHANGED <<tableVars, pc, target, identities>>
    BY DEF HandlerStep, SaveVerifyToken, SendVerification, HandlerFails, requestVars,
           personVars
<1>2. Core'
    BY <1>1, CoreUnchanged DEF IInv
<1>3. mailed' \subseteq Register
    BY DEF HandlerStep, SaveVerifyToken, SendVerification, HandlerFails, IInv, Targets
<1>4. QED
    BY <1>1, <1>2, <1>3 DEF IInv, Targets

\* POST /auth/verify-email.
LEMMA VerifyKeeps ==
    ASSUME IInv, NEW v \in Verify, VerifyStep(v)
    PROVE  IInv'
<1>1. v \in Request
    BY RegistrationAssumption
<1>2. Core /\ Targets
    BY DEF IInv
<1>3. target[v] \in User
    BY <1>1, <1>2 DEF Targets
<1>4. CASE VerifyFinds(v)
    <2>1. PICK q \in TokensFound : target' = [target EXCEPT ![v] = q]
        BY <1>4 DEF VerifyFinds
    <2>2. q \in User
        BY <1>2, <2>1, RegistrationAssumption DEF TokensFound, Targets
    <2>3. Targets'
        BY <1>1, <1>2, <1>4, <2>1, <2>2, FindStep
        DEF VerifyFinds, registrationVars
    <2>4. Core'
        BY <1>1, <1>2, <1>4, QuietStep DEF VerifyFinds, Open
    <2>5. QED
        BY <2>3, <2>4 DEF IInv
<1>5. CASE ~VerifyFinds(v)
    <2>1. Targets'
        BY <1>2, <1>5, TargetsUnchanged
        DEF VerifyStep, VerifyRefused, MarkVerified, CommitVerified, VerifyThrows,
            registrationVars, personVars
    <2>2. Core'
        <3>1. CASE VerifyRefused(v)
            BY <1>1, <1>2, <3>1, QuietStep DEF VerifyRefused, Open
        <3>2. CASE MarkVerified(v)
            <4>1. "commit" \in Open
                BY DEF Open
            <4>2. QED
                BY <1>1, <1>2, <1>3, <3>2, <4>1, WriteStep DEF MarkVerified
        <3>3. CASE CommitVerified(v)
            BY <1>1, <1>2, <3>3, EndStep DEF CommitVerified
        <3>4. CASE VerifyThrows(v)
            BY <1>1, <1>2, <3>4, EndStep DEF VerifyThrows
        <3>5. QED
            BY <1>5, <3>1, <3>2, <3>3, <3>4 DEF VerifyStep
    <2>3. QED
        BY <2>1, <2>2 DEF IInv
<1>6. QED
    BY <1>4, <1>5

\* The callback of an external login.
LEMMA CallbackKeeps ==
    ASSUME IInv, NEW c \in Callback, CallbackStep(c)
    PROVE  IInv'
<1>1. c \in Request /\ c \in User
    BY RegistrationAssumption
<1>2. Core /\ Targets
    BY DEF IInv
<1>3. CASE LookUpSubject(c)
    <2>1. Core'
        BY <1>1, <1>2, <1>3, QuietStep DEF LookUpSubject, Open
    <2>2. Targets'
        BY <1>1, <1>2, <1>3 DEF LookUpSubject, Targets, registrationVars, personVars
    <2>3. QED
        BY <2>1, <2>2 DEF IInv
<1>4. CASE FindByAddress(c)
    <2>1. Core'
        BY <1>1, <1>2, <1>4, QuietStep DEF FindByAddress, Open
    <2>2. Known(address[c]) => UserOf(address[c]) \in User
        BY DEF Known, UserOf
    <2>3. Targets'
        BY <1>1, <1>2, <1>4, <2>2
        DEF FindByAddress, Targets, registrationVars, personVars
    <2>4. QED
        BY <2>1, <2>3 DEF IInv
<1>5. CASE Link(c)
    <2>1. Core'
        BY <1>1, <1>2, <1>5, QuietStep DEF Link, Open
    <2>2. Targets'
        BY <1>1, <1>2, <1>5 DEF Link, Targets, eventVars
    <2>3. QED
        BY <2>1, <2>2 DEF IInv
<1>6. CASE CreateUser(c) \/ CreateConflicts(c) \/ SignIn(c) \/ CallbackThrows(c)
    <2>1. Targets'
        BY <1>2, <1>6, TargetsUnchanged
        DEF CreateUser, CreateConflicts, SignIn, CallbackThrows, registrationVars,
            personVars, eventVars
    <2>2. Core'
        <3>1. CASE CreateUser(c)
            BY <1>1, <1>2, <3>1, WriteNowStep DEF CreateUser, Open
        <3>2. CASE CreateConflicts(c)
            BY <1>1, <1>2, <3>2, QuietStep DEF CreateConflicts, Open
        <3>3. CASE SignIn(c)
            BY <1>1, <1>2, <3>3, QuietStep DEF SignIn, Open
        <3>4. CASE CallbackThrows(c)
            BY <1>1, <1>2, <3>4, QuietStep DEF CallbackThrows, Open
        <3>5. QED
            BY <1>6, <3>1, <3>2, <3>3, <3>4
    <2>3. QED
        BY <2>1, <2>2 DEF IInv
<1>7. QED
    BY <1>3, <1>4, <1>5, <1>6 DEF CallbackStep

(***************************************************************************)
(* The steps on an existing row                                            *)
(***************************************************************************)

\* A request of Credentials is refused, or fails.
LEMMA RefusedOrThrowsKeeps ==
    ASSUME IInv, NEW q \in Request, Refused(q) \/ Throws(q),
           UNCHANGED registrationVars
    PROVE  IInv'
<1>1. Core /\ Targets
    BY DEF IInv
<1>2. Targets'
    BY <1>1, TargetsUnchanged DEF Refused, Throws, registrationVars
<1>3. CASE Refused(q)
    <2>1. Core'
        BY <1>1, <1>3, QuietStep DEF Refused, Open
    <2>2. QED
        BY <1>2, <2>1 DEF IInv
<1>4. CASE Throws(q)
    <2>1. Core'
        BY <1>1, <1>4, EndStep DEF Throws
    <2>2. QED
        BY <1>2, <2>1 DEF IInv
<1>5. QED
    BY <1>3, <1>4

\* PATCH /users/:id.
LEMMA ChangeKeeps ==
    ASSUME IInv, NEW q \in Change, ChangeStep(q), UNCHANGED registrationVars
    PROVE  IInv'
<1>1. q \in Request
    BY CredentialsAssumption
<1>2. Core /\ Targets /\ target[q] \in User
    BY <1>1 DEF IInv, Targets
<1>3. "commit" \in Open
    BY DEF Open
<1>4. CASE LoadUser(q)
    <2>1. PICK u \in User : target' = [target EXCEPT ![q] = u]
        BY <1>4 DEF LoadUser, Find, Present
    <2>2. Targets'
        BY <1>1, <1>2, <2>1, FindStep DEF registrationVars, personVars
    <2>3. Core'
        BY <1>1, <1>2, <1>4, QuietStep DEF LoadUser, Open
    <2>4. QED
        BY <2>2, <2>3 DEF IInv
<1>5. CASE ~LoadUser(q)
    <2>1. Targets'
        BY <1>2, <1>5, TargetsUnchanged
        DEF ChangeStep, FindExisting, SelectAgain, UpdateColumns, UpdateConflicts,
            CommitChange, registrationVars, personVars
    <2>2. Core'
        <3>1. CASE FindExisting(q)
            BY <1>1, <1>2, <3>1, QuietStep DEF FindExisting, Open
        <3>2. CASE SelectAgain(q)
            BY <1>1, <1>2, <3>2, QuietStep DEF SelectAgain, Open
        <3>3. CASE UpdateColumns(q)
            BY <1>1, <1>2, <1>3, <3>3, WriteStep DEF UpdateColumns
        <3>4. CASE UpdateConflicts(q)
            BY <1>1, <1>2, <3>4, EndStep DEF UpdateConflicts
        <3>5. CASE CommitChange(q)
            BY <1>1, <1>2, <3>5, EndStep DEF CommitChange
        <3>6. QED
            BY <1>5, <3>1, <3>2, <3>3, <3>4, <3>5 DEF ChangeStep
    <2>3. QED
        BY <2>1, <2>2 DEF IInv
<1>6. QED
    BY <1>4, <1>5

\* POST /auth/forgot-password and POST /auth/reset-password.
LEMMA PasswordKeeps ==
    ASSUME IInv, NEW q \in Forgot \cup Reset, PasswordStep(q),
           UNCHANGED registrationVars
    PROVE  IInv'
<1>1. q \in Request
    BY CredentialsAssumption
<1>2. Core /\ Targets /\ target[q] \in User
    BY <1>1 DEF IInv, Targets
<1>3. "commit" \in Open
    BY DEF Open
<1>4. CASE ForgotFinds(q) \/ ResetFinds(q)
    <2>1. PICK u \in User : target' = [target EXCEPT ![q] = u]
        <3>1. CASE ForgotFinds(q)
            BY <3>1 DEF ForgotFinds, Find, Present
        <3>2. CASE ResetFinds(q)
            <4>1. PICK f \in Forgot : Find(q, target[f])
                BY <3>2 DEF ResetFinds
            <4>2. target[f] \in User
                BY <1>2, CredentialsAssumption DEF Targets
            <4>3. QED
                BY <4>1, <4>2 DEF Find
        <3>3. QED
            BY <1>4, <3>1, <3>2
    <2>2. Targets'
        BY <1>1, <1>2, <2>1, FindStep DEF registrationVars, personVars
    <2>3. Core'
        BY <1>1, <1>2, <1>4, QuietStep DEF ForgotFinds, ResetFinds, Open
    <2>4. QED
        BY <2>2, <2>3 DEF IInv
<1>5. CASE ~ (ForgotFinds(q) \/ ResetFinds(q))
    <2>1. Targets'
        BY <1>2, <1>5, TargetsUnchanged
        DEF PasswordStep, SaveResetToken, SendReset, UpdatePassword, CommitReset,
            registrationVars, personVars
    <2>2. Core'
        <3>1. CASE SaveResetToken(q)
            BY <1>1, <1>2, <3>1, QuietStep DEF SaveResetToken, Open
        <3>2. CASE SendReset(q)
            BY <1>1, <1>2, <3>2, QuietStep DEF SendReset, Open
        <3>3. CASE UpdatePassword(q)
            BY <1>1, <1>2, <1>3, <3>3, WriteStep DEF UpdatePassword
        <3>4. CASE CommitReset(q)
            BY <1>1, <1>2, <3>4, EndStep DEF CommitReset
        <3>5. QED
            BY <1>5, <3>1, <3>2, <3>3, <3>4 DEF PasswordStep
    <2>3. QED
        BY <2>1, <2>2 DEF IInv
<1>6. QED
    BY <1>4, <1>5

\* The second factor and the logins.
LEMMA FactorKeeps ==
    ASSUME IInv, NEW q \in Setup \cup Enable \cup Login \cup Challenge, FactorStep(q),
           UNCHANGED registrationVars
    PROVE  IInv'
<1>1. q \in Request
    BY CredentialsAssumption
<1>2. Core /\ Targets /\ target[q] \in User
    BY <1>1 DEF IInv, Targets
<1>3. CASE SetPendingSecret(q)
    <2>1. PICK u \in User : /\ target' = [target EXCEPT ![q] = u]
                            /\ WriteNow(q, u, [rows[u] EXCEPT !.pending = q])
        BY <1>3 DEF SetPendingSecret, Find, Present
    <2>2. Targets'
        BY <1>1, <1>2, <2>1, FindStep DEF registrationVars, personVars
    <2>3. pc[q] \notin Open /\ Goto(q, "sent")
        BY <1>3 DEF SetPendingSecret, Open
    <2>4. Core'
        BY <1>1, <1>2, <2>1, <2>3, WriteNowStep
    <2>5. QED
        BY <2>2, <2>4 DEF IInv
<1>4. CASE EnableMfa(q)
    <2>1. Targets'
        BY <1>2, <1>4, TargetsUnchanged DEF EnableMfa, registrationVars, personVars
    <2>2. pc[q] \notin Open /\ Goto(q, "done")
        BY <1>4 DEF EnableMfa, Open
    <2>3. Core'
        BY <1>1, <1>2, <1>4, <2>2, WriteNowStep DEF EnableMfa
    <2>4. QED
        BY <2>1, <2>3 DEF IInv
<1>5. CASE CheckPending(q) \/ CheckPassword(q) \/ CheckCode(q)
    <2>1. PICK u \in User : target' = [target EXCEPT ![q] = u]
        <3>1. CASE CheckPending(q) \/ CheckPassword(q)
            BY <3>1 DEF CheckPending, CheckPassword, Find, Present
        <3>2. CASE CheckCode(q)
            <4>1. PICK l \in Login : Find(q, target[l])
                BY <3>2 DEF CheckCode
            <4>2. target[l] \in User
                BY <1>2, CredentialsAssumption DEF Targets
            <4>3. QED
                BY <4>1, <4>2 DEF Find
        <3>3. QED
            BY <1>5, <3>1, <3>2
    <2>2. Targets'
        BY <1>1, <1>2, <2>1, FindStep DEF registrationVars, personVars
    <2>3. PICK p : Goto(q, p)
        BY <1>5 DEF CheckPending, CheckPassword, CheckCode
    <2>4. pc[q] \notin Open /\ UNCHANGED tableVars
        BY <1>5 DEF CheckPending, CheckPassword, CheckCode, Open
    <2>5. Core'
        BY <1>1, <1>2, <2>3, <2>4, QuietStep
    <2>6. QED
        BY <2>2, <2>5 DEF IInv
<1>6. CASE IssueTokens(q)
    <2>1. Targets'
        BY <1>2, <1>6, TargetsUnchanged DEF IssueTokens, registrationVars, personVars
    <2>2. Core'
        BY <1>1, <1>2, <1>6, QuietStep DEF IssueTokens, MayIssue, Open
    <2>3. QED
        BY <2>1, <2>2 DEF IInv
<1>7. QED
    BY <1>3, <1>4, <1>5, <1>6 DEF FactorStep

(***************************************************************************)
(* The theorem                                                             *)
(***************************************************************************)

\* A crash rolls back what is open.
LEMMA CrashKeeps ==
    ASSUME IInv, Crash
    PROVE  IInv'
<1>1. rows' = rows /\ work' = [q \in Request |-> None]
    BY DEF Crash
<1>2. \A q \in Request : work'[q] = None
    BY <1>1
<1>3. pc' = [q \in Request |->
               IF pc[q] \in {"absent", "new", "sent", "challenged"} THEN pc[q] ELSE "done"]
    BY DEF Crash
<1>4. pc' = [q \in Request |-> pc'[q]]
    BY <1>3
<1>5. Reserved' /\ OpenWork'
    BY <1>2 DEF Reserved, OpenWork
<1>6. work' = [q \in Request |-> work'[q]]
    BY <1>1
<1>7. Core'
    BY <1>1, <1>4, <1>5, <1>6 DEF IInv, Core, Table, OneUserPerAddress
<1>8. Targets'
    BY TargetsUnchanged DEF Crash, personVars, IInv
<1>9. QED
    BY <1>7, <1>8 DEF IInv

\* At first there is one row, and no transaction.
LEMMA InitHolds == Init => IInv
<1> SUFFICES ASSUME Init PROVE IInv
    OBVIOUS
<1>1. work = [q \in Request |-> None]
    BY DEF Init, TableInit
<1>2. \A q \in Request : work[q] = None
    BY <1>1
<1>3. rows = [u \in User |->
                IF u = Seeded
                THEN [NewRow(SeededAddress, Seeded) EXCEPT !.verified = TRUE]
                ELSE None]
    BY DEF Init, TableInit
<1>4. rows = [u \in User |-> rows[u]] /\ \A u \in User \ {Seeded} : rows[u] = None
    BY <1>3
<1>5. OneUserPerAddress
    BY <1>4 DEF OneUserPerAddress
<1>6. pc = [q \in Request |-> pc[q]]
    BY DEF Init
<1>7. Core
    BY <1>1, <1>2, <1>4, <1>5, <1>6 DEF Core, Table, Reserved, OpenWork
<1>8. Targets
    BY TableAssumption DEF Init, RegistrationInit, Targets
<1>9. QED
    BY <1>7, <1>8 DEF IInv

\* Every step keeps the invariant.
LEMMA StepKeeps == IInv /\ [Next]_vars => IInv'
<1> SUFFICES ASSUME IInv, [Next]_vars PROVE IInv'
    OBVIOUS
<1>1. CASE RegistrationNext
    BY <1>1, RegisterKeeps, HandlerKeeps, VerifyKeeps, CallbackKeeps DEF RegistrationNext
<1>2. CASE CredentialsNext /\ UNCHANGED registrationVars
    BY <1>2, ChangeKeeps, PasswordKeeps, FactorKeeps, RefusedOrThrowsKeeps,
       CredentialsAssumption
    DEF CredentialsNext
<1>3. CASE Crash
    BY <1>3, CrashKeeps
<1>4. CASE UNCHANGED vars
    <2>1. Core'
        BY <1>4, CoreUnchanged DEF vars, requestVars, IInv
    <2>2. Targets'
        BY <1>4, TargetsUnchanged DEF vars, requestVars, registrationVars, personVars, IInv
    <2>3. QED
        BY <2>1, <2>2 DEF IInv
<1>5. QED
    BY <1>1, <1>2, <1>3, <1>4 DEF Next

\* Two users never have one address, whoever registers, signs in from outside,
\* verifies, changes, resets or fails at the same time.
THEOREM AccountsOneUserPerAddress == Spec => []OneUserPerAddress
<1>1. IInv => OneUserPerAddress
    BY DEF IInv, Core, Table
<1>2. QED
    BY <1>1, InitHolds, StepKeeps, PTL DEF Spec

\* What a transaction has written stays its own until it ends: nobody else
\* writes the row or the address, and a request without a transaction has
\* nothing that a rollback could take back.
THEOREM AccountsWorkIsReserved == Spec => [](Reserved /\ OpenWork)
<1>1. IInv => Reserved /\ OpenWork
    BY DEF IInv, Core, Table
<1>2. QED
    BY <1>1, InitHolds, StepKeeps, PTL DEF Spec

=============================================================================
