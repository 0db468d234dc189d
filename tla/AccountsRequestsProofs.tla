------------------------- MODULE AccountsRequestsProofs -------------------------
(***************************************************************************)
(* What each request of Accounts has found, holds and has written, for any *)
(* number of requests, users, addresses and faults; and, from it, types    *)
(* and RegisteredWhole.                                                    *)
(*                                                                         *)
(* RequestOK says for one request how its place, its transaction and the   *)
(* rows belong together.  A step of one request keeps it for the others    *)
(* (OthersKeep), because rows never go and a row that a transaction has    *)
(* written stays as it is until it ends (RowsGrow).  So each step below    *)
(* shows it for the request that takes it.                                 *)
(***************************************************************************)
EXTENDS AccountsProofs

\* A request past its first statement has found a user who is there, unless it
\* is a callback that has yet to find or to create one.
FoundOK(q) ==
    q \notin Register /\ pc[q] \notin {"absent", "new", "done"} =>
        \/ rows[target[q]] # None
        \/ q \in Callback /\ pc[q] \in {"find", "create"}

\* A registration has its rows in one transaction, and nothing before or after.
RegisterOK(q) ==
    q \in Register =>
        /\ pc[q] \in Open <=> work[q] # None
        /\ work[q] # None => work[q] = [user |-> q, row |-> NewRow(address[q], q)]
        /\ unsaved[q] = CASE pc[q] = "stage" -> {"refresh"}
                          [] pc[q] = "commit" -> {"refresh", "outbox"}
                          [] OTHER -> {}
        /\ pc[q] \in {"absent", "new", "insert"} \cup Open => rows[q] = None
        /\ pc[q] = "flush" => rows[q] # None
        /\ rows[q] # None <=> q \in refresh
        /\ rows[q] # None <=> q \in outbox
        /\ job[q] \in {"token", "send", "sent"} \/ q \in mailed => rows[q] # None

CallbackOK(c) ==
    c \in Callback =>
        /\ pc[c] \in {"absent", "new", "find", "create"} => rows[c] = None
        /\ pc[c] \in {"find", "create"} => address[c] = PersonAddress
        /\ pc[c] = "create" => target[c] = c

\* The row an update writes.
Changed(q) ==
    [RowOf(q) EXCEPT
        !.email = IF "email" \in columns[q] THEN address[q] ELSE @,
        !.password = IF "password" \in columns[q] THEN held[q] ELSE @]

\* What a transaction on an existing row has written differs from what is
\* committed in the columns of its statement only: the row is held.
WorkOK(q) ==
    /\ work[q] # None => q \in Register \cup Verify \cup Change \cup Reset
    /\ q \in Verify \cup Change \cup Reset =>
          /\ pc[q] = "commit" <=> work[q] # None
          /\ work[q] # None => work[q].user = target[q]
    /\ q \in Verify /\ work[q] # None =>
          work[q].row = [RowOf(q) EXCEPT !.verified = TRUE]
    /\ q \in Reset /\ work[q] # None => work[q].row = [RowOf(q) EXCEPT !.password = q]
    /\ q \in Change /\ work[q] # None => work[q].row = Changed(q)
    /\ q \in Change /\ pc[q] \in {"select", "update", "commit"} => held[q] # None

RequestOK(q) == FoundOK(q) /\ RegisterOK(q) /\ CallbackOK(q) /\ WorkOK(q)

Existing ==
    /\ rows[Seeded] # None
    /\ \A u \in User : rows[u] # None => u \in Register \cup Callback \cup {Seeded}
    /\ identities \subseteq Present

Base == IInv /\ TypeOK /\ Existing /\ \A q \in Request : RequestOK(q)

\* A request is for one route.
LEMMA OneRoute ==
    ASSUME NEW q
    PROVE  /\ q \in Register => q \notin Verify \cup Callback \cup Change \cup Forgot
                 \cup Reset \cup Setup \cup Enable \cup Login \cup Challenge
           /\ q \in Verify => q \notin Callback \cup Change \cup Forgot
                 \cup Reset \cup Setup \cup Enable \cup Login \cup Challenge
           /\ q \in Callback => q \notin Change \cup Forgot
                 \cup Reset \cup Setup \cup Enable \cup Login \cup Challenge
           /\ q \in Change => q \notin Forgot \cup Reset \cup Setup \cup Enable \cup Login
                 \cup Challenge
           /\ q \in Forgot => q \notin Reset \cup Setup \cup Enable \cup Login \cup Challenge
           /\ q \in Reset => q \notin Setup \cup Enable \cup Login \cup Challenge
           /\ q \in Setup => q \notin Enable \cup Login \cup Challenge
           /\ q \in Enable => q \notin Login \cup Challenge
           /\ q \in Login => q \notin Challenge
<1> DEFINE kind == <<Register, Verify, Callback, Change, Forgot, Reset, Setup, Enable, Login,
                     Challenge>>
<1>1. \A i, j \in 1..10 : i # j => q \notin kind[i] \/ q \notin kind[j]
    BY RouteAssumption
<1>2. /\ kind[1] = Register /\ kind[2] = Verify /\ kind[3] = Callback /\ kind[4] = Change
      /\ kind[5] = Forgot /\ kind[6] = Reset /\ kind[7] = Setup /\ kind[8] = Enable
      /\ kind[9] = Login /\ kind[10] = Challenge
    OBVIOUS
<1> HIDE DEF kind
<1>3. \A i \in 1..10 : q \in kind[i] => \A j \in 1..10 : i # j => q \notin kind[j]
    BY <1>1
<1>4. QED
    BY <1>2, <1>3

(***************************************************************************)
(* What a step leaves to the other requests                                *)
(***************************************************************************)

Kept(q) ==
    \A p \in Request \ {q} :
        /\ pc'[p] = pc[p] /\ target'[p] = target[p] /\ address'[p] = address[p]
        /\ held'[p] = held[p] /\ work'[p] = work[p]
        /\ p \in Change => columns'[p] = columns[p]
        /\ p \in Register => unsaved'[p] = unsaved[p] /\ job'[p] = job[p]
        /\ p \in refresh' <=> p \in refresh
        /\ p \in outbox' <=> p \in outbox
        /\ p \in mailed' <=> p \in mailed

\* Rows do not go, nobody but q comes, and what an open transaction has
\* written is not written by q.
RowsGrow(q) ==
    /\ \A u \in User : rows[u] # None => rows'[u] # None
    /\ \A u \in User : rows'[u] # None =>
          rows[u] # None \/ (u = q /\ q \in Register \cup Callback)
    /\ \A p \in Request \ {q} : work[p] # None => rows'[work[p].user] = rows[work[p].user]

LEMMA RowsStay ==
    ASSUME NEW q, UNCHANGED rows
    PROVE  RowsGrow(q)
BY DEF RowsGrow

LEMMA RowsAreWritten ==
    ASSUME Base, NEW q \in Request, NEW u \in User, NEW r \in Row, WriteNow(q, u, r),
           rows[u] # None \/ (u = q /\ q \in Callback)
    PROVE  RowsGrow(q) /\ rows'[u] = r /\ \A w \in User \ {u} : rows'[w] = rows[w]
<1>1. rows \in [User -> Row \cup {None}] /\ r # None
    BY NoneAssumption DEF Base, TypeOK, TableTypeOK
<1>2. rows'[u] = r /\ \A w \in User \ {u} : rows'[w] = rows[w]
    BY <1>1 DEF WriteNow
<1>3. \A p \in Request \ {q} : work[p] # None => work[p].user \in User \ {u}
    BY DEF WriteNow, Writable, RowFree, Base, IInv, Core, Table, Reserved
<1>4. QED
    BY <1>1, <1>2, <1>3 DEF RowsGrow

LEMMA RowsAreCommitted ==
    ASSUME Base, NEW q \in Request, Commit(q), work[q] # None,
           rows[work[q].user] # None \/ (work[q].user = q /\ q \in Register)
    PROVE  /\ RowsGrow(q)
           /\ rows'[work[q].user] = work[q].row
           /\ \A w \in User \ {work[q].user} : rows'[w] = rows[w]
<1>1. rows \in [User -> Row \cup {None}] /\ work[q] \in Work
    BY DEF Base, TypeOK, TableTypeOK
<1>2. work[q].user \in User /\ work[q].row \in Row /\ work[q].row # None
    BY <1>1, NoneAssumption DEF Work
<1>3. /\ rows'[work[q].user] = work[q].row
      /\ \A w \in User \ {work[q].user} : rows'[w] = rows[w]
    BY <1>1, <1>2 DEF Commit
<1>4. \A p \in Request \ {q} : work[p] # None => work[p].user \in User \ {work[q].user}
    BY DEF Base, IInv, Core, Table, Reserved
<1>5. QED
    BY <1>1, <1>2, <1>3, <1>4 DEF RowsGrow

\* A step of q is nothing to what the others have found, hold and have written.
LEMMA OthersKeep ==
    ASSUME Base, NEW q \in Request, Kept(q), RowsGrow(q), NEW p \in Request \ {q}
    PROVE  RequestOK(p)'
<1>1. RequestOK(p) /\ target[p] \in User
    BY DEF Base, IInv, Targets
<1>2. /\ pc'[p] = pc[p] /\ target'[p] = target[p] /\ address'[p] = address[p]
      /\ held'[p] = held[p] /\ work'[p] = work[p]
      /\ p \in Change => columns'[p] = columns[p]
      /\ p \in Register => unsaved'[p] = unsaved[p] /\ job'[p] = job[p]
      /\ p \in refresh' <=> p \in refresh
      /\ p \in outbox' <=> p \in outbox
      /\ p \in mailed' <=> p \in mailed
    BY DEF Kept
<1>3. rows[target[p]] # None => rows'[target[p]] # None
    BY <1>1 DEF RowsGrow
<1>4. p \in Register \cup Callback => (rows'[p] # None <=> rows[p] # None)
    BY RegistrationAssumption DEF RowsGrow
<1>5. FoundOK(p)'
    BY <1>1, <1>2, <1>3 DEF RequestOK, FoundOK
<1>6. RegisterOK(p)'
    BY <1>1, <1>2, <1>4 DEF RequestOK, RegisterOK, NewRow
<1>7. CallbackOK(p)'
    BY <1>1, <1>2, <1>4 DEF RequestOK, CallbackOK
<1>8. p \in Verify \cup Change \cup Reset /\ work[p] # None => RowOf(p)' = RowOf(p)
    BY <1>1, <1>2 DEF RequestOK, WorkOK, RowsGrow, RowOf
<1>9. p \in Change /\ work[p] # None => Changed(p)' = Changed(p)
    BY <1>2, <1>8 DEF Changed
<1>10. WorkOK(p)'
    BY <1>1, <1>2, <1>8, <1>9 DEF RequestOK, WorkOK
<1>11. QED
    BY <1>5, <1>6, <1>7, <1>10 DEF RequestOK

\* What is left to show for a step of q.
LEMMA BaseGoesOn ==
    ASSUME Base, NEW q \in Request, [Next]_vars, Kept(q), RowsGrow(q), TypeOK',
           identities' \subseteq identities \cup Present, RequestOK(q)'
    PROVE  Base'
<1>1. IInv'
    BY StepKeeps DEF Base
<1>2. Existing'
    <2>1. rows'[Seeded] # None
        BY TableAssumption DEF Base, Existing, RowsGrow
    <2>2. \A u \in User : rows'[u] # None => u \in Register \cup Callback \cup {Seeded}
        BY DEF Base, Existing, RowsGrow
    <2>3. identities' \subseteq Present'
        BY DEF Base, Existing, RowsGrow, Present
    <2>4. QED
        BY <2>1, <2>2, <2>3 DEF Existing
<1>3. \A p \in Request : RequestOK(p)'
    BY OthersKeep
<1>4. QED
    BY <1>1, <1>2, <1>3 DEF Base

(***************************************************************************)
(* The steps of Registration                                               *)
(***************************************************************************)

\* The types of what Kept speaks of.
Typed ==
    /\ pc \in [Request -> Pc] /\ target \in [Request -> User]
    /\ address \in [Request -> Address] /\ held \in [Request -> Credential]
    /\ work \in [Request -> Work \cup {None}] /\ rows \in [User -> Row \cup {None}]
    /\ columns \in [Change -> SUBSET {"email", "password"}]
    /\ unsaved \in [Register -> SUBSET {"refresh", "outbox"}]
    /\ job \in [Register -> {"none", "token", "send", "sent", "failed"}]

LEMMA TypedHolds == Base => Typed
BY DEF Base, TypeOK, TableTypeOK, RegistrationTypeOK, CredentialsTypeOK, Typed

LEMMA NewRowType == \A a \in Address, p \in Request : NewRow(a, p) \in Row
BY TableAssumption DEF NewRow, Row, Credential

LEMMA RegisterKept ==
    ASSUME Base, NEW q \in Register, RegisterStep(q) \/ HandlerStep(q),
           UNCHANGED credentialVars
    PROVE  Kept(q)
<1>1. Typed /\ q \in Request
    BY TypedHolds, RegistrationAssumption
<1>2. CASE RegisterStep(q)
    <2>1. /\ \A p \in Request \ {q} : work'[p] = work[p]
          /\ \A p \in Register \ {q} : unsaved'[p] = unsaved[p] /\ job'[p] = job[p]
        BY <1>1, <1>2
        DEF RegisterStep, RegisterStarts, InsertUser, InsertConflicts, SaveRefreshToken,
            Stage, CommitRegistration, CommitAll, Flush, RegisterThrows, RefreshInside,
            Dispatch, Write, Commit, Rollback, Typed, tableVars, registrationVars, eventVars
    <2>2. QED
        BY <1>1, <1>2, <2>1
        DEF Kept,
            RegisterStep, RegisterStarts, InsertUser, InsertConflicts, SaveRefreshToken,
            Stage, CommitRegistration, CommitAll, Flush, RegisterThrows, RefreshInside,
            Goto, Typed, registrationVars, eventVars, credentialVars
<1>3. CASE HandlerStep(q)
    BY <1>1, <1>3
    DEF Kept, HandlerStep, SaveVerifyToken, SendVerification, HandlerFails, Typed,
        requestVars, tableVars, credentialVars
<1>4. QED
    BY <1>2, <1>3

LEMMA RegisterTypes ==
    ASSUME Base, NEW q \in Register, RegisterStep(q) \/ HandlerStep(q),
           UNCHANGED credentialVars
    PROVE  TypeOK'
<1>1. q \in Request /\ q \in User /\ TypeOK /\ Typed
    BY TypedHolds, RegistrationAssumption DEF Base
<1>2. TableTypeOK'
    <2>1. NewRow(address[q], q) \in Row
        BY <1>1, NewRowType DEF Typed
    <2>2. CASE Write(q, q, NewRow(address[q], q))
        BY <1>1, <2>1, <2>2 DEF Write, Typed, TableTypeOK, Work
    <2>3. CASE Commit(q) \/ Rollback(q)
        BY <1>1, <2>3 DEF Commit, Rollback, Typed, TableTypeOK, Work
    <2>4. CASE UNCHANGED tableVars
        BY <1>1, <2>4 DEF tableVars, Typed, TableTypeOK
    <2>5. QED
        BY <2>2, <2>3, <2>4
        DEF RegisterStep, RegisterStarts, InsertUser, InsertConflicts, SaveRefreshToken,
            Stage, CommitRegistration, CommitAll, Flush, RegisterThrows,
            HandlerStep, SaveVerifyToken, SendVerification, HandlerFails
<1>3. /\ pc' \in [Request -> Pc] /\ target' \in [Request -> User]
      /\ address' \in [Request -> Address] /\ faults' \in 0..MaxFaults
    BY <1>1, TableAssumption
    DEF RegisterStep, RegisterStarts, InsertUser, InsertConflicts, SaveRefreshToken,
        Stage, CommitRegistration, Flush, RegisterThrows, Fault, Goto, Pc,
        HandlerStep, SaveVerifyToken, SendVerification, HandlerFails, requestVars,
        TypeOK, Typed
<1>4. RegistrationTypeOK'
    BY <1>1
    DEF RegisterStep, RegisterStarts, InsertUser, InsertConflicts, SaveRefreshToken,
        Stage, CommitRegistration, CommitAll, Flush, RegisterThrows, RefreshInside, Dispatch,
        HandlerStep, SaveVerifyToken, SendVerification, HandlerFails,
        TypeOK, RegistrationTypeOK, registrationVars, eventVars, personVars
<1>5. CredentialsTypeOK'
    BY <1>1 DEF TypeOK, CredentialsTypeOK, credentialVars
<1>6. QED
    BY <1>2, <1>3, <1>4, <1>5 DEF TypeOK

\* A commit of a registration shows the user it created, and nothing else does.
LEMMA RegisterRows ==
    ASSUME Base, NEW q \in Register, RegisterStep(q)
    PROVE  /\ RowsGrow(q)
           /\ \A u \in User \ {q} : rows'[u] = rows[u]
           /\ IF Commit(q) /\ pc[q] = "commit"
              THEN rows[q] = None /\ rows'[q] = NewRow(address[q], q) /\ rows'[q] # None
              ELSE rows'[q] = rows[q]
<1>1. q \in Request /\ RegisterOK(q)
    BY RegistrationAssumption DEF Base, RequestOK
<1>2. CASE Commit(q) /\ pc[q] = "commit"
    <2>1. work[q] # None /\ work[q] = [user |-> q, row |-> NewRow(address[q], q)]
        BY <1>1, <1>2 DEF RegisterOK, Open
    <2>2. rows[q] = None
        BY <1>1, <1>2 DEF RegisterOK, Open
    <2>3. work[q].user = q /\ work[q].row = NewRow(address[q], q)
        BY <2>1
    <2>4. /\ RowsGrow(q)
          /\ rows'[work[q].user] = work[q].row
          /\ \A w \in User \ {work[q].user} : rows'[w] = rows[w]
        BY <1>1, <1>2, <2>1, <2>3, RowsAreCommitted
    <2>5. NewRow(address[q], q) # None
        BY <1>1, NewRowType, NoneAssumption, TypedHolds DEF Typed
    <2>6. QED
        BY <1>2, <2>2, <2>3, <2>4, <2>5
<1>3. CASE ~ (Commit(q) /\ pc[q] = "commit")
    <2>1. UNCHANGED rows
        BY <1>3
        DEF RegisterStep, RegisterStarts, InsertUser, InsertConflicts, SaveRefreshToken,
            Stage, CommitRegistration, CommitAll, Flush, RegisterThrows, Write, Rollback,
            tableVars
    <2>2. QED
        BY <1>3, <2>1, RowsStay
<1>4. QED
    BY <1>2, <1>3

\* What a commit shows is the user, its token and its event together.
LEMMA RegisterStepOK ==
    ASSUME Base, NEW q \in Register, RegisterStep(q)
    PROVE  RequestOK(q)'
<1>1. q \in Request /\ RegisterOK(q) /\ Typed
    BY RegistrationAssumption, TypedHolds DEF Base, RequestOK
<1>2. q \notin Verify \cup Callback \cup Change \cup Reset
    BY OneRoute
<1>3. IF Commit(q) /\ pc[q] = "commit"
      THEN rows[q] = None /\ rows'[q] = NewRow(address[q], q) /\ rows'[q] # None
      ELSE rows'[q] = rows[q]
    BY RegisterRows
<1>4. FoundOK(q)' /\ CallbackOK(q)' /\ WorkOK(q)'
    BY <1>2 DEF FoundOK, CallbackOK, WorkOK
<1>5. RegisterOK(q)'
    <2>1. CASE RegisterStarts(q)
        BY <1>1, <1>3, <2>1
        DEF RegisterStarts, RegisterOK, Goto, Open, Typed, tableVars, registrationVars
    <2>2. CASE InsertUser(q)
        <3>1. work'[q] = [user |-> q, row |-> NewRow(address[q], q)]
            BY <1>1, <2>2 DEF InsertUser, Write, Typed
        <3>2. work'[q] # None
            BY <1>1, <3>1, NewRowType, NoneAssumption, RegistrationAssumption DEF Work, Typed
        <3>3. UNCHANGED <<address, rows, unsaved, refresh, outbox, job, mailed>>
            BY <2>2 DEF InsertUser, Write, registrationVars
        <3>4. pc'[q] = "refresh" /\ pc[q] = "insert"
            BY <1>1, <2>2 DEF InsertUser, Goto, Typed
        <3>5. QED
            BY <1>1, <3>1, <3>2, <3>3, <3>4 DEF RegisterOK, Open, NewRow
    <2>3. CASE InsertConflicts(q)
        BY <1>1, <1>3, <2>3
        DEF InsertConflicts, Rollback, RegisterOK, Goto, Open, Typed, registrationVars
    <2>4. CASE SaveRefreshToken(q)
        BY <1>1, <1>3, <2>4
        DEF SaveRefreshToken, RefreshInside, RegisterOK, Goto, Open, Typed, tableVars, eventVars,
            NewRow
    <2>5. CASE Stage(q)
        BY <1>1, <1>3, <2>5
        DEF Stage, RegisterOK, Goto, Open, Typed, tableVars, NewRow
    <2>6. CASE CommitRegistration(q)
        <3>1. work'[q] = None /\ rows'[q] # None /\ pc'[q] = "flush"
            BY <1>1, <1>3, <2>6 DEF CommitRegistration, CommitAll, Commit, Goto, Typed
        <3>2. unsaved[q] = {"refresh", "outbox"} /\ unsaved'[q] = {}
            BY <1>1, <2>6 DEF CommitRegistration, CommitAll, RegisterOK, Typed
        <3>3. q \in refresh' /\ q \in outbox'
            BY <3>2, <2>6 DEF CommitRegistration, CommitAll
        <3>4. QED
            BY <1>1, <3>1, <3>2, <3>3 DEF RegisterOK, Open
    <2>7. CASE RegisterThrows(q)
        <3>1. work'[q] = None /\ pc'[q] = "done" /\ unsaved'[q] = {}
            BY <1>1, <2>7 DEF RegisterThrows, CommitAll, Commit, Rollback, Goto, Typed
        <3>2. CASE CommitAll(q) /\ pc[q] = "commit"
            <4>1. unsaved[q] = {"refresh", "outbox"} /\ rows'[q] # None
                BY <1>1, <1>3, <3>2 DEF CommitAll, RegisterOK
            <4>2. q \in refresh' /\ q \in outbox'
                BY <4>1, <3>2 DEF CommitAll
            <4>3. QED
                BY <1>1, <3>1, <4>1, <4>2 DEF RegisterOK, Open
        <3>3. CASE Rollback(q) /\ UNCHANGED <<refresh, outbox>>
            <4>1. UNCHANGED <<rows, refresh, outbox, job, mailed>>
                BY <3>3, <2>7 DEF RegisterThrows, eventVars, Rollback
            <4>2. QED
                BY <1>1, <3>1, <4>1 DEF RegisterOK, Open
        <3>4. QED
            BY <2>7, <3>2, <3>3 DEF RegisterThrows
    <2>8. CASE Flush(q)
        BY <1>1, <1>3, <2>8
        DEF Flush, Dispatch, RegisterOK, Goto, Open, Typed, tableVars
    <2>9. QED
        BY <2>1, <2>2, <2>3, <2>4, <2>5, <2>6, <2>7, <2>8 DEF RegisterStep
<1>6. QED
    BY <1>4, <1>5 DEF RequestOK

\* The handler works for a user who is there.
LEMMA HandlerStepOK ==
    ASSUME Base, NEW q \in Register, HandlerStep(q)
    PROVE  RowsGrow(q) /\ RequestOK(q)'
<1>1. q \in Request /\ RegisterOK(q) /\ Typed
    BY RegistrationAssumption, TypedHolds DEF Base, RequestOK
<1>2. q \notin Verify \cup Callback \cup Change \cup Reset
    BY OneRoute
<1>3. FoundOK(q)' /\ CallbackOK(q)' /\ WorkOK(q)'
    BY <1>2 DEF FoundOK, CallbackOK, WorkOK
<1>4. UNCHANGED <<tableVars, requestVars, unsaved, refresh, outbox>>
    BY DEF HandlerStep, SaveVerifyToken, SendVerification, HandlerFails
<1>5. job[q] \in {"token", "send"} /\ mailed' \subseteq mailed \cup {q}
    BY DEF HandlerStep, SaveVerifyToken, SendVerification, HandlerFails
<1>6. rows[q] # None
    BY <1>1, <1>5 DEF RegisterOK
<1>7. RegisterOK(q)'
    BY <1>1, <1>4, <1>6 DEF RegisterOK, tableVars, requestVars, NewRow
<1>8. QED
    BY <1>3, <1>4, <1>7, RowsStay DEF RequestOK, tableVars

LEMMA RegisterKeepsBase ==
    ASSUME Base, NEW q \in Register, RegisterStep(q) \/ HandlerStep(q),
           UNCHANGED credentialVars, [Next]_vars
    PROVE  Base' /\ Kept(q) /\ RowsGrow(q)
<1>1. q \in Request
    BY RegistrationAssumption
<1>2. identities' \subseteq identities
    BY DEF RegisterStep, RegisterStarts, InsertUser, InsertConflicts, SaveRefreshToken,
           Stage, CommitRegistration, Flush, RegisterThrows,
           HandlerStep, SaveVerifyToken, SendVerification, HandlerFails,
           registrationVars, personVars
<1>3. QED
    BY <1>1, <1>2, RegisterKept, RegisterTypes, RegisterRows, RegisterStepOK, HandlerStepOK,
       BaseGoesOn

(***************************************************************************)
(* A transaction on an existing row                                        *)
(***************************************************************************)

\* What it writes.
LEMMA RowIsWritten ==
    ASSUME Base, NEW q \in Request, NEW r \in Row, Write(q, target[q], r)
    PROVE  /\ rows' = rows /\ TableTypeOK'
           /\ work'[q] # None /\ work'[q].user = target[q] /\ work'[q].row = r
           /\ \A p \in Request \ {q} : work'[p] = work[p]
<1>1. Typed
    BY TypedHolds
<1>2. rows' = rows /\ work' = [work EXCEPT ![q] = [user |-> target[q], row |-> r]]
    BY DEF Write
<1>3. [user |-> target[q], row |-> r] \in Work
    BY <1>1 DEF Work, Typed
<1>4. QED
    BY <1>1, <1>2, <1>3, NoneAssumption DEF Typed, TableTypeOK

\* What its commit shows.
LEMMA RowIsCommitted ==
    ASSUME Base, NEW q \in Verify \cup Change \cup Reset, q \in Request,
           pc[q] = "commit", Commit(q)
    PROVE  /\ rows[target[q]] \in Row
           /\ RowsGrow(q) /\ TableTypeOK'
           /\ work[q] # None /\ work[q].user = target[q] /\ work[q].row \in Row
           /\ rows'[target[q]] = work[q].row
           /\ \A w \in User \ {target[q]} : rows'[w] = rows[w]
           /\ work'[q] = None
           /\ \A p \in Request \ {q} : work'[p] = work[p]
<1>1. Typed /\ WorkOK(q) /\ FoundOK(q)
    BY TypedHolds DEF Base, RequestOK
<1>2. work[q] # None /\ work[q].user = target[q]
    BY <1>1 DEF WorkOK
<1>3. rows[target[q]] \in Row /\ rows[target[q]] # None
    BY <1>1, OneRoute, NoneAssumption DEF FoundOK, Typed
<1>4. work[q].row \in Row
    BY <1>1, <1>2 DEF Typed, Work
<1>5. TableTypeOK'
    BY <1>1, <1>2, <1>4 DEF Commit, TableTypeOK, Typed
<1>6. QED
    BY <1>1, <1>2, <1>3, <1>4, <1>5, RowsAreCommitted DEF Commit, Typed

\* Its end without a commit.
LEMMA RowIsLeft ==
    ASSUME Base, NEW q \in Request, Rollback(q)
    PROVE  /\ RowsGrow(q) /\ rows' = rows /\ TableTypeOK' /\ work'[q] = None
           /\ \A p \in Request \ {q} : work'[p] = work[p]
<1>1. Typed
    BY TypedHolds
<1>2. QED
    BY <1>1, RowsStay DEF Rollback, TableTypeOK, Typed

LEMMA TableStays ==
    ASSUME Base, NEW q \in Request, UNCHANGED tableVars
    PROVE  RowsGrow(q) /\ rows' = rows /\ work' = work /\ TableTypeOK'
BY RowsStay DEF Base, TypeOK, TableTypeOK, tableVars

(***************************************************************************)
(* POST /auth/verify-email                                                 *)
(***************************************************************************)

LEMMA MarkedRow ==
    ASSUME Base, NEW v \in Verify, pc[v] = "mark"
    PROVE  [RowOf(v) EXCEPT !.verified = TRUE] \in Row
<1>1. v \in Request /\ Typed /\ FoundOK(v)
    BY TypedHolds, RegistrationAssumption DEF Base, RequestOK
<1>2. RowOf(v) \in Row
    BY <1>1, OneRoute DEF FoundOK, Typed, RowOf
<1>3. QED
    BY <1>2 DEF Row

\* How the table changes, and where the request is then.
LEMMA VerifyTable ==
    ASSUME Base, NEW v \in Verify, VerifyStep(v)
    PROVE  /\ RowsGrow(v) /\ TableTypeOK'
           /\ \A p \in Request \ {v} : work'[p] = work[p]
           /\ WorkOK(v)'
<1>1. v \in Request /\ Typed /\ WorkOK(v)
    BY TypedHolds, RegistrationAssumption DEF Base, RequestOK
<1>2. v \notin Register \cup Change \cup Reset
    BY OneRoute
<1>3. CASE VerifyFinds(v) \/ VerifyRefused(v)
    <2>1. pc[v] = "new" /\ pc'[v] \in {"mark", "done"} /\ UNCHANGED tableVars
        BY <1>1, <1>3 DEF VerifyFinds, VerifyRefused, Goto, Typed
    <2>2. QED
        BY <1>1, <1>2, <2>1, TableStays DEF WorkOK
<1>4. CASE MarkVerified(v)
    <2>1. /\ pc'[v] = "commit" /\ target' = target
          /\ Write(v, target[v], [RowOf(v) EXCEPT !.verified = TRUE])
        BY <1>1, <1>4 DEF MarkVerified, Goto, Typed, RowOf
    <2>2. [RowOf(v) EXCEPT !.verified = TRUE] \in Row
        BY <1>4, MarkedRow DEF MarkVerified
    <2>3. QED
        BY <1>1, <1>2, <2>1, <2>2, RowIsWritten, RowsStay DEF WorkOK, RowOf
<1>5. CASE CommitVerified(v)
    <2>1. pc'[v] = "done" /\ pc[v] = "commit" /\ Commit(v)
        BY <1>1, <1>5 DEF CommitVerified, Goto, Typed
    <2>2. QED
        BY <1>1, <1>2, <2>1, RowIsCommitted DEF WorkOK
<1>6. CASE VerifyThrows(v)
    <2>1. pc'[v] = "done" /\ Rollback(v)
        BY <1>1, <1>6 DEF VerifyThrows, Goto, Typed
    <2>2. QED
        BY <1>1, <1>2, <2>1, RowIsLeft DEF WorkOK
<1>7. QED
    BY <1>3, <1>4, <1>5, <1>6 DEF VerifyStep

LEMMA VerifyKeepsBase ==
    ASSUME Base, NEW v \in Verify, VerifyStep(v), UNCHANGED credentialVars, [Next]_vars
    PROVE  Base' /\ Kept(v) /\ RowsGrow(v)
<1>1. v \in Request /\ Typed /\ TypeOK /\ FoundOK(v)
    BY TypedHolds, RegistrationAssumption DEF Base, RequestOK
<1>2. v \notin Register \cup Callback \cup Change \cup Reset
    BY OneRoute
<1>3. Kept(v)
    BY <1>1, <1>2, VerifyTable
    DEF Kept, VerifyStep, VerifyFinds, VerifyRefused, MarkVerified, CommitVerified,
        VerifyThrows, Goto, Typed, registrationVars, credentialVars
<1>4. \A q \in TokensFound : q \in User /\ rows[q] # None
    BY RegistrationAssumption
    DEF TokensFound, Base, TypeOK, RegistrationTypeOK, RequestOK, RegisterOK
<1>5. FoundOK(v)'
    <2>1. CASE VerifyFinds(v)
        BY <1>1, <1>4, <2>1 DEF VerifyFinds, FoundOK, Goto, Typed, tableVars
    <2>2. CASE ~VerifyFinds(v)
        <3>1. pc'[v] = "done" \/ (pc[v] = "mark" /\ target' = target)
            BY <1>1, <2>2
            DEF VerifyStep, VerifyRefused, MarkVerified, CommitVerified, VerifyThrows,
                Goto, Typed
        <3>2. QED
            BY <1>1, <1>2, <3>1, VerifyTable DEF FoundOK, RowsGrow, Typed
    <2>3. QED
        BY <2>1, <2>2
<1>6. RequestOK(v)'
    BY <1>2, <1>5, VerifyTable DEF RequestOK, RegisterOK, CallbackOK
<1>7. TypeOK'
    <2>1. /\ pc' \in [Request -> Pc] /\ target' \in [Request -> User]
          /\ address' \in [Request -> Address] /\ faults' \in 0..MaxFaults
        BY <1>1, <1>4, TableAssumption
        DEF VerifyStep, VerifyFinds, VerifyRefused, MarkVerified, CommitVerified,
            VerifyThrows, Fault, Goto, Pc, TypeOK, Typed
    <2>2. RegistrationTypeOK'
        BY <1>1
        DEF VerifyStep, VerifyFinds, VerifyRefused, MarkVerified, CommitVerified,
            VerifyThrows, TypeOK, RegistrationTypeOK, registrationVars, personVars
    <2>3. CredentialsTypeOK'
        BY <1>1 DEF TypeOK, CredentialsTypeOK, credentialVars
    <2>4. QED
        BY <2>1, <2>2, <2>3, VerifyTable DEF TypeOK
<1>8. identities' = identities
    BY DEF VerifyStep, VerifyFinds, VerifyRefused, MarkVerified, CommitVerified,
           VerifyThrows, registrationVars, personVars
<1>9. QED
    BY <1>1, <1>3, <1>6, <1>7, <1>8, VerifyTable, BaseGoesOn

(***************************************************************************)
(* The callback of an external login                                       *)
(***************************************************************************)

\* A callback creates its own user, with a row that was not there.
LEMMA CallbackRows ==
    ASSUME Base, NEW c \in Callback, CallbackStep(c)
    PROVE  /\ RowsGrow(c) /\ TableTypeOK' /\ work' = work
           /\ \A u \in User \ {c} : rows'[u] = rows[u]
           /\ IF CreateUser(c)
              THEN rows[c] = None /\ rows'[c] = NewRow(address[c], c) /\ rows'[c] # None
              ELSE rows' = rows
<1>1. c \in Request /\ c \in User /\ Typed /\ CallbackOK(c)
    BY TypedHolds, RegistrationAssumption DEF Base, RequestOK
<1>2. CASE CreateUser(c)
    <2>1. NewRow(address[c], c) \in Row
        BY <1>1, NewRowType DEF Typed
    <2>2. WriteNow(c, c, NewRow(address[c], c)) /\ pc[c] = "create"
        BY <1>2 DEF CreateUser
    <2>3. rows[c] = None
        BY <1>1, <2>2 DEF CallbackOK
    <2>4. /\ RowsGrow(c) /\ rows'[c] = NewRow(address[c], c)
          /\ \A w \in User \ {c} : rows'[w] = rows[w]
        BY <1>1, <2>1, <2>2, RowsAreWritten
    <2>5. TableTypeOK' /\ work' = work
        BY <1>1, <2>1, <2>2 DEF WriteNow, TableTypeOK, Typed
    <2>6. QED
        BY <1>2, <2>1, <2>3, <2>4, <2>5, NoneAssumption
<1>3. CASE ~CreateUser(c)
    <2>1. UNCHANGED tableVars
        BY <1>3 DEF CallbackStep, LookUpSubject, FindByAddress, CreateConflicts, Link, SignIn,
                    CallbackThrows
    <2>2. QED
        BY <1>1, <1>3, <2>1, TableStays
<1>4. QED
    BY <1>2, <1>3

LEMMA CallbackFinds ==
    ASSUME Base, NEW c \in Callback, CallbackStep(c)
    PROVE  FoundOK(c)' /\ CallbackOK(c)'
<1>1. c \in Request /\ c \in User /\ Typed /\ FoundOK(c) /\ CallbackOK(c)
    BY TypedHolds, RegistrationAssumption DEF Base, RequestOK
<1>2. CASE LookUpSubject(c)
    <2>1. \A u \in identities : u \in User /\ rows[u] # None
        BY DEF Base, Existing, Present
    <2>2. QED
        BY <1>1, <1>2, <2>1
        DEF LookUpSubject, FoundOK, CallbackOK, Goto, Typed, tableVars
<1>3. CASE FindByAddress(c)
    <2>1. Known(address[c]) => UserOf(address[c]) \in User /\ rows[UserOf(address[c])] # None
        BY DEF Known, UserOf
    <2>2. QED
        BY <1>1, <1>3, <2>1
        DEF FindByAddress, FoundOK, CallbackOK, Goto, Typed, tableVars
<1>4. CASE CreateUser(c)
    <2>1. rows'[c] # None
        BY <1>4, CallbackRows
    <2>2. QED
        BY <1>1, <1>4, <2>1 DEF CreateUser, FoundOK, CallbackOK, Goto, Typed
<1>5. CASE CreateConflicts(c) \/ SignIn(c) \/ CallbackThrows(c)
    BY <1>1, <1>5 DEF CreateConflicts, SignIn, CallbackThrows, FoundOK, CallbackOK, Goto, Typed
<1>6. CASE Link(c)
    BY <1>1, <1>6 DEF Link, FoundOK, CallbackOK, Goto, Typed, tableVars
<1>7. QED
    BY <1>2, <1>3, <1>4, <1>5, <1>6 DEF CallbackStep

LEMMA CallbackKeepsBase ==
    ASSUME Base, NEW c \in Callback, CallbackStep(c), UNCHANGED credentialVars, [Next]_vars
    PROVE  Base' /\ Kept(c) /\ RowsGrow(c)
<1>1. c \in Request /\ c \in User /\ Typed /\ TypeOK /\ FoundOK(c) /\ WorkOK(c)
    BY TypedHolds, RegistrationAssumption DEF Base, RequestOK
<1>2. c \notin Register \cup Verify \cup Change \cup Reset
    BY OneRoute
<1>3. Kept(c)
    BY <1>1, CallbackRows
    DEF Kept, CallbackStep, LookUpSubject, FindByAddress, CreateUser, CreateConflicts, Link,
        SignIn, CallbackThrows, Goto, Typed, registrationVars, eventVars, credentialVars
<1>4. RequestOK(c)'
    BY <1>1, <1>2, CallbackFinds, CallbackRows DEF RequestOK, RegisterOK, WorkOK
<1>5. TypeOK'
    <2>1. Known(address[c]) => UserOf(address[c]) \in User
        BY DEF Known, UserOf
    <2>2. identities \subseteq User
        BY <1>1 DEF TypeOK, RegistrationTypeOK
    <2>3. /\ pc' \in [Request -> Pc] /\ target' \in [Request -> User]
          /\ address' \in [Request -> Address] /\ faults' \in 0..MaxFaults
        BY <1>1, <2>1, <2>2, TableAssumption, RegistrationAssumption
        DEF CallbackStep, LookUpSubject, FindByAddress, CreateUser, CreateConflicts, Link,
            SignIn, CallbackThrows, Fault, Goto, Pc, TypeOK, Typed
    <2>4. RegistrationTypeOK'
        BY <1>1
        DEF CallbackStep, LookUpSubject, FindByAddress, CreateUser, CreateConflicts, Link,
            SignIn, CallbackThrows, TypeOK, RegistrationTypeOK, registrationVars, eventVars,
            Typed
    <2>5. CredentialsTypeOK'
        BY <1>1 DEF TypeOK, CredentialsTypeOK, credentialVars
    <2>6. QED
        BY <2>3, <2>4, <2>5, CallbackRows DEF TypeOK
<1>6. identities' \subseteq identities \cup Present
    <2>1. Link(c) => target[c] \in Present
        BY <1>1, <1>2 DEF Link, FoundOK, Present, Typed
    <2>2. QED
        BY <2>1
        DEF CallbackStep, LookUpSubject, FindByAddress, CreateUser, CreateConflicts, Link,
            SignIn, CallbackThrows, registrationVars
<1>7. QED
    BY <1>1, <1>3, <1>4, <1>5, <1>6, CallbackRows, BaseGoesOn

(***************************************************************************)
(* PATCH /users/:id                                                        *)
(***************************************************************************)

LEMMA ChangedRow ==
    ASSUME Base, NEW q \in Change, pc[q] \in {"select", "update", "commit"}
    PROVE  Changed(q) \in Row
<1>1. q \in Request /\ Typed /\ FoundOK(q) /\ WorkOK(q)
    BY TypedHolds, CredentialsAssumption DEF Base, RequestOK
<1>2. RowOf(q) \in Row
    BY <1>1, OneRoute DEF FoundOK, Typed, RowOf
<1>3. held[q] \in Credential \ {None} /\ address[q] \in Address
    BY <1>1 DEF WorkOK, Typed
<1>4. QED
    BY <1>2, <1>3 DEF Changed, Row

\* How the table changes, and where the request is then.
LEMMA ChangeTable ==
    ASSUME Base, NEW q \in Change, ChangeStep(q)
    PROVE  /\ RowsGrow(q) /\ TableTypeOK'
           /\ \A p \in Request \ {q} : work'[p] = work[p]
           /\ WorkOK(q)'
<1>1. q \in Request /\ Typed /\ FoundOK(q) /\ WorkOK(q)
    BY TypedHolds, CredentialsAssumption DEF Base, RequestOK
<1>2. q \notin Register \cup Verify \cup Callback \cup Reset
    BY OneRoute
<1>3. CASE LoadUser(q)
    <2>1. pc[q] = "new" /\ pc'[q] = "find" /\ UNCHANGED tableVars
        BY <1>1, <1>3 DEF LoadUser, Goto, Typed
    <2>2. QED
        BY <1>1, <1>2, <2>1, TableStays DEF WorkOK
<1>4. CASE FindExisting(q)
    <2>1. /\ pc[q] = "find" /\ pc'[q] = "select" /\ UNCHANGED tableVars
          /\ held'[q] = RowOf(q).password
        BY <1>1, <1>4 DEF FindExisting, ExistingHash, Hold, Goto, Typed
    <2>2. RowOf(q) \in Row
        BY <1>1, <1>2, <2>1 DEF FoundOK, Typed, RowOf
    <2>3. held'[q] # None
        BY <2>1, <2>2 DEF Row
    <2>4. QED
        BY <1>1, <1>2, <2>1, <2>3, TableStays DEF WorkOK
<1>5. CASE SelectAgain(q)
    <2>1. /\ pc[q] = "select" /\ pc'[q] = "update" /\ UNCHANGED <<tableVars, held>>
        BY <1>1, <1>5 DEF SelectAgain, Goto, Typed
    <2>2. QED
        BY <1>1, <1>2, <2>1, TableStays DEF WorkOK, tableVars
<1>6. CASE UpdateColumns(q)
    <2>1. /\ pc[q] = "update" /\ pc'[q] = "commit"
          /\ Write(q, target[q], Changed(q))
          /\ UNCHANGED <<target, address, held, columns>>
        BY <1>1, <1>6 DEF UpdateColumns, Changed, Goto, Typed, credentialVars
    <2>2. Changed(q) \in Row
        BY <2>1, ChangedRow
    <2>3. rows' = rows
        BY <2>1 DEF Write
    <2>4. Changed(q)' = Changed(q)
        BY <2>1, <2>3 DEF Changed, RowOf
    <2>5. QED
        BY <1>1, <1>2, <2>1, <2>2, <2>4, RowIsWritten, RowsStay DEF WorkOK
<1>7. CASE UpdateConflicts(q)
    <2>1. pc'[q] = "done" /\ Rollback(q)
        BY <1>1, <1>7 DEF UpdateConflicts, Goto, Typed
    <2>2. QED
        BY <1>1, <1>2, <2>1, RowIsLeft DEF WorkOK
<1>8. CASE CommitChange(q)
    <2>1. pc'[q] = "done" /\ pc[q] = "commit" /\ Commit(q)
        BY <1>1, <1>8 DEF CommitChange, Goto, Typed
    <2>2. QED
        BY <1>1, <1>2, <2>1, RowIsCommitted DEF WorkOK
<1>9. QED
    BY <1>3, <1>4, <1>5, <1>6, <1>7, <1>8 DEF ChangeStep

LEMMA ChangeKeepsBase ==
    ASSUME Base, NEW q \in Change, ChangeStep(q), UNCHANGED registrationVars, [Next]_vars
    PROVE  Base' /\ Kept(q) /\ RowsGrow(q)
<1>1. q \in Request /\ Typed /\ TypeOK /\ FoundOK(q)
    BY TypedHolds, CredentialsAssumption DEF Base, RequestOK
<1>2. q \notin Register \cup Verify \cup Callback \cup Reset
    BY OneRoute
<1>3. Kept(q)
    <2>1. /\ \A p \in Request \ {q} : held'[p] = held[p]
          /\ \A p \in Change \ {q} : columns'[p] = columns[p]
        BY <1>1
        DEF ChangeStep, LoadUser, FindExisting, SelectAgain, UpdateColumns,
            UpdateConflicts, CommitChange, Hold, Typed, credentialVars
    <2>2. \A p \in Request \ {q} :
              pc'[p] = pc[p] /\ target'[p] = target[p] /\ address'[p] = address[p]
        BY <1>1
        DEF ChangeStep, LoadUser, FindExisting, SelectAgain, UpdateColumns,
            UpdateConflicts, CommitChange, Goto, Find, Typed
    <2>3. QED
        BY <2>1, <2>2, ChangeTable DEF Kept, registrationVars
<1>4. FoundOK(q)'
    <2>1. CASE LoadUser(q)
        BY <1>1, <2>1 DEF LoadUser, Present, Find, FoundOK, Goto, Typed, tableVars
    <2>2. CASE ~LoadUser(q)
        <3>1. pc'[q] = "done" \/ (pc[q] \notin {"absent", "new", "done"} /\ target' = target)
            BY <1>1, <2>2
            DEF ChangeStep, FindExisting, SelectAgain, UpdateColumns, UpdateConflicts,
                CommitChange, Goto, Typed
        <3>2. QED
            BY <1>1, <1>2, <3>1, ChangeTable DEF FoundOK, RowsGrow, Typed
    <2>3. QED
        BY <2>1, <2>2
<1>5. RequestOK(q)'
    BY <1>2, <1>4, ChangeTable DEF RequestOK, RegisterOK, CallbackOK
<1>6. TypeOK'
    <2>1. /\ pc' \in [Request -> Pc] /\ target' \in [Request -> User]
          /\ address' \in [Request -> Address] /\ faults' \in 0..MaxFaults
        BY <1>1, TableAssumption
        DEF ChangeStep, LoadUser, FindExisting, SelectAgain, UpdateColumns, UpdateConflicts,
            CommitChange, Present, Find, Goto, Pc, TypeOK, Typed
    <2>2. RegistrationTypeOK'
        BY <1>1 DEF TypeOK, RegistrationTypeOK, registrationVars
    <2>3. held' \in [Request -> Credential]
        <3>1. FindExisting(q) => RowOf(q).password \in Credential
            BY <1>1, <1>2 DEF FindExisting, FoundOK, Typed, RowOf, Row
        <3>2. QED
            BY <1>1, <3>1
            DEF ChangeStep, LoadUser, FindExisting, SelectAgain, UpdateColumns,
                UpdateConflicts, CommitChange, Hold, ExistingHash, Typed, credentialVars
    <2>4. CredentialsTypeOK'
        BY <1>1, <2>3
        DEF ChangeStep, LoadUser, FindExisting, SelectAgain, UpdateColumns, UpdateConflicts,
            CommitChange, Differing, TypeOK, CredentialsTypeOK, credentialVars, resetVars,
            factorVars, Typed
    <2>5. QED
        BY <2>1, <2>2, <2>4, ChangeTable DEF TypeOK
<1>7. identities' = identities
    BY DEF registrationVars, personVars
<1>8. QED
    BY <1>1, <1>3, <1>5, <1>6, <1>7, ChangeTable, BaseGoesOn

(***************************************************************************)
(* POST /auth/forgot-password and POST /auth/reset-password                *)
(***************************************************************************)

LEMMA ResetRow ==
    ASSUME Base, NEW r \in Reset, pc[r] = "update"
    PROVE  [RowOf(r) EXCEPT !.password = r] \in Row
<1>1. r \in Request /\ Typed /\ FoundOK(r)
    BY TypedHolds, CredentialsAssumption DEF Base, RequestOK
<1>2. RowOf(r) \in Row
    BY <1>1, OneRoute DEF FoundOK, Typed, RowOf
<1>3. r \in Credential \ {None}
    BY <1>1, TableAssumption DEF Credential
<1>4. QED
    BY <1>2, <1>3 DEF Row

LEMMA PasswordTable ==
    ASSUME Base, NEW q \in Forgot \cup Reset, PasswordStep(q)
    PROVE  /\ RowsGrow(q) /\ TableTypeOK'
           /\ \A p \in Request \ {q} : work'[p] = work[p]
           /\ WorkOK(q)'
<1>1. q \in Request /\ Typed /\ FoundOK(q) /\ WorkOK(q)
    BY TypedHolds, CredentialsAssumption DEF Base, RequestOK
<1>2. q \notin Register \cup Verify \cup Callback \cup Change
    BY OneRoute
<1>3. CASE q \in Forgot
    <2>1. UNCHANGED tableVars
        BY <1>3, OneRoute DEF PasswordStep, ForgotFinds, SaveResetToken, SendReset
    <2>2. QED
        BY <1>1, <1>2, <1>3, <2>1, OneRoute, TableStays DEF WorkOK
<1>4. CASE q \in Reset
    <2>1. CASE ResetFinds(q)
        <3>1. pc[q] = "new" /\ pc'[q] = "update" /\ UNCHANGED tableVars
            BY <1>1, <2>1 DEF ResetFinds, Goto, Typed
        <3>2. QED
            BY <1>1, <1>2, <3>1, TableStays DEF WorkOK
    <2>2. CASE UpdatePassword(q)
        <3>1. /\ pc[q] = "update" /\ pc'[q] = "commit" /\ target' = target
              /\ Write(q, target[q], [RowOf(q) EXCEPT !.password = q])
            BY <1>1, <2>2 DEF UpdatePassword, Goto, Typed
        <3>2. [RowOf(q) EXCEPT !.password = q] \in Row
            BY <1>4, <3>1, ResetRow
        <3>3. QED
            BY <1>1, <1>2, <1>4, <3>1, <3>2, RowIsWritten, RowsStay DEF WorkOK, RowOf
    <2>3. CASE CommitReset(q)
        <3>1. pc'[q] = "done" /\ pc[q] = "commit" /\ Commit(q)
            BY <1>1, <2>3 DEF CommitReset, Goto, Typed
        <3>2. QED
            BY <1>1, <1>2, <1>4, <3>1, RowIsCommitted DEF WorkOK
    <2>4. QED
        BY <1>4, <2>1, <2>2, <2>3, OneRoute DEF PasswordStep
<1>5. QED
    BY <1>3, <1>4

LEMMA PasswordKeepsBase ==
    ASSUME Base, NEW q \in Forgot \cup Reset, PasswordStep(q), UNCHANGED registrationVars,
           [Next]_vars
    PROVE  Base' /\ Kept(q) /\ RowsGrow(q)
<1>1. q \in Request /\ Typed /\ TypeOK /\ FoundOK(q)
    BY TypedHolds, CredentialsAssumption DEF Base, RequestOK
<1>2. q \notin Register \cup Verify \cup Callback \cup Change
    BY OneRoute
<1>3. Kept(q)
    BY <1>1, <1>2, PasswordTable
    DEF Kept, PasswordStep, ForgotFinds, SaveResetToken, SendReset, ResetFinds,
        UpdatePassword, CommitReset, Goto, Find, Hold, Typed, registrationVars,
        credentialVars
<1>4. \A f \in Forgot : pc[f] = "sent" =>
          f \in Credential /\ target[f] \in User /\ rows[target[f]] # None
    BY <1>1, CredentialsAssumption, OneRoute DEF Base, RequestOK, FoundOK, Typed, Credential
<1>5. FoundOK(q)'
    <2>1. CASE ForgotFinds(q) \/ ResetFinds(q)
        BY <1>1, <1>4, <2>1
        DEF ForgotFinds, ResetFinds, Present, Find, FoundOK, Goto, Typed, tableVars
    <2>2. CASE ~(ForgotFinds(q) \/ ResetFinds(q))
        <3>1. pc'[q] = "done" \/ (pc[q] \notin {"absent", "new", "done"} /\ target' = target)
            BY <1>1, <2>2
            DEF PasswordStep, SaveResetToken, SendReset, UpdatePassword, CommitReset,
                Goto, Typed
        <3>2. QED
            BY <1>1, <1>2, <3>1, PasswordTable DEF FoundOK, RowsGrow, Typed
    <2>3. QED
        BY <2>1, <2>2
<1>6. RequestOK(q)'
    BY <1>2, <1>5, PasswordTable DEF RequestOK, RegisterOK, CallbackOK
<1>7. TypeOK'
    <2>1. /\ pc' \in [Request -> Pc] /\ target' \in [Request -> User]
          /\ address' \in [Request -> Address] /\ faults' \in 0..MaxFaults
        BY <1>1, <1>4, TableAssumption
        DEF PasswordStep, ForgotFinds, SaveResetToken, SendReset, ResetFinds, UpdatePassword,
            CommitReset, Present, Find, Goto, Pc, TypeOK, Typed
    <2>2. RegistrationTypeOK'
        BY <1>1 DEF TypeOK, RegistrationTypeOK, registrationVars
    <2>3. held' \in [Request -> Credential]
        BY <1>1, <1>4
        DEF PasswordStep, ForgotFinds, SaveResetToken, SendReset, ResetFinds, UpdatePassword,
            CommitReset, Hold, Typed, credentialVars
    <2>4. CredentialsTypeOK'
        BY <1>1, <2>3
        DEF PasswordStep, ForgotFinds, SaveResetToken, SendReset, ResetFinds, UpdatePassword,
            CommitReset, TypeOK, CredentialsTypeOK, credentialVars, resetVars,
            factorVars, Typed
    <2>5. QED
        BY <2>1, <2>2, <2>4, PasswordTable DEF TypeOK
<1>8. identities' = identities
    BY DEF registrationVars, personVars
<1>9. QED
    BY <1>1, <1>3, <1>6, <1>7, <1>8, PasswordTable, BaseGoesOn

(***************************************************************************)
(* The second factor and the logins                                        *)
(***************************************************************************)

LEMMA FactorTable ==
    ASSUME Base, NEW q \in Setup \cup Enable \cup Login \cup Challenge, FactorStep(q)
    PROVE  /\ RowsGrow(q) /\ TableTypeOK' /\ work' = work
           /\ WorkOK(q)' /\ FoundOK(q)'
<1>1. q \in Request /\ Typed /\ FoundOK(q) /\ WorkOK(q)
    BY TypedHolds, CredentialsAssumption DEF Base, RequestOK
<1>2. q \notin Register \cup Verify \cup Callback \cup Change \cup Reset
    BY OneRoute
<1>3. CASE SetPendingSecret(q)
    <2>1. PICK u \in User : /\ rows[u] # None /\ target' = [target EXCEPT ![q] = u]
                            /\ WriteNow(q, u, [rows[u] EXCEPT !.pending = q])
        BY <1>3 DEF SetPendingSecret, Present, Find
    <2>2. [rows[u] EXCEPT !.pending = q] \in Row
        <3>1. rows[u] \in Row /\ q \in Credential
            BY <1>1, <2>1 DEF Typed, Credential
        <3>2. QED
            BY <3>1 DEF Row
    <2>3. RowsGrow(q)
        BY <1>1, <2>1, <2>2, RowsAreWritten
    <2>4. TableTypeOK' /\ work' = work
        BY <1>1, <2>1, <2>2 DEF WriteNow, TableTypeOK, Typed
    <2>5. rows'[target'[q]] # None
        BY <1>1, <2>1, <2>3 DEF Typed, RowsGrow
    <2>6. QED
        BY <1>1, <1>2, <2>3, <2>4, <2>5 DEF WorkOK, FoundOK
<1>4. CASE EnableMfa(q)
    <2>1. /\ pc[q] = "enable" /\ target' = target
          /\ WriteNow(q, target[q], [RowOf(q) EXCEPT !.secret = held[q], !.pending = None])
        BY <1>4 DEF EnableMfa, SecretToEnable
    <2>2. rows[target[q]] # None /\ target[q] \in User
        BY <1>1, <1>2, <2>1 DEF FoundOK, Typed
    <2>3. [RowOf(q) EXCEPT !.secret = held[q], !.pending = None] \in Row
        <3>1. rows[target[q]] \in Row /\ held[q] \in Credential /\ None \in Credential
            BY <1>1, <2>2 DEF Typed, Credential
        <3>2. QED
            BY <3>1 DEF RowOf, Row
    <2>4. RowsGrow(q)
        BY <1>1, <2>1, <2>2, <2>3, RowsAreWritten
    <2>5. TableTypeOK' /\ work' = work
        BY <1>1, <2>1, <2>2, <2>3 DEF WriteNow, TableTypeOK, Typed
    <2>6. rows'[target'[q]] # None
        BY <2>1, <2>2, <2>4 DEF RowsGrow
    <2>7. QED
        BY <1>1, <1>2, <2>4, <2>5, <2>6 DEF WorkOK, FoundOK
<1>5. CASE CheckPending(q) \/ CheckPassword(q) \/ CheckCode(q)
    <2>1. \A l \in Login : pc[l] = "challenged" =>
              target[l] \in User /\ rows[target[l]] # None
        BY <1>1, CredentialsAssumption, OneRoute DEF Base, RequestOK, FoundOK, Typed
    <2>2. rows[target'[q]] # None
        BY <1>1, <1>5, <2>1 DEF CheckPending, CheckPassword, CheckCode, Present, Find, Typed
    <2>3. UNCHANGED tableVars
        BY <1>5 DEF CheckPending, CheckPassword, CheckCode
    <2>4. QED
        BY <1>1, <1>2, <2>2, <2>3, TableStays DEF WorkOK, FoundOK
<1>6. CASE IssueTokens(q)
    <2>1. UNCHANGED tableVars /\ pc'[q] = "done"
        BY <1>1, <1>6 DEF IssueTokens, Goto, Typed
    <2>2. QED
        BY <1>1, <1>2, <2>1, TableStays DEF WorkOK, FoundOK
<1>7. QED
    BY <1>3, <1>4, <1>5, <1>6 DEF FactorStep

LEMMA FactorKeepsBase ==
    ASSUME Base, NEW q \in Setup \cup Enable \cup Login \cup Challenge, FactorStep(q),
           UNCHANGED registrationVars, [Next]_vars
    PROVE  Base' /\ Kept(q) /\ RowsGrow(q)
<1>1. q \in Request /\ Typed /\ TypeOK
    BY TypedHolds, CredentialsAssumption DEF Base
<1>2. q \notin Register \cup Verify \cup Callback \cup Change \cup Reset
    BY OneRoute
<1>3. Kept(q)
    BY <1>1, FactorTable
    DEF Kept, FactorStep, SetPendingSecret, CheckPending, EnableMfa, CheckPassword, CheckCode,
        IssueTokens, Goto, Find, Hold, Typed, registrationVars, credentialVars
<1>4. RequestOK(q)'
    BY <1>2, FactorTable DEF RequestOK, RegisterOK, CallbackOK
<1>5. \A u \in Present : rows[u] \in Row /\ u \in User
    BY <1>1 DEF Present, Typed
<1>6. \A l \in Login : pc[l] = "challenged" =>
          target[l] \in User /\ rows[target[l]] \in Row
    BY <1>1, CredentialsAssumption, OneRoute DEF Base, RequestOK, FoundOK, Typed
<1>7. TypeOK'
    <2>1. pc' \in [Request -> Pc] /\ target' \in [Request -> User]
        <3>1. PICK x \in Pc : Goto(q, x)
            BY DEF FactorStep, SetPendingSecret, CheckPending, EnableMfa, CheckPassword,
                   CheckCode, IssueTokens, Pc
        <3>2. target' = target \/ \E u \in User : Find(q, u)
            BY <1>5, <1>6
            DEF FactorStep, SetPendingSecret, CheckPending, EnableMfa, CheckPassword,
                CheckCode, IssueTokens
        <3>3. QED
            BY <1>1, <3>1, <3>2 DEF Goto, Find, Typed
    <2>1a. UNCHANGED <<address, faults>>
        BY DEF FactorStep, SetPendingSecret, CheckPending, EnableMfa, CheckPassword, CheckCode,
               IssueTokens
    <2>2. RegistrationTypeOK'
        BY <1>1 DEF TypeOK, RegistrationTypeOK, registrationVars
    <2>3. held' \in [Request -> Credential]
        BY <1>1, <1>5, <1>6
        DEF FactorStep, SetPendingSecret, CheckPending, EnableMfa, CheckPassword, CheckCode,
            IssueTokens, Hold, Typed, Row, credentialVars
    <2>4. sessions' \subseteq Session /\ proven' \subseteq Setup
        <3>1. [user |-> target[q], asked |-> held[q],
               code |-> IF q \in Challenge THEN held[q] ELSE None] \in Session
            BY <1>1 DEF Session, Typed, Credential
        <3>2. QED
            BY <1>1, <3>1
            DEF FactorStep, SetPendingSecret, CheckPending, EnableMfa, CheckPassword,
                CheckCode, CodeOf, IssueTokens, TypeOK, CredentialsTypeOK, credentialVars,
                factorVars
    <2>5. UNCHANGED <<columns, resetVars>>
        BY DEF FactorStep, SetPendingSecret, CheckPending, EnableMfa, CheckPassword,
               CheckCode, IssueTokens, credentialVars, resetVars
    <2>6. CredentialsTypeOK'
        BY <1>1, <2>3, <2>4, <2>5 DEF TypeOK, CredentialsTypeOK, resetVars
    <2>7. QED
        BY <1>1, <2>1, <2>1a, <2>2, <2>6, FactorTable DEF TypeOK
<1>8. identities' = identities
    BY DEF registrationVars, personVars
<1>9. QED
    BY <1>1, <1>3, <1>4, <1>7, <1>8, FactorTable, BaseGoesOn

(***************************************************************************)
(* Requests that are refused or fail, and the crash                        *)
(***************************************************************************)

Credentialed ==
    Change \cup Forgot \cup Reset \cup Setup \cup Enable \cup Login \cup Challenge

LEMMA RefusedOrThrowsKeepsBase ==
    ASSUME Base, NEW q \in Credentialed, Refused(q) \/ Throws(q),
           UNCHANGED registrationVars, [Next]_vars
    PROVE  Base' /\ Kept(q) /\ RowsGrow(q)
<1>1. q \in Request /\ Typed /\ TypeOK /\ WorkOK(q)
    BY TypedHolds, CredentialsAssumption DEF Base, RequestOK, Credentialed
<1>2. q \notin Register \cup Verify \cup Callback
    BY OneRoute DEF Credentialed
<1>3. /\ pc'[q] = "done" /\ pc' \in [Request -> Pc]
      /\ \A p \in Request \ {q} : pc'[p] = pc[p]
    BY <1>1 DEF Refused, Throws, Goto, Typed, Pc
<1>4. /\ RowsGrow(q) /\ TableTypeOK' /\ rows' = rows
      /\ \A p \in Request \ {q} : work'[p] = work[p]
      /\ work'[q] = None
    <2>1. CASE Refused(q)
        <3>1. work[q] = None
            BY <1>1, <1>2, <2>1 DEF WorkOK, Refused, Credentialed
        <3>2. QED
            BY <1>1, <2>1, <3>1, TableStays DEF Refused
    <2>2. CASE Throws(q)
        BY <1>1, <2>2, RowIsLeft DEF Throws
    <2>3. QED
        BY <2>1, <2>2
<1>5. UNCHANGED <<target, address, credentialVars, registrationVars>>
    BY DEF Refused, Throws
<1>6. Kept(q)
    BY <1>3, <1>4, <1>5 DEF Kept, credentialVars, registrationVars
<1>7. RequestOK(q)'
    BY <1>2, <1>3, <1>4 DEF RequestOK, FoundOK, RegisterOK, CallbackOK, WorkOK
<1>8. TypeOK'
    <2>1. faults' \in 0..MaxFaults
        BY <1>1, TableAssumption DEF Refused, Throws, Fault, TypeOK
    <2>2. RegistrationTypeOK' /\ CredentialsTypeOK'
        BY <1>1, <1>5
        DEF TypeOK, RegistrationTypeOK, CredentialsTypeOK, registrationVars, credentialVars
    <2>3. QED
        BY <1>1, <1>3, <1>4, <1>5, <2>1, <2>2 DEF TypeOK
<1>9. QED
    BY <1>1, <1>4, <1>5, <1>6, <1>7, <1>8, BaseGoesOn DEF registrationVars

\* A crash leaves what is committed, and no work.
LEMMA CrashKeepsBase ==
    ASSUME Base, Crash, [Next]_vars
    PROVE  Base'
<1>1. Typed /\ TypeOK /\ IInv'
    BY TypedHolds, StepKeeps DEF Base
<1>2. /\ UNCHANGED <<rows, target, address, refresh, outbox, verifyToken, mailed, personVars,
                     credentialVars>>
      /\ \A p \in Request :
            /\ work'[p] = None
            /\ pc'[p] = IF pc[p] \in {"absent", "new", "sent", "challenged"}
                        THEN pc[p] ELSE "done"
      /\ \A p \in Register :
            /\ unsaved'[p] = {}
            /\ job'[p] = IF job[p] \in {"token", "send"} THEN "failed" ELSE job[p]
    BY DEF Crash
<1>3. TypeOK'
    <2>1. work' \in [Request -> Work \cup {None}] /\ pc' \in [Request -> Pc]
        BY <1>1 DEF Crash, Typed, Pc
    <2>2. faults' \in 0..MaxFaults
        BY <1>1, TableAssumption DEF Crash, Fault, TypeOK
    <2>3. /\ unsaved' \in [Register -> SUBSET {"refresh", "outbox"}] /\ staged' = {}
          /\ job' \in [Register -> {"none", "token", "send", "sent", "failed"}]
        BY <1>1 DEF Crash, Typed
    <2>4. QED
        BY <1>1, <1>2, <2>1, <2>2, <2>3
        DEF TypeOK, TableTypeOK, RegistrationTypeOK, CredentialsTypeOK, credentialVars,
            personVars
<1>4. Existing'
    BY <1>2 DEF Base, Existing, Present, personVars
<1>5. ASSUME NEW p \in Request PROVE RequestOK(p)'
    <2>1. RequestOK(p)
        BY DEF Base
    <2>2. FoundOK(p)' /\ CallbackOK(p)'
        BY <1>2, <2>1 DEF RequestOK, FoundOK, CallbackOK
    <2>3. WorkOK(p)'
        BY <1>2, <2>1 DEF RequestOK, WorkOK
    <2>4. RegisterOK(p)'
        BY <1>2, <2>1 DEF RequestOK, RegisterOK, Open
    <2>5. QED
        BY <2>2, <2>3, <2>4 DEF RequestOK
<1>6. QED
    BY <1>1, <1>3, <1>4, <1>5 DEF Base

(***************************************************************************)
(* The theorems                                                            *)
(***************************************************************************)

LEMMA InitBase == Init => Base
<1> SUFFICES ASSUME Init PROVE Base
    OBVIOUS
<1>1. IInv
    BY InitHolds
<1>2. NewRow(SeededAddress, Seeded) \in Row
    BY TableAssumption DEF NewRow, Row, Credential
<1>3. [NewRow(SeededAddress, Seeded) EXCEPT !.verified = TRUE] \in Row
    BY <1>2 DEF Row
<1>4. rows = [u \in User |->
                IF u = Seeded
                THEN [NewRow(SeededAddress, Seeded) EXCEPT !.verified = TRUE]
                ELSE None]
    BY DEF Init, TableInit
<1>5. /\ rows \in [User -> Row \cup {None}]
      /\ rows[Seeded] # None
      /\ \A u \in User : rows[u] # None => u = Seeded
    BY <1>3, <1>4, TableAssumption, NoneAssumption
<1>6. /\ \A q \in Request : pc[q] \in {"absent", "new"} /\ work[q] = None
      /\ pc \in [Request -> Pc]
      /\ work \in [Request -> Work \cup {None}]
    BY DEF Init, TableInit, Pc
<1>7. TypeOK
    <2>1. RegistrationTypeOK
        BY DEF Init, RegistrationInit, RegistrationTypeOK
    <2>2. CredentialsTypeOK
        BY DEF Init, CredentialsInit, CredentialsTypeOK, Credential
    <2>3. QED
        BY <1>5, <1>6, <2>1, <2>2, TableAssumption DEF Init, TypeOK, TableTypeOK
<1>8. Existing
    BY <1>5 DEF Existing, Init, RegistrationInit
<1>9. ASSUME NEW q \in Request PROVE RequestOK(q)
    <2>1. FoundOK(q) /\ CallbackOK(q)
        BY <1>5, <1>6, RegistrationAssumption DEF FoundOK, CallbackOK
    <2>2. WorkOK(q)
        BY <1>6 DEF WorkOK
    <2>3. RegisterOK(q)
        <3> SUFFICES ASSUME q \in Register PROVE RegisterOK(q)
            BY DEF RegisterOK
        <3>1. rows[q] = None
            BY <1>5, RegistrationAssumption
        <3>2. /\ unsaved[q] = {} /\ q \notin refresh /\ q \notin outbox
              /\ job[q] = "none" /\ q \notin mailed
            BY DEF Init, RegistrationInit
        <3>3. QED
            BY <1>6, <3>1, <3>2 DEF RegisterOK, Open
    <2>4. QED
        BY <2>1, <2>2, <2>3 DEF RequestOK
<1>10. QED
    BY <1>1, <1>7, <1>8, <1>9 DEF Base

LEMMA StutterKeepsBase ==
    ASSUME Base, UNCHANGED vars
    PROVE  Base'
<1>1. IInv'
    BY StepKeeps DEF Base
<1>2. TypeOK' /\ Existing'
    BY DEF Base, TypeOK, TableTypeOK, RegistrationTypeOK, CredentialsTypeOK, Existing, Present,
           vars, tableVars, requestVars, registrationVars, credentialVars
<1>3. UNCHANGED <<rows, work, pc, target, address, unsaved, refresh, outbox, job, mailed,
                  identities, account, held, columns>>
    BY DEF vars, tableVars, requestVars, registrationVars, credentialVars
<1>4. ASSUME NEW q \in Request PROVE RequestOK(q)'
    <2>1. RequestOK(q)
        BY DEF Base
    <2>2. FoundOK(q)'
        BY <1>3, <2>1 DEF RequestOK, FoundOK
    <2>3. RegisterOK(q)'
        BY <1>3, <2>1 DEF RequestOK, RegisterOK
    <2>4. CallbackOK(q)'
        BY <1>3, <2>1 DEF RequestOK, CallbackOK
    <2>5. RowOf(q)' = RowOf(q) /\ Changed(q)' = Changed(q)
        BY <1>3 DEF RowOf, Changed
    <2>6. WorkOK(q)'
        BY <1>3, <2>1, <2>5 DEF RequestOK, WorkOK
    <2>7. QED
        BY <2>2, <2>3, <2>4, <2>6 DEF RequestOK
<1>5. QED
    BY <1>1, <1>2, <1>4 DEF Base

LEMMA StepKeepsBase == Base /\ [Next]_vars => Base'
<1> SUFFICES ASSUME Base, [Next]_vars PROVE Base'
    OBVIOUS
<1>1. CASE RegistrationNext /\ UNCHANGED credentialVars
    BY <1>1, RegisterKeepsBase, VerifyKeepsBase, CallbackKeepsBase DEF RegistrationNext
<1>2. CASE CredentialsNext /\ UNCHANGED registrationVars
    BY <1>2, ChangeKeepsBase, PasswordKeepsBase, FactorKeepsBase, RefusedOrThrowsKeepsBase
    DEF CredentialsNext, Credentialed
<1>3. CASE Crash
    BY <1>3, CrashKeepsBase
<1>4. CASE UNCHANGED vars
    BY <1>4, StutterKeepsBase
<1>5. QED
    BY <1>1, <1>2, <1>3, <1>4 DEF Next

\* Every variable has its type: a row is never without a password, and nothing
\* is written to a row that is not there.
THEOREM AccountsTypeOK == Spec => []TypeOK
<1>1. Base => TypeOK
    BY DEF Base
<1>2. QED
    BY <1>1, InitBase, StepKeepsBase, PTL DEF Spec

\* A user, its refresh token and the row of its event come and go together,
\* through conflicts, failed statements, lost acknowledgements and crashes.
THEOREM AccountsRegisteredWhole == Spec => []RegisteredWhole
<1>1. Base => RegisteredWhole
    BY RegistrationAssumption DEF Base, RequestOK, RegisterOK, RegisteredWhole
<1>2. QED
    BY <1>1, InitBase, StepKeepsBase, PTL DEF Spec

=============================================================================
