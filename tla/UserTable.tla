------------------------------ MODULE UserTable ------------------------------
(***************************************************************************)
(* The table users and the transactions that write to it: what             *)
(* TypeOrmUserRepository and TypeOrmTransactionManager ask of PostgreSQL.  *)
(* Registration and Credentials extend this module with the requests that  *)
(* use it.                                                                 *)
(*                                                                         *)
(* READ COMMITTED: a statement sees what is committed; a write holds its   *)
(* row to the end of the transaction; a unique index makes a write of an   *)
(* address wait for any other open transaction that has to do with it.     *)
(***************************************************************************)
EXTENDS Naturals, FiniteSets

CONSTANTS
    Request,     \* the HTTP requests
    User,        \* the ids a row may have
    Address,     \* the e-mail addresses
    Seeded,      \* a user who registered and verified earlier
    SeededAddress,
    None,        \* no row, no secret, no work, no token
    MaxFaults    \* bound: statements, commits and processes that fail

ASSUME TableAssumption ==
    /\ Seeded \in User /\ SeededAddress \in Address
    /\ None \notin User \cup Address \cup Request
    /\ MaxFaults \in Nat

VARIABLES
    rows,      \* rows[u]: the row of user u as last committed, or None
    work,      \* work[q]: the row that request q has written and not committed
    pc,        \* pc[q]: the statement request q is at
    target,    \* target[q]: the user that q has found or is about to create
    address,   \* address[q]: the e-mail address in the body or the claims of q
    faults

tableVars == <<rows, work>>
requestVars == <<pc, target, address>>

\* A password hash or a TOTP secret is named after the request that made it;
\* Seeded stands for the password the seeded user has from the start.
Credential == Request \cup {None, Seeded}

\* mfa_enabled and totp_secret_encrypted are written together, so secret #
\* None is both.
Row == [email : Address, verified : BOOLEAN, password : Credential \ {None},
        pending : Credential, secret : Credential]
Work == [user : User, row : Row]

ASSUME NoneAssumption == None \notin Row \cup Work

NewRow(a, p) == [email |-> a, verified |-> FALSE, password |-> p,
                 pending |-> None, secret |-> None]

TableTypeOK ==
    /\ rows \in [User -> Row \cup {None}]
    /\ work \in [Request -> Work \cup {None}]

TableInit ==
    /\ rows = [u \in User |->
                 IF u = Seeded
                 THEN [NewRow(SeededAddress, Seeded) EXCEPT !.verified = TRUE]
                 ELSE None]
    /\ work = [q \in Request |-> None]

Goto(q, p) == pc' = [pc EXCEPT ![q] = p]
Fault == faults < MaxFaults /\ faults' = faults + 1

\* existsByEmail, findByEmail.
Known(a) == \E u \in User : rows[u] # None /\ rows[u].email = a
UserOf(a) == CHOOSE u \in User : rows[u] # None /\ rows[u].email = a

\* No other transaction holds the row of u.
RowFree(q, u) ==
    \A p \in Request \ {q} : work[p] # None => work[p].user # u

\* No other transaction is about to take the address a, or to leave it.
AddressFree(q, a) ==
    \A p \in Request \ {q} : work[p] # None =>
        /\ work[p].row.email # a
        /\ rows[work[p].user] # None => rows[work[p].user].email # a

\* Wrong on purpose: the column email without its unique constraint.
NoConstraint(u, a) == u \in User

Unique(u, a) ==
    \A w \in User \ {u} : rows[w] # None => rows[w].email # a

Writable(q, u, r) == RowFree(q, u) /\ AddressFree(q, r.email) /\ Unique(u, r.email)

\* The statement violates the unique constraint and throws.
Conflicts(q, u, a) == RowFree(q, u) /\ AddressFree(q, a) /\ ~Unique(u, a)

\* A statement in the transaction of q.
Write(q, u, r) ==
    /\ Writable(q, u, r)
    /\ work' = [work EXCEPT ![q] = [user |-> u, row |-> r]]
    /\ UNCHANGED rows

\* The same statement without a transaction.
WriteNow(q, u, r) ==
    /\ Writable(q, u, r)
    /\ rows' = [rows EXCEPT ![u] = r]
    /\ UNCHANGED work

Commit(q) ==
    /\ rows' = IF work[q] = None THEN rows
               ELSE [rows EXCEPT ![work[q].user] = work[q].row]
    /\ work' = [work EXCEPT ![q] = None]

Rollback(q) ==
    /\ work' = [work EXCEPT ![q] = None]
    /\ UNCHANGED rows

\* Two users never have one address.  The checks with existsByEmail and
\* findByEmail (register-user.use-case.ts:59, oidc-auth.service.ts:100,
\* update-user.use-case.ts:85) are statements of their own, before the write,
\* so that what registers, signs in or changes its address at the same time
\* passes them together.
OneUserPerAddress ==
    \A u, w \in User :
        u # w /\ rows[u] # None /\ rows[w] # None => rows[u].email # rows[w].email

=============================================================================
