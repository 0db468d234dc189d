----------------------------- MODULE Registration -----------------------------
(***************************************************************************)
(* How a user comes to be: POST /auth/register, a command whose result     *)
(* carries a UserCreatedEvent; the outbox row in its transaction, the      *)
(* in-process dispatch after it and the verification e-mail that hangs on  *)
(* it; POST /auth/verify-email; and the callback of an external login,     *)
(* which finds, creates and links a user without a transaction.            *)
(*                                                                         *)
(* The user a request creates has the name of the request.                 *)
(***************************************************************************)
EXTENDS UserTable

CONSTANTS
    Register,        \* requests POST /auth/register
    Verify,          \* requests POST /auth/verify-email
    Callback,        \* OIDC callbacks of one person at one provider
    PersonAddress    \* the address in that person's claims

ASSUME RegistrationAssumption ==
    /\ Register \cup Verify \cup Callback \subseteq Request
    /\ Register \cup Callback \subseteq User
    /\ Register \cap Verify = {} /\ Register \cap Callback = {}
    /\ Verify \cap Callback = {}
    /\ Seeded \notin Register \cup Callback
    /\ PersonAddress \in Address

VARIABLES
    unsaved,       \* unsaved[q]: rows of other tables in the transaction of q
    refresh,       \* requests whose refresh token is in refresh_tokens
    outbox,        \* registrations whose event is in outbox_messages
    staged,        \* registrations whose event is staged in the request's context
    job,           \* job[q]: where SendVerificationEmailOnUserCreatedHandler is
    verifyToken,   \* verifyToken[q]: the EMAIL_VERIFY token of user q
    mailed,        \* history: registrations whose token was mailed
    identities,    \* users the person's subject is linked to
    account        \* history: account[c]: the user that callback c signed in

registrationVars == <<unsaved, refresh, outbox, staged, job, verifyToken, mailed,
                      identities, account>>
eventVars == <<staged, job, verifyToken, mailed>>
personVars == <<identities, account>>

RegistrationTypeOK ==
    /\ unsaved \in [Register -> SUBSET {"refresh", "outbox"}]
    /\ refresh \in SUBSET (Register \cup Callback)
    /\ outbox \in SUBSET Register
    /\ staged \in SUBSET Register
    /\ job \in [Register -> {"none", "token", "send", "sent", "failed"}]
    /\ verifyToken \in [Register -> {"none", "valid", "used"}]
    /\ mailed \in SUBSET Register
    /\ identities \in SUBSET User
    /\ account \in [Callback -> User \cup {None}]

RegistrationInit ==
    /\ unsaved = [q \in Register |-> {}]
    /\ refresh = {}
    /\ outbox = {}
    /\ staged = {}
    /\ job = [q \in Register |-> "none"]
    /\ verifyToken = [q \in Register |-> "none"]
    /\ mailed = {}
    /\ identities = {}
    /\ account = [c \in Callback |-> None]

(***************************************************************************)
(* RegisterUserUseCase inside CommandUseCase                               *)
(***************************************************************************)

\* existsByEmail, outside the transaction; EmailAlreadyExistsError ends it.
RegisterStarts(q) ==
    /\ pc[q] = "new"
    /\ \E a \in Address :
          /\ address' = [address EXCEPT ![q] = a]
          /\ Goto(q, IF Known(a) THEN "done" ELSE "insert")
    /\ UNCHANGED <<tableVars, target, registrationVars, faults>>

\* User.create and userRepository.save(user, trx, context).
InsertUser(q) ==
    /\ pc[q] = "insert"
    /\ Write(q, q, NewRow(address[q], q))
    /\ Goto(q, "refresh")
    /\ UNCHANGED <<target, address, registrationVars, faults>>

\* Another request took the address after existsByEmail looked.
InsertConflicts(q) ==
    /\ pc[q] = "insert"
    /\ Conflicts(q, q, address[q])
    /\ Rollback(q)
    /\ Goto(q, "done")
    /\ UNCHANGED <<target, address, registrationVars, faults>>

\* Wrong on purpose: refreshTokenRepository.save without the transaction.
RefreshOutside(q) ==
    /\ refresh' = refresh \cup {q}
    /\ UNCHANGED unsaved

RefreshInside(q) ==
    /\ unsaved' = [unsaved EXCEPT ![q] = @ \cup {"refresh"}]
    /\ UNCHANGED refresh

SaveRefreshToken(q) ==
    /\ pc[q] = "refresh"
    /\ RefreshInside(q)
    /\ Goto(q, "stage")
    /\ UNCHANGED <<tableVars, target, address, outbox, eventVars, personVars, faults>>

\* stageFrom(result) and persistStaged(trx).
Stage(q) ==
    /\ pc[q] = "stage"
    /\ staged' = staged \cup {q}
    /\ unsaved' = [unsaved EXCEPT ![q] = @ \cup {"outbox"}]
    /\ Goto(q, "commit")
    /\ UNCHANGED <<tableVars, target, address, refresh, outbox, job, verifyToken, mailed,
                   personVars, faults>>

\* Everything in the transaction of q becomes visible.
CommitAll(q) ==
    /\ Commit(q)
    /\ refresh' = IF "refresh" \in unsaved[q] THEN refresh \cup {q} ELSE refresh
    /\ outbox' = IF "outbox" \in unsaved[q] THEN outbox \cup {q} ELSE outbox
    /\ unsaved' = [unsaved EXCEPT ![q] = {}]

CommitRegistration(q) ==
    /\ pc[q] = "commit"
    /\ CommitAll(q)
    /\ Goto(q, "flush")
    /\ UNCHANGED <<target, address, eventVars, personVars, faults>>

\* A statement throws, or the commit does: rolled back, or, when only its
\* acknowledgement is lost, committed.  What is staged stays in the context
\* of the request and is never drained.
RegisterThrows(q) ==
    /\ pc[q] \in {"insert", "refresh", "stage", "commit"}
    /\ Fault
    /\ \/ /\ Rollback(q)
          /\ unsaved' = [unsaved EXCEPT ![q] = {}]
          /\ UNCHANGED <<refresh, outbox>>
       \/ pc[q] = "commit" /\ CommitAll(q)
    /\ Goto(q, "done")
    /\ UNCHANGED <<target, address, eventVars, personVars>>

\* Wrong on purpose: events are drained before they are asked for.
DispatchesNothing(q) == job

Dispatch(q) == IF q \in staged THEN [job EXCEPT ![q] = "token"] ELSE job

\* flushDomainEvents: drained, dispatched, not awaited.
Flush(q) ==
    /\ pc[q] = "flush"
    /\ job' = Dispatch(q)
    /\ staged' = staged \ {q}
    /\ Goto(q, "done")
    /\ UNCHANGED <<tableVars, target, address, unsaved, refresh, outbox, verifyToken,
                   mailed, personVars, faults>>

(***************************************************************************)
(* SendVerificationEmailOnUserCreatedHandler and VerifyEmailUseCase        *)
(***************************************************************************)

SaveVerifyToken(q) ==
    /\ job[q] = "token"
    /\ verifyToken' = [verifyToken EXCEPT ![q] = "valid"]
    /\ job' = [job EXCEPT ![q] = "send"]
    /\ UNCHANGED <<tableVars, requestVars, unsaved, refresh, outbox, staged, mailed,
                   personVars, faults>>

SendVerification(q) ==
    /\ job[q] = "send"
    /\ mailed' = mailed \cup {q}
    /\ job' = [job EXCEPT ![q] = "sent"]
    /\ UNCHANGED <<tableVars, requestVars, unsaved, refresh, outbox, staged, verifyToken,
                   personVars, faults>>

\* The dispatcher logs what a handler throws; nothing tries again.
HandlerFails(q) ==
    /\ job[q] \in {"token", "send"}
    /\ Fault
    /\ job' = [job EXCEPT ![q] = "failed"]
    /\ UNCHANGED <<tableVars, requestVars, unsaved, refresh, outbox, staged, verifyToken,
                   mailed, personVars>>

\* Wrong on purpose: the hash is not in the WHERE clause.
AnyToken == {q \in Register : rows[q] # None}

TokensFound == {q \in mailed : verifyToken[q] = "valid"}

\* findValidByHash: the request carries a token that was mailed.  It may have
\* expired, so that nothing obliges it to be found (VerifyRefused).
VerifyFinds(v) ==
    /\ pc[v] = "new"
    /\ \E q \in TokensFound : target' = [target EXCEPT ![v] = q]
    /\ Goto(v, "mark")
    /\ UNCHANGED <<tableVars, address, registrationVars, faults>>

VerifyRefused(v) ==
    /\ pc[v] = "new"
    /\ Goto(v, "done")
    /\ UNCHANGED <<tableVars, target, address, registrationVars, faults>>

MarkVerified(v) ==
    /\ pc[v] = "mark"
    /\ Write(v, target[v], [rows[target[v]] EXCEPT !.verified = TRUE])
    /\ Goto(v, "commit")
    /\ UNCHANGED <<target, address, registrationVars, faults>>

\* consume(record.id) and the commit.  consume has no condition: of two
\* requests that found the token valid, both come here.
CommitVerified(v) ==
    /\ pc[v] = "commit"
    /\ Commit(v)
    /\ verifyToken' = [q \in Register |->
          IF verifyToken[q] = "valid" /\ q = target[v] THEN "used" ELSE verifyToken[q]]
    /\ Goto(v, "done")
    /\ UNCHANGED <<target, address, unsaved, refresh, outbox, staged, job, mailed,
                   personVars, faults>>

VerifyThrows(v) ==
    /\ pc[v] \in {"mark", "commit"}
    /\ Fault
    /\ Rollback(v)
    /\ Goto(v, "done")
    /\ UNCHANGED <<target, address, registrationVars>>

(***************************************************************************)
(* OidcAuthService.handleCallback, every statement committed at once       *)
(***************************************************************************)

\* findUserIdByProviderSub: any of the rows, should there be several.
LookUpSubject(c) ==
    /\ pc[c] = "new"
    /\ address' = [address EXCEPT ![c] = PersonAddress]
    /\ \/ /\ identities = {}
          /\ Goto(c, "find")
          /\ UNCHANGED target
       \/ /\ \E u \in identities : target' = [target EXCEPT ![c] = u]
          /\ Goto(c, "issue")
    /\ UNCHANGED <<tableVars, registrationVars, faults>>

FindByAddress(c) ==
    /\ pc[c] = "find"
    /\ IF Known(address[c])
       THEN Goto(c, "link") /\ target' = [target EXCEPT ![c] = UserOf(address[c])]
       ELSE Goto(c, "create") /\ target' = [target EXCEPT ![c] = c]
    /\ UNCHANGED <<tableVars, address, registrationVars, faults>>

\* User.create and save without a transaction.  Nobody collects the event.
CreateUser(c) ==
    /\ pc[c] = "create"
    /\ WriteNow(c, c, NewRow(address[c], c))
    /\ Goto(c, "link")
    /\ UNCHANGED <<target, address, registrationVars, faults>>

CreateConflicts(c) ==
    /\ pc[c] = "create"
    /\ Conflicts(c, c, address[c])
    /\ Goto(c, "done")
    /\ UNCHANGED <<tableVars, target, address, registrationVars, faults>>

Link(c) ==
    /\ pc[c] = "link"
    /\ identities' = identities \cup {target[c]}
    /\ Goto(c, "issue")
    /\ UNCHANGED <<tableVars, target, address, unsaved, refresh, outbox, eventVars, account,
                   faults>>

\* The refresh token is saved and the tokens are answered.
SignIn(c) ==
    /\ pc[c] = "issue"
    /\ refresh' = refresh \cup {c}
    /\ account' = [account EXCEPT ![c] = target[c]]
    /\ Goto(c, "done")
    /\ UNCHANGED <<tableVars, target, address, unsaved, outbox, eventVars, identities, faults>>

CallbackThrows(c) ==
    /\ pc[c] \in {"create", "link", "issue"}
    /\ Fault
    /\ Goto(c, "done")
    /\ UNCHANGED <<tableVars, target, address, registrationVars>>

(***************************************************************************)
(* The next step of a request or of a handler                              *)
(***************************************************************************)
RegisterStep(q) ==
    \/ RegisterStarts(q) \/ InsertUser(q) \/ InsertConflicts(q)
    \/ SaveRefreshToken(q) \/ Stage(q) \/ CommitRegistration(q) \/ Flush(q)
    \/ RegisterThrows(q)
HandlerStep(q) == SaveVerifyToken(q) \/ SendVerification(q) \/ HandlerFails(q)
VerifyStep(v) ==
    \/ VerifyFinds(v) \/ VerifyRefused(v) \/ MarkVerified(v) \/ CommitVerified(v)
    \/ VerifyThrows(v)
CallbackStep(c) ==
    \/ LookUpSubject(c) \/ FindByAddress(c) \/ CreateUser(c) \/ CreateConflicts(c)
    \/ Link(c) \/ SignIn(c) \/ CallbackThrows(c)

RegistrationNext ==
    \/ \E q \in Register : RegisterStep(q) \/ HandlerStep(q)
    \/ \E v \in Verify : VerifyStep(v)
    \/ \E c \in Callback : CallbackStep(c)

=============================================================================
