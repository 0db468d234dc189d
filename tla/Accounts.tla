------------------------------- MODULE Accounts -------------------------------
(***************************************************************************)
(* The users table under everything that writes to it: Registration and    *)
(* Credentials on one table, in one process that may crash.                *)
(*                                                                         *)
(* A behaviour serves the requests of one workload.                        *)
(***************************************************************************)
EXTENDS Registration, Credentials

CONSTANT Workloads    \* the sets of requests a behaviour may have

ASSUME AccountsAssumption == Workloads \subseteq SUBSET Request

\* A request is for one route.
ASSUME RouteAssumption ==
    LET kind == <<Register, Verify, Callback, Change, Forgot, Reset, Setup, Enable, Login,
                  Challenge>>
    IN  \A i, j \in 1..10 : i # j => kind[i] \cap kind[j] = {}

vars == <<tableVars, requestVars, faults, registrationVars, credentialVars>>

Pc == {"absent", "new", "done", "insert", "refresh", "stage", "commit", "flush", "mark",
       "find", "create", "link", "issue", "select", "update", "token", "send", "sent",
       "enable", "challenged"}

TypeOK ==
    /\ TableTypeOK
    /\ pc \in [Request -> Pc]
    /\ target \in [Request -> User]
    /\ address \in [Request -> Address]
    /\ faults \in 0..MaxFaults
    /\ RegistrationTypeOK
    /\ CredentialsTypeOK

Init ==
    /\ TableInit
    /\ RegistrationInit
    /\ CredentialsInit
    /\ \E w \in Workloads : pc = [q \in Request |-> IF q \in w THEN "new" ELSE "absent"]
    /\ target = [q \in Request |-> Seeded]
    /\ address = [q \in Request |-> SeededAddress]
    /\ faults = 0

\* The process ends: the database rolls back what is open; requests, what
\* they have staged and the handlers they started are gone.
Crash ==
    /\ Fault
    /\ pc' = [q \in Request |->
                 IF pc[q] \in {"absent", "new", "sent", "challenged"} THEN pc[q] ELSE "done"]
    /\ work' = [q \in Request |-> None]
    /\ unsaved' = [q \in Register |-> {}]
    /\ staged' = {}
    /\ job' = [q \in Register |-> IF job[q] \in {"token", "send"} THEN "failed" ELSE job[q]]
    /\ UNCHANGED <<rows, target, address, refresh, outbox, verifyToken, mailed, personVars,
                   credentialVars>>

Next ==
    \/ RegistrationNext /\ UNCHANGED credentialVars
    \/ CredentialsNext /\ UNCHANGED registrationVars
    \/ Crash

Spec == Init /\ [][Next]_vars

\* Statements return, handlers run; no fault or crash has to happen.
Fairness ==
    \A q \in Register :
        /\ WF_vars(RegisterStep(q) /\ UNCHANGED credentialVars)
        /\ WF_vars(HandlerStep(q) /\ UNCHANGED credentialVars)

FairSpec == Spec /\ Fairness

(***************************************************************************)
(* Safety                                                                  *)
(***************************************************************************)

\* The user, its refresh token and the row of its event come and go together:
\* they are written with the trx of the command (register-user.use-case.ts:69,
\* outbox.service.ts:42), through conflicts, failures and crashes.
RegisteredWhole ==
    \A q \in Register :
        /\ rows[q] # None <=> q \in refresh
        /\ rows[q] # None <=> q \in outbox

\* A verified user was mailed a token at the address it registered with, and
\* has that address still unless an update changed it: PATCH does not reset
\* emailVerifiedAt.  No mail goes to who never became a user, though the event
\* is staged before the commit and the token is found, used and consumed by
\* separate statements (verify-email.use-case.ts:45-56).
VerifiedWasMailed ==
    /\ \A q \in mailed : rows[q] # None
    /\ \A u \in Present \ {Seeded} : rows[u].verified =>
          /\ u \in mailed
          /\ rows[u].email = address[u] \/ u \in readdressed

\* Callbacks of one person sign in to one account, whichever of them fails
\* between creating the user and linking it, or runs into the other
\* (oidc-auth.service.ts:94-119): what one has created the next finds by its
\* address.  An update of that address in between may part them.
OneAccountPerPerson ==
    \A c, d \in Callback :
        account[c] # None /\ account[d] # None /\ account[c] # account[d] =>
            {account[c], account[d]} \cap readdressed # {}

\* The password a reset has set stays until the next reset.  Only an update
\* that had read another hash when the reset committed, and had not selected
\* what differs or had found the hash to differ already, may write that one
\* back (typeorm-user.repository.ts:195-226).
ResetStands ==
    \A u \in User : lastReset[u] # None =>
        rows[u].password = lastReset[u] \/ straddled[u] # {}

\* The second factor that is enabled was proven with a code, and who logs in
\* while it is enabled gives one, of a secret that was proven too: the pending
\* secret is read, checked and enabled by separate statements
\* (mfa-verify.use-case.ts:31-51) between which another setup may replace it.
SecondFactorIsProven ==
    /\ \A u \in Present : rows[u].secret # None => rows[u].secret \in proven
    /\ \A x \in sessions : x.asked # None => x.code = x.asked /\ x.code \in proven

(***************************************************************************)
(* Liveness                                                                *)
(***************************************************************************)

\* Who has registered is sent a token, unless something failed: dispatch and
\* handler are not retried (command.use-case.ts:100), and a crash forgets them.
RegistrationIsMailed ==
    \A q \in Register : (rows[q] # None) ~> (q \in mailed \/ faults > 0)

=============================================================================
