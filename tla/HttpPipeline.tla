----------------------------- MODULE HttpPipeline -----------------------------
(***************************************************************************)
(* What app.module.ts and configure-app.ts put around every handler: the   *)
(* middlewares, the guards in their order, the interceptors around pipes   *)
(* and handler, and the exception filter.                                  *)
(*                                                                         *)
(* A step ends where the code awaits: JwtStrategy's and ApiKeyGuard's      *)
(* reads, the throttler's storage, the claim of an idempotency key, the    *)
(* handler, and the write of its outcome.  Between them roles change, keys *)
(* expire, users are deleted and the process is told to stop.  The claim   *)
(* is one step here; its own races are in Idempotency.                     *)
(***************************************************************************)
EXTENDS Naturals, HttpErrors, AccessControl, Configuration

CONSTANTS
    Request,       \* the HTTP requests
    User,          \* the ids of users
    None,          \* no user, no entry, no answer, nothing raised
    Environments,  \* the environments the process may be started in
    RoleChoices,   \* the sets of roles a user may have
    Workloads,     \* the calls a behaviour may have: functions on Request
    MaxFaults,     \* bound: statements that fail
    MaxChanges     \* bound: changes of roles, keys and of the process

Call == [route : Routes,
         token : {"none", "bad", "good"},         \* Authorization
         subject : User,                          \* who it was issued to
         target : User,                           \* :id in the path
         apiKey : {"none", "unknown", "narrow", "good"},   \* X-Api-Key
         listed : BOOLEAN,                        \* the address is on the allowlists
         keyed : BOOLEAN,                         \* Idempotency-Key, always the same
         body : {"first", "second"},
         problem : BOOLEAN,                       \* Accept: application/problem+json
         sendsId : BOOLEAN]                       \* X-Request-Id

ASSUME PipelineAssumption ==
    /\ Environments \subseteq Environment
    /\ RoleChoices \subseteq SUBSET Roles
    /\ Workloads \subseteq [Request -> Call \cup {None}]
    /\ MaxFaults \in Nat /\ MaxChanges \in Nat

VARIABLES
    settings,      \* ENVIRONMENT_VARIABLES
    call,          \* call[q]: what request q asks for, and how
    roles,         \* roles[u]: the roles of u in the database, None once deleted
    keyValid,      \* the API key is neither revoked nor expired
    shuttingDown,  \* ShutdownStateService
    pc,            \* pc[q]: what request q awaits
    user,          \* user[q]: request.user
    raised,        \* raised[q]: what the handler threw, or None
    cut,           \* requests that were answered 408 and unsubscribed
    entry,         \* entry[s]: the row of the key in scope s, or None
    answer,        \* answer[q]: what the client of q was told
    rights,        \* history: rights[q]: the roles its user has had since q came
    keyHeld,       \* history: requests that came while the API key was valid
    ran,           \* history: requests whose operation was performed
    produced,      \* history: produced[q]: the status and the code of its handler
    faults, changes

worldVars == <<settings, call, roles, keyValid, shuttingDown>>
historyVars == <<rights, keyHeld, ran, produced>>
vars == <<worldVars, pc, user, raised, cut, entry, answer, historyVars, faults, changes>>

Nobody == [id |-> None, roles |-> {}]

Awaiting == {"authenticate", "throttle", "api_key", "claim", "handle", "complete", "settle"}

Error == [kind : {"domain", "http", "plain"}, status : Nat,
          form : {"dto", "message", "text", "terminus"}, code : ErrorCodes]
Outcome == [status : Nat, code : ErrorCodes]
Told == [status : Nat, code : ErrorCodes,
         shape : {"envelope", "problem", "terminus", "raw", "redirect"},
         id : Request \cup {None}, header : Request \cup {None},
         replayed : {"none", "true", "false"}]
Entry == [state : {"in_progress", "completed"},
          hash : Routes \X User \X {"none", "first", "second"},
          origin : Request, error : Error \cup {None}]

ASSUME SentinelAssumption ==
    /\ None \notin Call \cup RoleChoices \cup User \cup Error \cup Told \cup Outcome \cup Entry
    /\ "anonymous" \notin User

TypeOK ==
    /\ call \in [Request -> Call \cup {None}]
    /\ roles \in [User -> RoleChoices \cup {None}]
    /\ keyValid \in BOOLEAN /\ shuttingDown \in BOOLEAN
    /\ pc \in [Request -> Awaiting \cup {"new", "over"}]
    /\ user \in [Request -> [id : User, roles : RoleChoices] \cup {Nobody}]
    /\ raised \in [Request -> Error \cup {None}]
    /\ cut \in SUBSET Request
    /\ entry \in [User \cup {"anonymous"} -> Entry \cup {None}]
    /\ answer \in [Request -> Told \cup {None}]
    /\ rights \in [Request -> SUBSET (RoleChoices \cup {None})]
    /\ keyHeld \in SUBSET Request
    /\ ran \in SUBSET Request
    /\ produced \in [Request -> Outcome \cup {None}]
    /\ faults \in 0..MaxFaults
    /\ changes \in 0..MaxChanges

Init ==
    /\ \E e \in Environments : Starts(e) /\ settings = Settings(e)
    /\ call \in Workloads
    /\ roles \in [User -> RoleChoices]
    /\ keyValid = TRUE
    /\ shuttingDown = FALSE
    /\ pc = [q \in Request |-> IF call[q] = None THEN "over" ELSE "new"]
    /\ user = [q \in Request |-> Nobody]
    /\ raised = [q \in Request |-> None]
    /\ cut = {}
    /\ entry = [s \in User \cup {"anonymous"} |-> None]
    /\ answer = [q \in Request |-> None]
    /\ rights = [q \in Request |-> {}]
    /\ keyHeld = {}
    /\ ran = {}
    /\ produced = [q \in Request |-> None]
    /\ faults = 0
    /\ changes = 0

Goto(q, p) == pc' = [pc EXCEPT ![q] = p]
Fault == faults < MaxFaults /\ faults' = faults + 1

\* The pipe goes on to p, unless it was unsubscribed meanwhile.
GoOn(q, p) == Goto(q, IF q \in cut THEN "over" ELSE p)

\* Paths that are neither enveloped nor timed: isExcludedResponsePath.
Excluded(route) == isHealthProbePath(route) \/ route = "metrics"

(***************************************************************************)
(* Answers                                                                 *)
(***************************************************************************)

\* "id" and "header" are the request whose id the body and X-Request-Id have.
AnswerOf(status, shape, code, id, header, replayed) ==
    [status |-> status, shape |-> shape, code |-> code, id |-> id, header |-> header,
     replayed |-> replayed]

\* HttpExceptionFilter.catch; a replay has set its header before it throws.
ErrorAnswer(q, e, id, replayed) ==
    LET shape == ErrorShape(e, isHealthProbePath(call[q].route), call[q].problem)
    IN  AnswerOf(e.status, shape, IF shape = "terminus" THEN "none" ELSE ResponseCode(e),
                 IF shape = "terminus" THEN None ELSE id, id, replayed)

\* @HttpCode, or what Nest answers a POST and any other method.
SuccessStatus(route) ==
    CASE route \in {"register", "mfa_setup", "mfa_verify", "upload", "create_api_key"} -> 201
      [] route = "oidc_redirect" -> 302
      [] OTHER -> 200

\* TransformResponseInterceptor; the redirect is sent by the handler itself.
SuccessShape(route) ==
    CASE Excluded(route) -> "raw"
      [] route = "oidc_redirect" -> "redirect"
      [] OTHER -> "envelope"

SuccessAnswer(q, origin, replayed) ==
    LET shape == SuccessShape(call[q].route)
    IN  AnswerOf(SuccessStatus(call[q].route), shape, "none",
                 IF shape = "envelope" THEN origin ELSE None, q, replayed)

\* The request is over; its client hears a unless it was told 408 already.
Answer(q, a) ==
    /\ Goto(q, "over")
    /\ answer' = IF q \in cut THEN answer ELSE [answer EXCEPT ![q] = a]

Throw(q, e) == Answer(q, ErrorAnswer(q, e, q, "none"))

(***************************************************************************)
(* Middlewares and routing                                                 *)
(***************************************************************************)
Exists(route) == route # "unknown" /\ (route = "metrics" => settings.metrics)

\* buildResponseMeta before RequestIdMiddleware: the header of the client.
EdgeId(q) == IF call[q].sendsId THEN q ELSE None

Reaches(c) ==
    /\ MetricsIpAllowed(c.route, settings.metricsIpFilter, c.listed)
    /\ IpAllowed(settings.ipFilter, c.listed)

\* MetricsIpAllowlist, IpAllowlist, ApiVersion, RequestId, RequestContext.
Receive(q) ==
    LET c == call[q] IN
    /\ pc[q] = "new"
    /\ \/ /\ ~Reaches(c)
          /\ Answer(q, ErrorAnswer(q, ForbiddenError, EdgeId(q), "none"))
       \/ Reaches(c) /\ ~Exists(c.route) /\ Throw(q, NestException(404))
       \/ Reaches(c) /\ Exists(c.route) /\ Goto(q, "authenticate") /\ UNCHANGED answer
    /\ rights' = [rights EXCEPT ![q] = {roles[c.subject]}]
    /\ keyHeld' = IF keyValid THEN keyHeld \cup {q} ELSE keyHeld
    /\ UNCHANGED <<worldVars, user, raised, cut, entry, ran, produced, faults, changes>>

(***************************************************************************)
(* Guards                                                                  *)
(***************************************************************************)

\* Wrong on purpose: the user is found without its relation to the roles.
WithoutRelations(q) == [id |-> call[q].subject, roles |-> {}]

\* findByIdWithRolesAndPermissions.
UserInDatabase(q) == [id |-> call[q].subject, roles |-> roles[call[q].subject]]

\* JwtAuthGuard and JwtStrategy.validate, then RolesGuard and
\* PermissionsGuard, which read nothing but the request.
Authenticate(q) ==
    LET route == call[q].route
        known == call[q].token = "good" /\ roles[call[q].subject] # None
        u == IF NeedsToken(route) THEN UserInDatabase(q) ELSE Nobody IN
    /\ pc[q] = "authenticate"
    /\ \/ /\ NeedsToken(route) /\ ~known
          /\ Throw(q, ToHttpException(UnauthorizedAccessError))
          /\ UNCHANGED user
       \/ /\ NeedsToken(route) => known
          /\ user' = [user EXCEPT ![q] = u]
          /\ IF RolesGuard(route, u) /\ PermissionsGuard(route, u)
             THEN Goto(q, "throttle") /\ UNCHANGED answer
             ELSE Throw(q, ToHttpException(ForbiddenAccessError))
    /\ UNCHANGED <<worldVars, raised, cut, entry, historyVars, faults, changes>>

\* ConditionalThrottlerGuard: the library's counter may have been reached.
Throttle(q) ==
    /\ pc[q] = "throttle"
    /\ \/ Goto(q, "api_key") /\ UNCHANGED answer
       \/ /\ settings.throttle /\ Throttled(call[q].route)
          /\ Throw(q, ThrottlerException)
    /\ UNCHANGED <<worldVars, user, raised, cut, entry, historyVars, faults, changes>>

\* TypeOrmApiKeyRepository.findValidByHash.
KeyFound(q) == keyValid /\ call[q].apiKey \in {"narrow", "good"}
ScopesOf(q) == IF call[q].apiKey = "good" THEN {"internal:read"} ELSE {"files:write"}

\* IdempotencyInterceptor takes part.
Idempotent(q) ==
    /\ settings.idempotency /\ call[q].keyed
    /\ MethodOf(call[q].route) \in {"POST", "PUT", "PATCH"}
    /\ ~Excluded(call[q].route)

\* ApiKeyGuard, then the interceptors up to the claim.
CheckApiKey(q) ==
    /\ pc[q] = "api_key"
    /\ IF ApiKeyGuard(call[q].route, settings.apiKeys, KeyFound(q), ScopesOf(q))
       THEN Goto(q, IF Idempotent(q) THEN "claim" ELSE "handle") /\ UNCHANGED answer
       ELSE Throw(q, NestException(401))
    /\ UNCHANGED <<worldVars, user, raised, cut, entry, historyVars, faults, changes>>

\* What the guards and the claim ask the database or Redis for.
Reads(q) ==
    LET c == call[q] IN
    CASE pc[q] = "authenticate" -> NeedsToken(c.route) /\ c.token = "good"
      [] pc[q] = "throttle" ->
            settings.throttle /\ settings.throttleStorage = "redis" /\ Throttled(c.route)
      [] pc[q] = "api_key" ->
            settings.apiKeys /\ RequiredScopes(c.route) # {} /\ c.apiKey # "none"
      [] OTHER -> pc[q] = "claim"

ReadFails(q) ==
    /\ Reads(q)
    /\ Fault
    /\ Throw(q, PlainError)
    /\ UNCHANGED <<worldVars, user, raised, cut, entry, historyVars, changes>>

(***************************************************************************)
(* IdempotencyInterceptor                                                  *)
(***************************************************************************)

\* resolveIdempotencyScope.
Scope(q) == IF user[q] = Nobody THEN "anonymous" ELSE user[q].id

\* buildRequestHash; the parts of an upload are parsed by FileInterceptor,
\* inside this interceptor, so that its body is not there yet.
Hash(q) == <<call[q].route, call[q].target,
             IF call[q].route = "upload" THEN "none" ELSE call[q].body>>

InProgress(s) == entry[s] # None /\ entry[s].state = "in_progress"
Put(s, x) == entry' = [entry EXCEPT ![s] = x]

\* of(record.responseBody), or an HttpException around it.
Replay(q, recorded) ==
    IF recorded.error = None
    THEN Answer(q, SuccessAnswer(q, recorded.origin, "true"))
    ELSE Answer(q, ErrorAnswer(q, recorded.error, q, "true"))

Claim(q) ==
    LET s == Scope(q) IN
    /\ pc[q] = "claim"
    /\ \/ /\ entry[s] = None
          /\ Put(s, [state |-> "in_progress", hash |-> Hash(q), origin |-> q, error |-> None])
          /\ GoOn(q, "handle")
          /\ UNCHANGED answer
       \/ /\ entry[s] # None
          /\ IF InProgress(s) THEN Throw(q, NestException(409))
             ELSE IF entry[s].hash # Hash(q) THEN Throw(q, NestException(422))
             ELSE Replay(q, entry[s])
          /\ UNCHANGED entry
    /\ UNCHANGED <<worldVars, user, raised, cut, historyVars, faults, changes>>

\* complete, WHERE status = in_progress.
Complete(s, e) ==
    IF InProgress(s)
    THEN Put(s, [entry[s] EXCEPT !.state = "completed", !.error = e])
    ELSE UNCHANGED entry

\* deleteInProgress.
Forget(s) == IF InProgress(s) THEN Put(s, None) ELSE UNCHANGED entry

Record(q) ==
    /\ pc[q] = "complete"
    /\ Complete(Scope(q), None)
    /\ Answer(q, SuccessAnswer(q, q, "false"))
    /\ UNCHANGED <<worldVars, user, raised, cut, historyVars, faults, changes>>

RecordFails(q) ==
    /\ pc[q] = "complete"
    /\ Fault
    /\ raised' = [raised EXCEPT ![q] = PlainError]
    /\ GoOn(q, "settle")
    /\ UNCHANGED <<worldVars, user, cut, entry, answer, historyVars, changes>>

\* Wrong on purpose: the message of the error is recorded, and not its body.
RecordsMessage(e) == [e EXCEPT !.form = "message"]

RecordsResponse(e) == e

\* handleFailure, and the error that goes on to the filter.
Settle(q) ==
    LET e == raised[q] IN
    /\ pc[q] = "settle"
    /\ IF e.kind = "http" /\ e.status < 500
       THEN Complete(Scope(q), RecordsResponse(e))
       ELSE Forget(Scope(q))
    /\ Throw(q, e)
    /\ UNCHANGED <<worldVars, user, raised, cut, historyVars, faults, changes>>

SettleFails(q) ==
    /\ pc[q] = "settle"
    /\ Fault
    /\ Throw(q, PlainError)
    /\ UNCHANGED <<worldVars, user, raised, cut, entry, historyVars, changes>>

(***************************************************************************)
(* Pipes and handlers                                                      *)
(***************************************************************************)

\* The DomainErrors of the use cases that answer with a Result, which
\* BaseController throws as HttpExceptions.
UseCaseErrors(route) ==
    CASE route = "register" -> {EmailAlreadyExistsError}
      [] route = "login" -> {InvalidCredentialsError, EmailNotVerifiedError}
      [] route = "refresh" -> {InvalidRefreshTokenError, RefreshTokenReuseDetectedError}
      [] route \in {"verify_email", "reset_password"} -> {InvalidAuthTokenError}
      [] route = "mfa_challenge" -> {UnauthorizedAccessError, InvalidMfaCodeError}
      [] route = "update_user" ->
            {ConcurrencyConflictError, EmailAlreadyExistsError, DatabaseError}
      [] route \in {"delete_user", "get_me", "list_users"} -> {DatabaseError}
      [] OTHER -> {}

HasUseCase(route) == route \in (AuthRoutes \ {"oidc_redirect", "oidc_callback"})
                               \cup UserRoutes \cup {"create_api_key"}

\* What else comes out of pipes, interceptors and handlers: the code of a
\* second factor is refused outside a Result, external logins and files throw
\* plain Errors, a use case that fails otherwise throws an UnexpectedError.
OtherErrors(route) ==
    (IF route \in {"mfa_setup", "oidc_redirect", "oidc_callback", "get_me", "delete_user",
                   "upload"} \/ ~HasUseCase(route)
     THEN {} ELSE {ValidationFailed})
    \cup (IF route \in {"update_user", "delete_user"} THEN {NestException(400)} ELSE {})
    \cup (IF route = "mfa_verify" THEN {InvalidMfaCodeError} ELSE {})
    \cup (IF route = "upload" THEN {NestException(413)} ELSE {})
    \cup (IF route \in {"upload", "oidc_redirect", "oidc_callback"} THEN {PlainError} ELSE {})
    \cup (IF route \in {"ready", "deep"} THEN {TerminusException} ELSE {})
    \cup (IF HasUseCase(route) THEN {UnexpectedError} ELSE {})

\* The checks of UpdateUserUseCase, DeleteUserUseCase and
\* GetCurrentUserUseCase, and readiness, depend on the state.
Refusals(q) ==
    LET c == call[q] IN
    CASE c.route = "update_user" /\ ~MayUpdate(user[q], c.target) -> {ForbiddenAccessError}
      [] c.route = "delete_user" /\ ~MayDelete(user[q], c.target) -> {ForbiddenAccessError}
      [] c.route \in {"update_user", "delete_user"} /\ roles[c.target] = None -> {NotFoundError}
      [] c.route = "get_me" /\ roles[user[q].id] = None -> {NotFoundError}
      [] c.route = "ready" /\ shuttingDown -> {TerminusException}
      [] OTHER -> {}

\* A profile may be in the cache after its user is gone.
FromCache(q) == call[q].route = "get_me" /\ settings.cache

\* The handler is done, with a body or with an error.
Produce(q, status, code) ==
    produced' = [produced EXCEPT ![q] = [status |-> status, code |-> code]]

Succeed(q) ==
    /\ pc[q] = "handle"
    /\ Refusals(q) = {} \/ FromCache(q)
    /\ ran' = ran \cup {q}
    /\ Produce(q, SuccessStatus(call[q].route), "none")
    /\ roles' = IF call[q].route = "delete_user" THEN [roles EXCEPT ![call[q].target] = None]
                ELSE roles
    /\ IF Idempotent(q)
       THEN GoOn(q, "complete") /\ UNCHANGED answer
       ELSE Answer(q, SuccessAnswer(q, q, "none"))
    /\ UNCHANGED <<settings, call, keyValid, shuttingDown, user, raised, cut, entry, rights,
                   keyHeld, faults, changes>>

Fail(q) ==
    /\ pc[q] = "handle"
    /\ \E e \in {ToHttpException(d) : d \in Refusals(q) \cup UseCaseErrors(call[q].route)}
                \cup OtherErrors(call[q].route) :
          /\ raised' = [raised EXCEPT ![q] = e]
          /\ Produce(q, e.status, ResponseCode(e))
          /\ IF Idempotent(q)
             THEN GoOn(q, "settle") /\ UNCHANGED answer
             ELSE Throw(q, e)
    /\ UNCHANGED <<worldVars, user, cut, entry, rights, keyHeld, ran, faults, changes>>

\* RequestTimeoutInterceptor: what is awaited goes on without the pipe.
TimeOut(q) ==
    /\ pc[q] \in {"claim", "handle", "complete", "settle"}
    /\ q \notin cut /\ ~Excluded(call[q].route)
    /\ cut' = cut \cup {q}
    /\ answer' = [answer EXCEPT ![q] = ErrorAnswer(q, NestException(408), q, "none")]
    /\ UNCHANGED <<worldVars, pc, user, raised, entry, historyVars, faults, changes>>

(***************************************************************************)
(* What happens meanwhile                                                  *)
(***************************************************************************)
Change == changes < MaxChanges /\ changes' = changes + 1

\* Roles are granted, and API keys revoked, with SQL: no route does.
ChangeRoles(u) ==
    /\ Change
    /\ roles[u] # None
    /\ \E r \in RoleChoices \ {roles[u]} :
          /\ roles' = [roles EXCEPT ![u] = r]
          /\ rights' = [q \in Request |->
                IF pc[q] \notin {"new", "over"} /\ call[q].subject = u
                THEN rights[q] \cup {r} ELSE rights[q]]
    /\ UNCHANGED <<settings, call, keyValid, shuttingDown, pc, user, raised, cut, entry, answer,
                   keyHeld, ran, produced, faults>>

KeyExpires ==
    /\ Change
    /\ keyValid
    /\ keyValid' = FALSE
    /\ UNCHANGED <<settings, call, roles, shuttingDown, pc, user, raised, cut, entry, answer,
                   historyVars, faults>>

BeginShutdown ==
    /\ Change
    /\ ~shuttingDown
    /\ shuttingDown' = TRUE
    /\ UNCHANGED <<settings, call, roles, keyValid, pc, user, raised, cut, entry, answer,
                   historyVars, faults>>

GuardStep(q) == Receive(q) \/ Authenticate(q) \/ Throttle(q) \/ CheckApiKey(q) \/ ReadFails(q)
HandlerStep(q) == Claim(q) \/ Succeed(q) \/ Fail(q) \/ Record(q) \/ RecordFails(q)
                  \/ Settle(q) \/ SettleFails(q) \/ TimeOut(q)

Next ==
    \/ \E q \in Request : GuardStep(q) \/ HandlerStep(q)
    \/ \E u \in User : ChangeRoles(u)
    \/ KeyExpires
    \/ BeginShutdown

Spec == Init /\ [][Next]_vars

(***************************************************************************)
(* Properties                                                              *)
(***************************************************************************)

\* docs/features/auth.md, route by route: what a user with the roles r may do.
Entitled(c, r) ==
    CASE c.route \in {"logout", "mfa_setup", "mfa_verify", "get_me"} -> TRUE
      [] c.route = "update_user" -> c.subject = c.target \/ "admin" \in r
      [] c.route = "delete_user" -> c.subject # c.target /\ "admin" \in r
      [] c.route \in {"list_users", "upload", "create_api_key"} -> "admin" \in r
      [] OTHER -> FALSE

\* What was performed was asked for by someone who, at some time since the
\* request came, had the rights the documentation wants: the guards, in
\* whatever order they await, let nobody through for whom roles, decorators,
\* allowlists and the checks inside the use cases (delete-user.use-case.ts:42)
\* do not agree, and no rights count that were gone before the request came.
HandlerIsEntitled ==
    \A q \in ran : LET c == call[q] IN
        /\ settings.ipFilter => c.listed
        /\ settings.metricsIpFilter /\ c.route = "metrics" => c.listed
        /\ \/ c.route \in HealthProbes \cup {"metrics"}
           \/ c.route \in AuthRoutes \ {"logout", "mfa_setup", "mfa_verify"}
           \/ /\ c.route = "health_summary"
              /\ settings.apiKeys => c.apiKey = "good" /\ q \in keyHeld
           \/ c.token = "good" /\ \E r \in rights[q] \ {None} : Entitled(c, r)

\* docs/features/api-contract.md and error-codes.ts.
DocumentedCodes(status) ==
    CASE status < 400 -> {"none"}
      [] status = 400 -> {"E-VALIDATION"}
      [] status = 401 -> {"E-UNAUTHORIZED", "E-AUTH-001", "E-AUTH-003", "E-AUTH-004",
                          "E-AUTH-006", "E-AUTH-007", "E-AUTH-008", "E-AUTH-009"}
      [] status = 403 -> {"E-FORBIDDEN", "E-AUTH-005"}
      [] status = 404 -> {"E-NOT-FOUND"}
      [] status = 409 -> {"E-CONFLICT", "E-CONCURRENCY", "E-AUTH-002"}
      [] status = 429 -> {"E-THROTTLE"}
      [] status = 500 -> {"E-UNEXPECTED", "E-DB"}
      [] status = 503 -> {"none"}
      [] OTHER -> {"E-UNEXPECTED"}

\* However an answer came about - middleware, guard, interceptor, timeout,
\* handler, replay or filter - its status, code, shape and request id agree
\* with each other and with the request; and who is told that the request was
\* refused knows that nothing was done.
AnswerFits ==
    \A q \in Request : answer[q] # None =>
        LET a == answer[q]
            c == call[q]
            probe == c.route \in HealthProbes IN
        /\ a.code \in DocumentedCodes(a.status)
        /\ a.header = q \/ (a.status = 403 /\ ~c.sendsId)
        /\ a.shape \in {"envelope", "problem"} => a.id = a.header \/ a.replayed = "true"
        /\ a.shape = "raw" <=> a.status < 400 /\ (probe \/ c.route = "metrics")
        /\ a.shape = "terminus" <=> a.status = 503
        /\ a.shape = "terminus" => probe
        /\ a.shape = "problem" <=> c.problem /\ a.status >= 400 /\ a.status # 503
        /\ q \in ran /\ a.status >= 400 => a.status \in {408, 500}
        /\ a.status < 400 => q \in ran \/ a.replayed = "true"

\* A replay tells the status and the code that another request of the same
\* caller, for the same route, target and body, was answered with, and never a
\* failure of the server; the body of an upload is not compared.
ReplayTellsTheSame ==
    \A q \in Request : answer[q] # None /\ answer[q].replayed = "true" =>
        /\ q \notin ran
        /\ answer[q].status < 500
        /\ \E p \in Request \ {q} :
              /\ produced[p] = [status |-> answer[q].status, code |-> answer[q].code]
              /\ call[p].route = call[q].route /\ call[p].target = call[q].target
              /\ call[p].body = call[q].body \/ call[p].route = "upload"
              /\ NeedsToken(call[q].route) => call[p].subject = call[q].subject

\* docs/features/reliability/idempotency.md:63: "`422 Unprocessable Entity` |
\* Same key but different body".
OtherBodyIsRefused ==
    \A q \in Request : answer[q] # None /\ answer[q].replayed = "true" =>
        \E p \in Request \ {q} : produced[p] # None /\ call[p].body = call[q].body

=============================================================================
