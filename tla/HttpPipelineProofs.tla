-------------------------- MODULE HttpPipelineProofs --------------------------
(***************************************************************************)
(* The invariants of HttpPipeline, for any number of requests and users,   *)
(* any calls, roles and settings, and any number of faults and changes.    *)
(*                                                                         *)
(* What a handler may rely on is gathered on the way to it: Admitted says  *)
(* how far the middlewares and the guards have let a request, Claimed and  *)
(* Recorded whose the row of an idempotency key is and what it tells,      *)
(* Handled and Waiting what became of a request so far.  Fitting is what   *)
(* every error is, wherever it was thrown, so that the filter can tell it  *)
(* as documented.                                                          *)
(***************************************************************************)
EXTENDS HttpPipeline, TLAPS

\* What an error must be for the filter to tell it as documented.
Fitting(e, route) ==
    /\ e.status >= 400
    /\ e.form = "terminus" <=> e.status = 503
    /\ e.form = "terminus" => route \in HealthProbes
    /\ e.form # "terminus" => ResponseCode(e) \in DocumentedCodes(e.status)

(***************************************************************************)
(* Errors and answers                                                      *)
(***************************************************************************)

\* Domain errors keep their code, an error of Nest's has that of its status.
LEMMA DomainErrorFits ==
    ASSUME NEW s \in Nat, NEW c \in ErrorCodes, NEW route, s >= 400, s # 503,
           c \in DocumentedCodes(s)
    PROVE  /\ DomainError(s, c) \in Error /\ Fitting(DomainError(s, c), route)
           /\ ToHttpException(DomainError(s, c)) \in Error
           /\ Fitting(ToHttpException(DomainError(s, c)), route)
BY DEF DomainError, Exception, ToHttpException, Error, Fitting, ResponseCode

LEMMA NestExceptionFits ==
    ASSUME NEW s \in {400, 401, 403, 404, 408, 409, 413, 422, 429}, NEW route
    PROVE  NestException(s) \in Error /\ Fitting(NestException(s), route)
BY DEF NestException, Exception, Error, Fitting, ResponseCode, InferredCode, DocumentedCodes,
   ErrorCodes

LEMMA NestErrorsFit ==
    ASSUME NEW route
    PROVE  /\ NestException(401) \in Error /\ Fitting(NestException(401), route)
           /\ NestException(404) \in Error /\ Fitting(NestException(404), route)
           /\ NestException(408) \in Error /\ Fitting(NestException(408), route)
           /\ NestException(409) \in Error /\ Fitting(NestException(409), route)
           /\ NestException(422) \in Error /\ Fitting(NestException(422), route)
<1>1. \A s \in {401, 404, 408, 409, 422} :
        NestException(s) \in Error /\ Fitting(NestException(s), route)
    BY NestExceptionFits
<1>2. QED
    BY <1>1

LEMMA OtherExceptionsFit ==
    ASSUME NEW route
    PROVE  /\ PlainError \in Error /\ Fitting(PlainError, route)
           /\ ThrottlerException \in Error /\ Fitting(ThrottlerException, route)
           /\ TerminusException \in Error /\ ToHttpException(TerminusException) \in Error
           /\ route \in HealthProbes => /\ Fitting(TerminusException, route)
                                        /\ Fitting(ToHttpException(TerminusException), route)
BY DEF PlainError, ThrottlerException, TerminusException, ToHttpException, Exception, Error,
       Fitting, ResponseCode, InferredCode, DocumentedCodes, ErrorCodes

\* The errors of the guards.
LEMMA GuardErrorsFit ==
    ASSUME NEW route
    PROVE  /\ ForbiddenError \in Error /\ Fitting(ForbiddenError, route)
           /\ ToHttpException(UnauthorizedAccessError) \in Error
           /\ Fitting(ToHttpException(UnauthorizedAccessError), route)
           /\ ToHttpException(ForbiddenAccessError) \in Error
           /\ Fitting(ToHttpException(ForbiddenAccessError), route)
BY DomainErrorFits
DEF ForbiddenError, UnauthorizedAccessError, ForbiddenAccessError, DocumentedCodes, ErrorCodes

\* The errors of pipes and handlers.
LEMMA UseCaseErrorsFit ==
    ASSUME NEW route, NEW d \in UseCaseErrors(route)
    PROVE  ToHttpException(d) \in Error /\ Fitting(ToHttpException(d), route)
<1>1. d \in {EmailAlreadyExistsError, InvalidCredentialsError, EmailNotVerifiedError,
             InvalidRefreshTokenError, RefreshTokenReuseDetectedError, InvalidAuthTokenError,
             UnauthorizedAccessError, InvalidMfaCodeError, ConcurrencyConflictError,
             DatabaseError}
    BY DEF UseCaseErrors
<1>2. QED
    BY <1>1, DomainErrorFits
    DEF EmailAlreadyExistsError, InvalidCredentialsError, EmailNotVerifiedError,
        InvalidRefreshTokenError, RefreshTokenReuseDetectedError, InvalidAuthTokenError,
        UnauthorizedAccessError, InvalidMfaCodeError, ConcurrencyConflictError, DatabaseError,
        DocumentedCodes, ErrorCodes

LEMMA OtherErrorsFit ==
    ASSUME NEW route, NEW e \in OtherErrors(route)
    PROVE  e \in Error /\ Fitting(e, route)
<1>1. \/ e \in {ValidationFailed, NestException(400), InvalidMfaCodeError, NestException(413),
                PlainError, UnexpectedError}
      \/ e = TerminusException /\ route \in {"ready", "deep"}
    BY DEF OtherErrors
<1>2. {"ready", "deep"} \subseteq HealthProbes
    BY DEF HealthProbes
<1>3. /\ ValidationFailed \in Error /\ Fitting(ValidationFailed, route)
      /\ InvalidMfaCodeError \in Error /\ Fitting(InvalidMfaCodeError, route)
      /\ UnexpectedError \in Error /\ Fitting(UnexpectedError, route)
    BY DomainErrorFits
    DEF ValidationFailed, ValidationError, InvalidMfaCodeError, UnexpectedError,
        DocumentedCodes, ErrorCodes
<1>4. QED
    BY <1>1, <1>2, <1>3, NestExceptionFits, OtherExceptionsFit

LEMMA RefusalsFit ==
    ASSUME NEW q, NEW d \in Refusals(q)
    PROVE  ToHttpException(d) \in Error /\ Fitting(ToHttpException(d), call[q].route)
<1>1. \/ d \in {ForbiddenAccessError, NotFoundError}
      \/ d = TerminusException /\ call[q].route \in HealthProbes
    BY DEF Refusals, HealthProbes
<1>2. QED
    BY <1>1, DomainErrorFits, OtherExceptionsFit
    DEF ForbiddenAccessError, NotFoundError, DocumentedCodes, ErrorCodes

\* What a handler throws.
LEMMA HandlerErrorsFit ==
    ASSUME NEW q,
           NEW e \in {ToHttpException(d) : d \in Refusals(q) \cup UseCaseErrors(call[q].route)}
                     \cup OtherErrors(call[q].route)
    PROVE  e \in Error /\ Fitting(e, call[q].route)
BY RefusalsFit, UseCaseErrorsFit, OtherErrorsFit

(***************************************************************************)
(* The inductive invariant                                                 *)
(***************************************************************************)

\* What the caller of q has shown once the guards have let it pass.
Passed(q) ==
    LET c == call[q] IN
    /\ RolesGuard(c.route, user[q]) /\ PermissionsGuard(c.route, user[q])
    /\ IF NeedsToken(c.route)
       THEN /\ c.token = "good"
            /\ user[q].id = c.subject /\ user[q].roles \in rights[q] \ {None}
       ELSE user[q] = Nobody

PastGuards == {"throttle", "api_key", "claim", "handle", "complete", "settle"}
PastApiKey == {"claim", "handle", "complete", "settle"}

\* A request is as far as the middlewares and the guards have let it.
Admitted(q) ==
    /\ pc[q] # "over" => call[q] \in Call
    /\ pc[q] \notin {"new", "over"} =>
          /\ Reaches(call[q]) /\ Exists(call[q].route)
          /\ roles[call[q].subject] # None => roles[call[q].subject] \in rights[q]
          /\ keyValid => q \in keyHeld
    /\ pc[q] \in PastGuards => Passed(q)
    /\ pc[q] \in PastApiKey /\ call[q].route = "health_summary" /\ settings.apiKeys =>
          call[q].apiKey = "good" /\ q \in keyHeld

\* The handler of a request runs once, and what it threw is on its way.
Handled(q) ==
    /\ q \in ran => pc[q] \in {"complete", "settle", "over"} /\ call[q] \in Call
    /\ produced[q] # None => pc[q] \in {"complete", "settle", "over"}
    /\ pc[q] = "complete" =>
          /\ q \in ran
          /\ produced[q] = [status |-> SuccessStatus(call[q].route), code |-> "none"]
    /\ pc[q] = "settle" =>
          /\ raised[q] # None /\ Fitting(raised[q], call[q].route)
          /\ q \in ran => raised[q] = PlainError
          /\ raised[q].kind = "http" /\ raised[q].status < 500 =>
                produced[q] = [status |-> raised[q].status, code |-> ResponseCode(raised[q])]
    /\ pc[q] \in {"claim", "complete", "settle"} => Idempotent(q)

\* Until it is over, a request has no answer but that of a timeout.
Waiting(q) ==
    /\ q \in cut => answer[q] # None /\ answer[q].status = 408
    /\ q \notin cut /\ pc[q] # "over" => answer[q] = None
    /\ answer[q] # None => call[q] \in Call
    /\ answer[q] # None /\ answer[q].replayed = "true" => pc[q] = "over"

\* A key belongs to the request that claimed it until that is over.
Claimed(q) ==
    pc[q] \in {"handle", "complete", "settle"} /\ Idempotent(q) =>
        InProgress(Scope(q)) /\ entry[Scope(q)].origin = q

\* A row tells what its request had, and was answered with.
Recorded(s) ==
    entry[s] # None =>
        LET p == entry[s].origin
            e == entry[s].error IN
        /\ p \in Request /\ call[p] \in Call /\ entry[s].hash = Hash(p) /\ Scope(p) = s
        /\ pc[p] \in {"handle", "complete", "settle", "over"}
        /\ NeedsToken(call[p].route) => user[p] # Nobody /\ user[p].id = call[p].subject
        /\ entry[s].state = "completed" =>
              IF e = None
              THEN produced[p] = [status |-> SuccessStatus(call[p].route), code |-> "none"]
              ELSE /\ e.status < 500 /\ Fitting(e, call[p].route)
                   /\ produced[p] = [status |-> e.status, code |-> ResponseCode(e)]

\* HandlerIsEntitled of one request.
EntitledTo(q) ==
    LET c == call[q] IN
    /\ settings.ipFilter => c.listed
    /\ settings.metricsIpFilter /\ c.route = "metrics" => c.listed
    /\ \/ c.route \in HealthProbes \cup {"metrics"}
       \/ c.route \in AuthRoutes \ {"logout", "mfa_setup", "mfa_verify"}
       \/ /\ c.route = "health_summary"
          /\ settings.apiKeys => c.apiKey = "good" /\ q \in keyHeld
       \/ c.token = "good" /\ \E r \in rights[q] \ {None} : Entitled(c, r)

\* What AnswerFits says of the answer alone.
WellFormed(q, a) ==
    LET c == call[q]
        probe == c.route \in HealthProbes IN
    /\ a.code \in DocumentedCodes(a.status)
    /\ a.header = q \/ (a.status = 403 /\ ~c.sendsId)
    /\ a.shape \in {"envelope", "problem"} => a.id = a.header \/ a.replayed = "true"
    /\ a.shape = "raw" <=> a.status < 400 /\ (probe \/ c.route = "metrics")
    /\ a.shape = "terminus" <=> a.status = 503
    /\ a.shape = "terminus" => probe
    /\ a.shape = "problem" <=> c.problem /\ a.status >= 400 /\ a.status # 503

\* What q is told by a.
Tells(q, a, status, replayed) ==
    a \in Told /\ WellFormed(q, a) /\ a.status = status /\ a.replayed = replayed

\* What AnswerFits says of the answer of q and of what became of q.
Honest(q) ==
    answer[q] # None =>
        /\ q \in ran /\ answer[q].status >= 400 => answer[q].status \in {408, 500}
        /\ answer[q].status < 400 => q \in ran \/ answer[q].replayed = "true"

\* The answer q has is documented.
Fits(q) == answer[q] # None => WellFormed(q, answer[q])

\* ReplayTellsTheSame of one request.
TellsTheSame(q) ==
    answer[q] # None /\ answer[q].replayed = "true" =>
        /\ q \notin ran
        /\ answer[q].status < 500
        /\ \E p \in Request \ {q} :
              /\ produced[p] = [status |-> answer[q].status, code |-> answer[q].code]
              /\ call[p].route = call[q].route /\ call[p].target = call[q].target
              /\ call[p].body = call[q].body \/ call[p].route = "upload"
              /\ NeedsToken(call[q].route) => call[p].subject = call[q].subject

Keyspace == User \cup {"anonymous"}

\* What a request is and has, whatever the others do.
RequestOK(q) ==
    /\ Admitted(q) /\ Handled(q) /\ Waiting(q)
    /\ (q \in ran => EntitledTo(q)) /\ Fits(q) /\ Honest(q)

IInv ==
    /\ TypeOK
    /\ \A q \in Request : RequestOK(q) /\ Claimed(q) /\ TellsTheSame(q)
    /\ \A s \in Keyspace : Recorded(s)

(***************************************************************************)
(* What a step leaves alone                                                *)
(***************************************************************************)

\* What a step keeps of a request that does not take it.
Beside(p) ==
    /\ settings' = settings /\ call' = call
    /\ pc'[p] = pc[p] /\ user'[p] = user[p] /\ raised'[p] = raised[p]
    /\ answer'[p] = answer[p] /\ produced'[p] = produced[p]
    /\ p \in cut' <=> p \in cut
    /\ p \in ran' <=> p \in ran
    /\ p \in keyHeld' <=> p \in keyHeld
    /\ keyValid' => keyValid
    /\ rights[p] \subseteq rights'[p]
    /\ \A u \in User : \/ roles'[u] \in {roles[u], None}
                       \/ pc[p] \notin {"new", "over"} /\ call[p].subject = u =>
                             roles'[u] \in rights'[p]

RequestStep(q) == GuardStep(q) \/ HandlerStep(q)

WorldStep == (\E u \in User : ChangeRoles(u)) \/ KeyExpires \/ BeginShutdown \/ UNCHANGED vars

LEMMA Steps ==
    [Next]_vars => WorldStep \/ \E q \in Request : RequestStep(q)
BY DEF Next, WorldStep, RequestStep

LEMMA WorldBeside ==
    ASSUME TypeOK, WorldStep, NEW p \in Request
    PROVE  Beside(p) /\ UNCHANGED <<entry, pc, user, produced, call>>
<1>1. ASSUME NEW u \in User, ChangeRoles(u)
      PROVE  Beside(p) /\ UNCHANGED <<entry, pc, user, produced, call>>
    BY <1>1 DEF ChangeRoles, TypeOK, Beside
<1>2. CASE KeyExpires
    BY <1>2 DEF KeyExpires, TypeOK, Beside, historyVars
<1>3. CASE BeginShutdown
    BY <1>3 DEF BeginShutdown, TypeOK, Beside, historyVars
<1>4. CASE UNCHANGED vars
    BY <1>4 DEF vars, worldVars, historyVars, TypeOK, Beside
<1>5. QED
    BY <1>1, <1>2, <1>3, <1>4 DEF WorldStep

LEMMA OthersBeside ==
    ASSUME TypeOK, NEW q \in Request, RequestStep(q), NEW p \in Request \ {q}
    PROVE  Beside(p)
<1> USE DEF TypeOK, Beside, worldVars, historyVars
<1>1. CASE Receive(q)
    BY <1>1 DEF Receive, Throw, Answer, Goto
<1>2. CASE Authenticate(q)
    BY <1>2 DEF Authenticate, Throw, Answer, Goto
<1>3. CASE Throttle(q)
    BY <1>3 DEF Throttle, Throw, Answer, Goto
<1>4. CASE CheckApiKey(q)
    BY <1>4 DEF CheckApiKey, Throw, Answer, Goto
<1>5. CASE ReadFails(q)
    BY <1>5 DEF ReadFails, Throw, Answer, Goto
<1>6. CASE Claim(q)
    BY <1>6 DEF Claim, Replay, Throw, Answer, Goto, GoOn
<1>7. CASE Succeed(q)
    BY <1>7 DEF Succeed, Produce, Throw, Answer, Goto, GoOn
<1>8. CASE Fail(q)
    BY <1>8 DEF Fail, Produce, Throw, Answer, Goto, GoOn
<1>9. CASE Record(q)
    BY <1>9 DEF Record, Throw, Answer, Goto, GoOn
<1>10. CASE RecordFails(q)
    BY <1>10 DEF RecordFails, Goto, GoOn
<1>11. CASE Settle(q)
    BY <1>11 DEF Settle, Throw, Answer, Goto
<1>12. CASE SettleFails(q)
    BY <1>12 DEF SettleFails, Throw, Answer, Goto
<1>13. CASE TimeOut(q)
    BY <1>13 DEF TimeOut
<1>14. QED
    BY <1>1, <1>2, <1>3, <1>4, <1>5, <1>6, <1>7, <1>8, <1>9, <1>10, <1>11, <1>12, <1>13
    DEF RequestStep, GuardStep, HandlerStep

\* A request that is over does nothing more.
LEMMA OverIsOver ==
    ASSUME TypeOK, NEW q \in Request, RequestStep(q)
    PROVE  pc[q] # "over"
BY DEF RequestStep, GuardStep, HandlerStep, Receive, Authenticate, Throttle, CheckApiKey,
       ReadFails, Reads, Claim, Succeed, Fail, Record, RecordFails, Settle, SettleFails, TimeOut

\* What concerns a request alone stays as it is while others take their steps.
LEMMA BesideKeeps ==
    ASSUME TypeOK, NEW p \in Request, RequestOK(p), Beside(p)
    PROVE  RequestOK(p)'
<1> USE DEF Beside
<1>1. Passed(p) /\ pc[p] \in PastGuards => Passed(p)'
    BY DEF Passed
<1>2. Admitted(p)'
  <2>1. pc[p] \notin {"new", "over"} /\ roles'[call[p].subject] # None =>
            roles'[call[p].subject] \in rights'[p]
    <3>1. pc[p] # "over" => call[p].subject \in User
        BY DEF RequestOK, Admitted, Call
    <3>2. QED
        BY <3>1 DEF RequestOK, Admitted
  <2>2. QED
    BY <1>1, <2>1 DEF RequestOK, Admitted, Reaches, Exists, PastGuards, PastApiKey
<1>3. Handled(p)'
    BY DEF RequestOK, Handled, Idempotent
<1>4. Waiting(p)'
    BY DEF RequestOK, Waiting
<1>5. p \in ran => EntitledTo(p)'
    BY DEF RequestOK, EntitledTo
<1>6. Fits(p)' /\ Honest(p)'
    BY DEF RequestOK, Fits, WellFormed, Honest
<1>7. QED
    BY <1>2, <1>3, <1>4, <1>5, <1>6 DEF RequestOK

(***************************************************************************)
(* Answers                                                                 *)
(***************************************************************************)

\* A fitting error is answered as documented, whoever tells it.
LEMMA ErrorAnswerFits ==
    ASSUME NEW q \in Request, NEW e \in Error, Fitting(e, call[q].route),
           NEW id, NEW replayed \in {"none", "true", "false"},
           id = q \/ (id = EdgeId(q) /\ e.status = 403)
    PROVE  Tells(q, ErrorAnswer(q, e, id, replayed), e.status, replayed)
<1> DEFINE probe == isHealthProbePath(call[q].route)
           shape == ErrorShape(e, probe, call[q].problem)
           a == ErrorAnswer(q, e, id, replayed)
<1>1. ResponseCode(e) \in ErrorCodes
    BY DEF ResponseCode, Error, InferredCode, ErrorCodes
<1>2. /\ shape \in {"envelope", "problem", "terminus"}
      /\ shape = "terminus" <=> e.status = 503
      /\ shape = "terminus" => probe
      /\ shape = "problem" <=> call[q].problem /\ e.status # 503
    BY DEF ErrorShape, Fitting, isHealthProbePath
<1>3. id \in Request \cup {None} /\ (id = q \/ (e.status = 403 /\ ~call[q].sendsId))
    BY Zenon DEF EdgeId
<1>4. a = [status |-> e.status, shape |-> shape,
           code |-> IF shape = "terminus" THEN "none" ELSE ResponseCode(e),
           id |-> IF shape = "terminus" THEN None ELSE id, header |-> id,
           replayed |-> replayed]
    BY DEF ErrorAnswer, AnswerOf
<1>5. e.status \in Nat /\ e.status >= 400
    BY DEF Error, Fitting
<1>6. a \in Told
    BY <1>1, <1>2, <1>3, <1>4, <1>5 DEF Told, ErrorCodes
<1>7. a.code \in DocumentedCodes(a.status)
  <2>1. CASE e.status = 503
    BY <2>1, <1>2, <1>4 DEF DocumentedCodes
  <2>2. CASE e.status # 503
    BY <2>2, <1>2, <1>4 DEF Fitting
  <2>3. QED
    BY <2>1, <2>2
<1>8. WellFormed(q, a)
    BY <1>2, <1>3, <1>4, <1>5, <1>7 DEF WellFormed, isHealthProbePath
<1>9. QED
    BY <1>2, <1>4, <1>6, <1>8 DEF Tells

\* So is a success, its own or another's.
LEMMA SuccessAnswerFits ==
    ASSUME NEW q \in Request, NEW origin \in Request, NEW replayed \in {"none", "true", "false"},
           origin = q \/ replayed = "true"
    PROVE  LET a == SuccessAnswer(q, origin, replayed) IN
           /\ Tells(q, a, SuccessStatus(call[q].route), replayed)
           /\ a.status < 400 /\ a.code = "none"
<1> DEFINE route == call[q].route
           shape == SuccessShape(route)
           a == SuccessAnswer(q, origin, replayed)
<1>1. SuccessStatus(route) \in {200, 201, 302}
    BY DEF SuccessStatus
<1>2. /\ shape \in {"raw", "redirect", "envelope"}
      /\ shape = "raw" <=> route \in HealthProbes \/ route = "metrics"
    BY DEF SuccessShape, Excluded, isHealthProbePath, HealthProbes
<1>3. a = [status |-> SuccessStatus(route), shape |-> shape, code |-> "none",
           id |-> IF shape = "envelope" THEN origin ELSE None, header |-> q,
           replayed |-> replayed]
    BY DEF SuccessAnswer, AnswerOf
<1>4. a \in Told
    BY <1>1, <1>2, <1>3 DEF Told, ErrorCodes
<1>5. a.code \in DocumentedCodes(a.status)
    BY <1>1, <1>3 DEF DocumentedCodes
<1>6. QED
    BY <1>1, <1>2, <1>3, <1>4, <1>5 DEF WellFormed, Tells

\* What Answer(q, a) does to its own request.
LEMMA AnswerTells ==
    ASSUME TypeOK, NEW q \in Request, NEW a, Answer(q, a)
    PROVE  /\ pc' = [pc EXCEPT ![q] = "over"] /\ pc'[q] = "over"
           /\ answer'[q] = IF q \in cut THEN answer[q] ELSE a
           /\ a \in Told => answer' \in [Request -> Told \cup {None}]
BY DEF TypeOK, Answer, Goto

LEMMA ThrowTells ==
    ASSUME TypeOK, NEW q \in Request, NEW e \in Error, Fitting(e, call[q].route), Throw(q, e)
    PROVE  /\ pc' = [pc EXCEPT ![q] = "over"] /\ pc'[q] = "over"
           /\ answer' \in [Request -> Told \cup {None}]
           /\ q \in cut => answer'[q] = answer[q]
           /\ q \notin cut => Tells(q, answer'[q], e.status, "none")
<1> DEFINE a == ErrorAnswer(q, e, q, "none")
<1>1. Answer(q, a)
    BY DEF Throw
<1>2. Tells(q, a, e.status, "none")
    BY ErrorAnswerFits, Zenon
<1> HIDE DEF a
<1>3. QED
    BY <1>1, <1>2, AnswerTells DEF Tells

\* An error of the framework's own that a step throws.
LEMMA NestTells ==
    ASSUME TypeOK, NEW q \in Request, NEW s \in {400, 401, 403, 404, 408, 409, 413, 422, 429},
           Throw(q, NestException(s))
    PROVE  answer' \in [Request -> Told \cup {None}]
<1>1. PICK e : e = NestException(s)
    OBVIOUS
<1>2. e \in Error /\ Fitting(e, call[q].route)
    BY <1>1, NestExceptionFits
<1>3. Throw(q, e)
    BY <1>1
<1>4. QED
    BY <1>2, <1>3, ThrowTells

LEMMA ScopeInKeyspace ==
    ASSUME TypeOK, NEW q \in Request
    PROVE  Scope(q) \in Keyspace
BY DEF TypeOK, Scope, Keyspace

\* What a replay tells its request: what the row was given by another one.
LEMMA ReplayTells ==
    ASSUME TypeOK, NEW q \in Request,
           entry[Scope(q)] # None, ~InProgress(Scope(q)), Recorded(Scope(q)),
           entry[Scope(q)].hash = Hash(q), Replay(q, entry[Scope(q)])
    PROVE  /\ pc' = [pc EXCEPT ![q] = "over"] /\ pc'[q] = "over"
           /\ answer' \in [Request -> Told \cup {None}]
           /\ q \in cut => answer'[q] = answer[q]
           /\ q \notin cut =>
                /\ Tells(q, answer'[q], answer'[q].status, "true")
                /\ answer'[q].status < 500
                /\ produced[entry[Scope(q)].origin] =
                        [status |-> answer'[q].status, code |-> answer'[q].code]
<1>1. PICK x \in Entry : x = entry[Scope(q)]
    BY ScopeInKeyspace DEF TypeOK, Keyspace
<1>2. PICK p \in Request : p = x.origin
    BY <1>1 DEF Entry
<1>3. /\ x.state = "completed" /\ call[p].route = call[q].route
      /\ entry[Scope(q)].origin = p
    BY <1>1, <1>2 DEF InProgress, Entry, Recorded, Hash
<1>4. CASE x.error = None
  <2>1. PICK a : a = SuccessAnswer(q, p, "true")
    OBVIOUS
  <2>2. Answer(q, a)
    BY <1>1, <1>2, <1>4, <2>1 DEF Replay
  <2>3. /\ Tells(q, a, SuccessStatus(call[q].route), "true")
        /\ a.status < 400 /\ a.code = "none"
    <3>1. Tells(q, SuccessAnswer(q, p, "true"), SuccessStatus(call[q].route), "true")
        BY SuccessAnswerFits, Zenon
    <3>2. SuccessAnswer(q, p, "true").status < 400 /\ SuccessAnswer(q, p, "true").code = "none"
        BY SuccessAnswerFits, Zenon
    <3>3. QED
        BY <2>1, <3>1, <3>2
  <2>4. produced[p] = [status |-> a.status, code |-> a.code]
    BY <1>1, <1>2, <1>3, <1>4, <2>3 DEF Recorded, Tells
  <2>5. a.status \in Nat
    BY <2>3 DEF Tells, Told
  <2>6. QED
    BY <1>3, <2>2, <2>3, <2>4, <2>5, AnswerTells DEF Tells
<1>5. CASE x.error # None
  <2>1. PICK e \in Error : e = x.error
    BY <1>1, <1>5 DEF Entry
  <2>2. PICK a : a = ErrorAnswer(q, e, q, "true")
    OBVIOUS
  <2>3. Answer(q, a)
    BY <1>1, <1>5, <2>1, <2>2 DEF Replay
  <2>4. /\ e.status < 500 /\ Fitting(e, call[q].route)
        /\ produced[p] = [status |-> e.status, code |-> ResponseCode(e)]
    BY <1>1, <1>2, <1>3, <1>5, <2>1 DEF Recorded
  <2>5. e.status \in Nat /\ e.status # 503
    BY <2>4 DEF Error
  <2>6. Tells(q, a, e.status, "true") /\ a.code = ResponseCode(e)
    <3>1. Tells(q, ErrorAnswer(q, e, q, "true"), e.status, "true")
        BY <2>4, ErrorAnswerFits, Zenon
    <3>2. ErrorAnswer(q, e, q, "true").code = ResponseCode(e)
        BY <2>4, <2>5 DEF ErrorAnswer, AnswerOf, ErrorShape, Fitting
    <3>3. QED
        BY <2>2, <3>1, <3>2
  <2>7. QED
    BY <1>3, <2>3, <2>4, <2>5, <2>6, AnswerTells DEF Tells
<1>6. QED
    BY <1>4, <1>5

(***************************************************************************)
(* Types                                                                   *)
(***************************************************************************)

LEMMA HashTyped ==
    ASSUME NEW q, call[q] \in Call
    PROVE  Hash(q) \in Routes \X User \X {"none", "first", "second"}
BY DEF Hash, Call

LEMMA EntriesTyped ==
    ASSUME TypeOK, NEW s \in Keyspace, NEW e \in Error \cup {None},
           Complete(s, e) \/ Forget(s) \/ UNCHANGED entry
    PROVE  entry' \in [Keyspace -> Entry \cup {None}]
<1>1. entry \in [Keyspace -> Entry \cup {None}]
    BY DEF TypeOK, Keyspace
<1>2. CASE Complete(s, e)
  <2>1. CASE InProgress(s)
    <3>1. entry[s] \in Entry
        BY <1>1, <2>1 DEF InProgress
    <3>2. [entry[s] EXCEPT !.state = "completed", !.error = e] \in Entry
        BY <3>1 DEF Entry
    <3>3. QED
        BY <1>1, <1>2, <2>1, <3>2 DEF Complete, Put
  <2>2. CASE ~InProgress(s)
    BY <1>1, <1>2, <2>2 DEF Complete
  <2>3. QED
    BY <2>1, <2>2
<1>3. CASE Forget(s)
    BY <1>1, <1>3 DEF Forget, Put
<1>4. QED
    BY <1>1, <1>2, <1>3

LEMMA TimeOutTold ==
    ASSUME NEW q \in Request
    PROVE  Tells(q, ErrorAnswer(q, NestException(408), q, "none"), 408, "none")
<1>1. PICK e : e = NestException(408)
    OBVIOUS
<1>2. e \in Error /\ Fitting(e, call[q].route)
    BY <1>1, NestErrorsFit
<1>3. e.status = 408
    BY <1>1 DEF NestException, Exception
<1>4. Tells(q, ErrorAnswer(q, e, q, "none"), e.status, "none")
    BY <1>2, ErrorAnswerFits, Zenon
<1>5. QED
    BY <1>1, <1>3, <1>4

\* The allowlists refuse before the request has an id of its own.
LEMMA ForbiddenTold ==
    ASSUME NEW q \in Request
    PROVE  Tells(q, ErrorAnswer(q, ForbiddenError, EdgeId(q), "none"), 403, "none")
<1>1. PICK e : e = ForbiddenError
    OBVIOUS
<1>2. PICK id : id = EdgeId(q)
    OBVIOUS
<1>3. e \in Error /\ Fitting(e, call[q].route) /\ e.status = 403
    BY <1>1, GuardErrorsFit DEF ForbiddenError, DomainError, Exception
<1>4. Tells(q, ErrorAnswer(q, e, id, "none"), e.status, "none")
    BY <1>2, <1>3, ErrorAnswerFits
<1>5. QED
    BY <1>1, <1>2, <1>3, <1>4

LEMMA WorldTypes ==
    ASSUME TypeOK, WorldStep
    PROVE  TypeOK'
<1>1. ASSUME NEW u \in User, ChangeRoles(u) PROVE TypeOK'
    BY <1>1, PipelineAssumption DEF ChangeRoles, Change, TypeOK
<1>2. CASE KeyExpires
  <2>1. changes' \in 0..MaxChanges
    BY <1>2, PipelineAssumption DEF KeyExpires, Change, TypeOK
  <2>2. QED
    BY <1>2, <2>1 DEF KeyExpires, TypeOK, historyVars
<1>3. CASE BeginShutdown
    BY <1>3, PipelineAssumption DEF BeginShutdown, Change, TypeOK, historyVars
<1>4. CASE UNCHANGED vars
    BY <1>4 DEF vars, worldVars, historyVars, TypeOK
<1>5. QED
    BY <1>1, <1>2, <1>3, <1>4 DEF WorldStep

LEMMA RequestTypes ==
    ASSUME TypeOK, NEW q \in Request, RequestOK(q), RequestStep(q), Recorded(Scope(q))
    PROVE  TypeOK'
<1>0. /\ pc[q] # "over" => call[q] \in Call
      /\ pc[q] = "settle" => raised[q] \in Error /\ Fitting(raised[q], call[q].route)
    BY DEF RequestOK, Admitted, Handled, TypeOK
<1>a. Scope(q) \in Keyspace
    BY ScopeInKeyspace
<1>b. entry \in [Keyspace -> Entry \cup {None}]
        <=> entry \in [User \cup {"anonymous"} -> Entry \cup {None}]
    BY DEF Keyspace
<1>c. \/ Throw(q, NestException(404))
      \/ Throw(q, NestException(409))
      \/ Throw(q, NestException(422))
      => answer' \in [Request -> Told \cup {None}]
  <2>1. CASE Throw(q, NestException(404))
    BY <2>1, NestTells
  <2>2. CASE Throw(q, NestException(409))
    BY <2>2, NestTells
  <2>3. CASE Throw(q, NestException(422))
    BY <2>3, NestTells
  <2>4. QED
    BY <2>1, <2>2, <2>3
<1> USE DEF TypeOK, worldVars, historyVars
<1>1. CASE Receive(q)
  <2>1. answer' \in [Request -> Told \cup {None}]
    <3>1. CASE Answer(q, ErrorAnswer(q, ForbiddenError, EdgeId(q), "none"))
        BY <3>1, ForbiddenTold, AnswerTells DEF Tells
    <3>2. CASE Throw(q, NestException(404))
        BY <3>2, <1>c
    <3>3. CASE UNCHANGED answer
        BY <3>3
    <3>4. QED
        BY <1>1, <3>1, <3>2, <3>3 DEF Receive
  <2>2. roles[call[q].subject] \in RoleChoices \cup {None}
    BY <1>0, <1>1 DEF Call, Receive
  <2>3. pc' \in [Request -> Awaiting \cup {"new", "over"}]
    BY <1>1 DEF Receive, Throw, Answer, Goto, Awaiting
  <2>4. rights' \in [Request -> SUBSET (RoleChoices \cup {None})] /\ keyHeld' \in SUBSET Request
    BY <1>1, <2>2 DEF Receive
  <2>5. QED
    BY <1>1, <2>1, <2>3, <2>4 DEF Receive
<1>2. CASE Authenticate(q)
  <2>1. answer' \in [Request -> Told \cup {None}]
    BY <1>2, ThrowTells, GuardErrorsFit DEF Authenticate
  <2>2. user' \in [Request -> [id : User, roles : RoleChoices] \cup {Nobody}]
    BY <1>0, <1>2 DEF Authenticate, Call, UserInDatabase
  <2>3. pc' \in [Request -> Awaiting \cup {"new", "over"}]
    BY <1>2 DEF Authenticate, Throw, Answer, Goto, Awaiting
  <2>4. QED
    BY <1>2, <2>1, <2>2, <2>3 DEF Authenticate
<1>3. CASE Throttle(q)
  <2>1. answer' \in [Request -> Told \cup {None}]
    BY <1>3, ThrowTells, OtherExceptionsFit DEF Throttle
  <2>2. QED
    BY <1>3, <2>1 DEF Throttle, Throw, Answer, Goto, Awaiting
<1>4. CASE CheckApiKey(q)
  <2>1. answer' \in [Request -> Told \cup {None}]
    BY <1>4, ThrowTells, NestExceptionFits DEF CheckApiKey
  <2>2. QED
    BY <1>4, <2>1 DEF CheckApiKey, Throw, Answer, Goto, Awaiting
<1>5. CASE ReadFails(q)
  <2>1. answer' \in [Request -> Told \cup {None}]
    BY <1>5, ThrowTells, OtherExceptionsFit DEF ReadFails
  <2>2. QED
    BY <1>5, <2>1, PipelineAssumption DEF ReadFails, Fault, Throw, Answer, Goto, Awaiting
<1>7. CASE Succeed(q)
  <2>1. answer' \in [Request -> Told \cup {None}]
    BY <1>7, AnswerTells, SuccessAnswerFits, Zenon DEF Succeed, Tells
  <2>2. produced' \in [Request -> Outcome \cup {None}]
    BY <1>7 DEF Succeed, Produce, Outcome, SuccessStatus, ErrorCodes
  <2>3. pc' \in [Request -> Awaiting \cup {"new", "over"}]
    BY <1>7 DEF Succeed, GoOn, Answer, Goto, Awaiting
  <2>4. roles' \in [User -> RoleChoices \cup {None}]
    BY <1>7 DEF Succeed
  <2>5. QED
    BY <1>7, <2>1, <2>2, <2>3, <2>4 DEF Succeed
<1>8. CASE Fail(q)
  <2>1. PICK e \in Error : /\ Fitting(e, call[q].route)
                          /\ raised' = [raised EXCEPT ![q] = e]
                          /\ Produce(q, e.status, ResponseCode(e))
                          /\ IF Idempotent(q) THEN GoOn(q, "settle") /\ UNCHANGED answer
                             ELSE Throw(q, e)
    BY <1>8, HandlerErrorsFit DEF Fail
  <2>2. answer' \in [Request -> Told \cup {None}]
    BY <2>1, ThrowTells
  <2>3. ResponseCode(e) \in ErrorCodes /\ e.status \in Nat
    BY DEF ResponseCode, Error, InferredCode, ErrorCodes
  <2>4. produced' \in [Request -> Outcome \cup {None}]
    BY <2>1, <2>3 DEF Produce, Outcome
  <2>5. pc' \in [Request -> Awaiting \cup {"new", "over"}]
    BY <2>1 DEF GoOn, Throw, Answer, Goto, Awaiting
  <2>6. QED
    BY <1>8, <2>1, <2>2, <2>4, <2>5 DEF Fail
<1>10. CASE RecordFails(q)
  <2>1. PlainError \in Error
    BY OtherExceptionsFit
  <2>2. QED
    BY <1>10, <2>1, PipelineAssumption DEF RecordFails, Fault, GoOn, Goto, Awaiting
<1>12. CASE SettleFails(q)
  <2>1. answer' \in [Request -> Told \cup {None}]
    BY <1>12, ThrowTells, OtherExceptionsFit DEF SettleFails
  <2>2. QED
    BY <1>12, <2>1, PipelineAssumption DEF SettleFails, Fault, Throw, Answer, Goto, Awaiting
<1>13. CASE TimeOut(q)
  <2>1. ErrorAnswer(q, NestException(408), q, "none") \in Told
    BY TimeOutTold DEF Tells
  <2>2. QED
    BY <1>13, <2>1 DEF TimeOut
<1>6. CASE Claim(q)
  <2>1. answer' \in [Request -> Told \cup {None}]
    <3>1. CASE Throw(q, NestException(409)) \/ Throw(q, NestException(422))
        BY <3>1, <1>c
    <3>2. CASE /\ entry[Scope(q)] # None /\ ~InProgress(Scope(q))
               /\ entry[Scope(q)].hash = Hash(q)
               /\ Replay(q, entry[Scope(q)])
        BY <3>2, ReplayTells
    <3>3. QED
        BY <1>6, <3>1, <3>2 DEF Claim
  <2>2. entry' \in [Keyspace -> Entry \cup {None}]
    <3>1. [state |-> "in_progress", hash |-> Hash(q), origin |-> q, error |-> None] \in Entry
        BY <1>0, <1>6, HashTyped DEF Entry, Claim
    <3>2. QED
        BY <1>6, <1>a, <1>b, <3>1 DEF Claim, Put
  <2>3. QED
    BY <1>6, <2>1, <2>2, <1>b DEF Claim, Replay, GoOn, Throw, Answer, Goto, Awaiting, Keyspace
<1>9. CASE Record(q)
  <2>1. answer' \in [Request -> Told \cup {None}]
    BY <1>9, AnswerTells, SuccessAnswerFits, Zenon DEF Record, Tells
  <2>2. entry' \in [Keyspace -> Entry \cup {None}]
    BY <1>9, <1>a, EntriesTyped DEF Record
  <2>3. QED
    BY <1>9, <2>1, <2>2 DEF Record, Answer, Goto, Awaiting, Keyspace
<1>11. CASE Settle(q)
  <2>1. answer' \in [Request -> Told \cup {None}]
    BY <1>0, <1>11, ThrowTells DEF Settle
  <2>2. entry' \in [Keyspace -> Entry \cup {None}]
    BY <1>0, <1>11, <1>a, EntriesTyped DEF Settle, RecordsResponse
  <2>3. QED
    BY <1>11, <2>1, <2>2 DEF Settle, Throw, Answer, Goto, Awaiting, Keyspace
<1>14. QED
    BY <1>1, <1>2, <1>3, <1>4, <1>5, <1>6, <1>7, <1>8, <1>9, <1>10, <1>11, <1>12, <1>13
    DEF RequestStep, GuardStep, HandlerStep

(***************************************************************************)
(* A step and its own request                                              *)
(***************************************************************************)

\* What a request that goes on from the guards has shown.
LEMMA OwnAdmitted ==
    ASSUME TypeOK, NEW q \in Request, RequestOK(q), RequestStep(q)
    PROVE  Admitted(q)'
<1>0. Admitted(q) /\ pc[q] # "over" /\ call[q] \in Call
    BY OverIsOver DEF RequestOK, Admitted
<1> USE DEF TypeOK, worldVars, historyVars, Admitted, Passed, Reaches, Exists,
       PastGuards, PastApiKey
<1>1. CASE Receive(q)
    BY <1>0, <1>1 DEF Receive, Throw, Answer, Goto, Call
<1>2. CASE Authenticate(q)
    BY <1>0, <1>2 DEF Authenticate, Throw, Answer, Goto, UserInDatabase, Call
<1>3. CASE Throttle(q)
    BY <1>0, <1>3 DEF Throttle, Throw, Answer, Goto
<1>4. CASE CheckApiKey(q)
  <2>1. call[q].route = "health_summary" /\ settings.apiKeys /\ pc'[q] # "over" =>
            KeyFound(q) /\ "internal:read" \in ScopesOf(q)
    BY <1>4 DEF CheckApiKey, ApiKeyGuard, RequiredScopes, Throw, Answer, Goto
  <2>2. KeyFound(q) /\ "internal:read" \in ScopesOf(q) => keyValid /\ call[q].apiKey = "good"
    BY DEF KeyFound, ScopesOf
  <2>3. QED
    BY <1>0, <1>4, <2>1, <2>2 DEF CheckApiKey, Throw, Answer, Goto
<1>5. CASE ReadFails(q) \/ SettleFails(q)
    BY <1>0, <1>5 DEF ReadFails, SettleFails, Throw, Answer, Goto
<1>6. CASE Claim(q)
    BY <1>0, <1>6 DEF Claim, Replay, Throw, Answer, Goto, GoOn
<1>7. CASE Succeed(q)
    BY <1>0, <1>7 DEF Succeed, Answer, Goto, GoOn, Call
<1>8. CASE Fail(q)
    BY <1>0, <1>8 DEF Fail, Throw, Answer, Goto, GoOn
<1>9. CASE Record(q) \/ RecordFails(q)
    BY <1>0, <1>9 DEF Record, RecordFails, Answer, Goto, GoOn
<1>11. CASE Settle(q)
    BY <1>0, <1>11 DEF Settle, Throw, Answer, Goto
<1>13. CASE TimeOut(q)
    BY <1>0, <1>13 DEF TimeOut
<1>14. QED
    BY <1>1, <1>2, <1>3, <1>4, <1>5, <1>6, <1>7, <1>8, <1>9, <1>11, <1>13
    DEF RequestStep, GuardStep, HandlerStep

\* Its handler has run at most once.
LEMMA OwnHandled ==
    ASSUME TypeOK, NEW q \in Request, RequestOK(q), RequestStep(q)
    PROVE  Handled(q)'
<1>0. Handled(q) /\ pc[q] # "over" /\ call[q] \in Call
    BY OverIsOver DEF RequestOK, Admitted
<1>a. Idempotent(q)' = Idempotent(q) /\ call' = call
    BY DEF RequestStep, GuardStep, HandlerStep, Receive, Authenticate, Throttle, CheckApiKey,
           ReadFails, Claim, Succeed, Fail, Record, RecordFails, Settle, SettleFails, TimeOut,
           worldVars, Idempotent
<1> USE DEF TypeOK, historyVars, Handled
<1>1. CASE Receive(q)
    BY <1>0, <1>1, <1>a DEF Receive, Throw, Answer, Goto
<1>2. CASE Authenticate(q)
    BY <1>0, <1>2, <1>a DEF Authenticate, Throw, Answer, Goto
<1>3. CASE Throttle(q)
    BY <1>0, <1>3, <1>a DEF Throttle, Throw, Answer, Goto
<1>4. CASE CheckApiKey(q)
    BY <1>0, <1>4, <1>a DEF CheckApiKey, Throw, Answer, Goto
<1>5. CASE ReadFails(q) \/ SettleFails(q)
    BY <1>0, <1>5, <1>a DEF ReadFails, SettleFails, Throw, Answer, Goto
<1>6. CASE Claim(q)
    BY <1>0, <1>6, <1>a DEF Claim, Replay, Throw, Answer, Goto, GoOn
<1>7. CASE Succeed(q)
    BY <1>0, <1>7, <1>a DEF Succeed, Produce, Answer, Goto, GoOn
<1>8. CASE Fail(q)
  <2>1. PICK e \in Error : /\ Fitting(e, call[q].route)
                          /\ raised' = [raised EXCEPT ![q] = e]
                          /\ Produce(q, e.status, ResponseCode(e))
                          /\ IF Idempotent(q) THEN GoOn(q, "settle") /\ UNCHANGED answer
                             ELSE Throw(q, e)
    BY <1>8, HandlerErrorsFit DEF Fail
  <2>2. e # None
    BY SentinelAssumption
  <2>3. q \notin ran /\ ran' = ran
    BY <1>0, <1>8 DEF Fail
  <2>4. raised'[q] = e /\ produced'[q] = [status |-> e.status, code |-> ResponseCode(e)]
    BY <2>1 DEF Produce
  <2>5. pc'[q] = "over" \/ (pc'[q] = "settle" /\ Idempotent(q))
    BY <2>1 DEF GoOn, Throw, Answer, Goto
  <2> HIDE DEF TypeOK
  <2>6. QED
    BY <1>0, <1>a, <2>1, <2>2, <2>3, <2>4, <2>5
<1>9. CASE Record(q)
    BY <1>0, <1>9, <1>a DEF Record, Answer, Goto
<1>10. CASE RecordFails(q)
  <2>1. /\ PlainError \in Error /\ Fitting(PlainError, call[q].route) /\ PlainError # None
        /\ PlainError.kind # "http"
    BY OtherExceptionsFit, SentinelAssumption DEF PlainError, Exception
  <2>2. QED
    BY <1>0, <1>10, <1>a, <2>1 DEF RecordFails, GoOn, Goto
<1>11. CASE Settle(q)
    BY <1>0, <1>11, <1>a DEF Settle, Throw, Answer, Goto
<1>13. CASE TimeOut(q)
    BY <1>0, <1>13, <1>a DEF TimeOut
<1>14. QED
    BY <1>1, <1>2, <1>3, <1>4, <1>5, <1>6, <1>7, <1>8, <1>9, <1>10, <1>11, <1>13
    DEF RequestStep, GuardStep, HandlerStep

\* An answer that is documented and true leaves Waiting, Fits and Honest.
LEMMA AnswerStands ==
    ASSUME TypeOK, NEW q \in Request, RequestOK(q), pc[q] # "over", call' = call, cut' = cut,
           q \in cut \/ pc'[q] # "over" => answer'[q] = answer[q],
           q \notin cut /\ pc'[q] = "over" =>
                /\ Tells(q, answer'[q], answer'[q].status, answer'[q].replayed)
                /\ q \in ran' /\ answer'[q].status >= 400 => answer'[q].status \in {408, 500}
                /\ answer'[q].status < 400 => q \in ran' \/ answer'[q].replayed = "true"
    PROVE  Waiting(q)' /\ Fits(q)' /\ Honest(q)'
<1>0. Waiting(q) /\ Fits(q) /\ call[q] \in Call
    BY DEF RequestOK, Admitted
<1>1. CASE q \in cut
    BY <1>0, <1>1 DEF Waiting, Fits, Honest, WellFormed
<1>2. CASE q \notin cut /\ pc'[q] # "over"
    BY <1>0, <1>2 DEF Waiting, Fits, Honest
<1>3. CASE q \notin cut /\ pc'[q] = "over"
    BY <1>0, <1>3 DEF Waiting, Fits, Honest, WellFormed, Tells
<1>4. QED
    BY <1>1, <1>2, <1>3

\* Who is told of an error before its handler ran knows that it did not.
LEMMA ThrowStands ==
    ASSUME TypeOK, NEW q \in Request, RequestOK(q), pc[q] # "over", call' = call, cut' = cut,
           NEW e \in Error, Fitting(e, call[q].route), Throw(q, e),
           q \in ran' => e.status = 500
    PROVE  Waiting(q)' /\ Fits(q)' /\ Honest(q)'
<1>1. /\ pc'[q] = "over"
      /\ q \in cut => answer'[q] = answer[q]
      /\ q \notin cut => Tells(q, answer'[q], e.status, "none")
    BY ThrowTells
<1>2. e.status \in Nat /\ e.status >= 400
    BY DEF Error, Fitting
<1>3. QED
    BY <1>1, <1>2, AnswerStands DEF Tells

LEMMA SuccessStands ==
    ASSUME TypeOK, NEW q \in Request, RequestOK(q), pc[q] # "over", call' = call, cut' = cut,
           NEW replayed \in {"none", "false"}, Answer(q, SuccessAnswer(q, q, replayed)),
           q \in ran'
    PROVE  Waiting(q)' /\ Fits(q)' /\ Honest(q)'
<1>1. PICK a : a = SuccessAnswer(q, q, replayed)
    OBVIOUS
<1>2. replayed \in {"none", "true", "false"}
    OBVIOUS
<1>3. Tells(q, SuccessAnswer(q, q, replayed), SuccessStatus(call[q].route), replayed)
    BY <1>2, SuccessAnswerFits, Zenon
<1>4. SuccessStatus(call[q].route) \in {200, 201, 302}
    BY DEF SuccessStatus
<1>5. pc'[q] = "over" /\ answer'[q] = IF q \in cut THEN answer[q] ELSE a
    BY <1>1, AnswerTells
<1>6. QED
    BY <1>1, <1>3, <1>4, <1>5, AnswerStands DEF Tells

LEMMA SilenceStands ==
    ASSUME TypeOK, NEW q \in Request, RequestOK(q), pc[q] # "over", call' = call, cut' = cut,
           pc'[q] # "over" \/ q \in cut, answer' = answer
    PROVE  Waiting(q)' /\ Fits(q)' /\ Honest(q)'
BY AnswerStands

\* Whatever a step tells its client is documented and true.
LEMMA OwnAnswer ==
    ASSUME TypeOK, NEW q \in Request, RequestOK(q), RequestStep(q), Recorded(Scope(q))
    PROVE  Waiting(q)' /\ Fits(q)' /\ Honest(q)'
<1>0. pc[q] # "over" /\ call[q] \in Call /\ Handled(q)
    BY OverIsOver DEF RequestOK, Admitted
<1>a. call' = call
    BY DEF RequestStep, GuardStep, HandlerStep, Receive, Authenticate, Throttle, CheckApiKey,
           ReadFails, Claim, Succeed, Fail, Record, RecordFails, Settle, SettleFails, TimeOut,
           worldVars
<1>b. ASSUME NEW p, Goto(q, p) PROVE pc'[q] = p
    BY <1>b DEF Goto, TypeOK
<1>c. ASSUME NEW p, GoOn(q, p), p # "over" PROVE pc'[q] # "over" \/ q \in cut
    BY <1>c, <1>b DEF GoOn
<1>d. pc[q] \in {"new", "authenticate", "throttle", "api_key", "claim", "handle"} => q \notin ran
    BY <1>0 DEF Handled
<1> USE <1>0, <1>a DEF worldVars, historyVars
<1>1. CASE Receive(q)
  <2>1. q \notin ran' /\ cut' = cut
    BY <1>1, <1>d DEF Receive
  <2>2. CASE Answer(q, ErrorAnswer(q, ForbiddenError, EdgeId(q), "none"))
    <3>1. PICK a : a = ErrorAnswer(q, ForbiddenError, EdgeId(q), "none")
        OBVIOUS
    <3>2. Tells(q, a, 403, "none")
        BY <3>1, ForbiddenTold
    <3>3. pc'[q] = "over" /\ answer'[q] = IF q \in cut THEN answer[q] ELSE a
        BY <2>2, <3>1, AnswerTells
    <3>4. QED
        BY <2>1, <3>2, <3>3, AnswerStands DEF Tells
  <2>3. CASE Throw(q, NestException(404))
    BY <2>1, <2>3, ThrowStands, NestErrorsFit
  <2>4. CASE Goto(q, "authenticate") /\ UNCHANGED answer
    BY <1>b, <2>1, <2>4, SilenceStands
  <2>5. QED
    BY <1>1, <2>2, <2>3, <2>4 DEF Receive
<1>2. CASE Authenticate(q)
  <2>1. q \notin ran' /\ cut' = cut
    BY <1>2, <1>d DEF Authenticate
  <2>2. CASE \/ Throw(q, ToHttpException(UnauthorizedAccessError))
             \/ Throw(q, ToHttpException(ForbiddenAccessError))
    BY <2>1, <2>2, ThrowStands, GuardErrorsFit
  <2>3. CASE Goto(q, "throttle") /\ UNCHANGED answer
    BY <1>b, <2>1, <2>3, SilenceStands
  <2>4. QED
    BY <1>2, <2>2, <2>3 DEF Authenticate
<1>3. CASE Throttle(q)
  <2>1. q \notin ran' /\ cut' = cut
    BY <1>3, <1>d DEF Throttle
  <2>2. CASE Throw(q, ThrottlerException)
    BY <2>1, <2>2, ThrowStands, OtherExceptionsFit
  <2>3. CASE Goto(q, "api_key") /\ UNCHANGED answer
    BY <1>b, <2>1, <2>3, SilenceStands
  <2>4. QED
    BY <1>3, <2>2, <2>3 DEF Throttle
<1>4. CASE CheckApiKey(q)
  <2>1. q \notin ran' /\ cut' = cut
    BY <1>4, <1>d DEF CheckApiKey
  <2>2. CASE Throw(q, NestException(401))
    BY <2>1, <2>2, ThrowStands, NestErrorsFit
  <2>3. CASE (Goto(q, "claim") \/ Goto(q, "handle")) /\ UNCHANGED answer
    BY <1>b, <2>1, <2>3, SilenceStands
  <2>4. QED
    BY <1>4, <2>2, <2>3 DEF CheckApiKey
<1>5. CASE ReadFails(q) \/ SettleFails(q)
  <2>1. PlainError.status = 500
    BY DEF PlainError, Exception
  <2>2. QED
    BY <1>5, <2>1, ThrowStands, OtherExceptionsFit DEF ReadFails, SettleFails
<1>6. CASE Claim(q)
  <2>1. q \notin ran' /\ cut' = cut
    BY <1>6, <1>d DEF Claim
  <2>2. CASE Throw(q, NestException(409)) \/ Throw(q, NestException(422))
    BY <2>1, <2>2, ThrowStands, NestErrorsFit
  <2>3. CASE GoOn(q, "handle") /\ UNCHANGED answer
    BY <1>c, <2>1, <2>3, SilenceStands
  <2>4. CASE /\ entry[Scope(q)] # None /\ ~InProgress(Scope(q))
             /\ entry[Scope(q)].hash = Hash(q) /\ Replay(q, entry[Scope(q)])
    BY <2>1, <2>4, ReplayTells, AnswerStands DEF Tells
  <2>5. QED
    BY <1>6, <2>2, <2>3, <2>4 DEF Claim
<1>7. CASE Succeed(q)
  <2>1. q \in ran' /\ cut' = cut
    BY <1>7 DEF Succeed
  <2>2. CASE Answer(q, SuccessAnswer(q, q, "none"))
    BY <2>1, <2>2, SuccessStands
  <2>3. CASE GoOn(q, "complete") /\ UNCHANGED answer
    BY <1>c, <2>1, <2>3, SilenceStands
  <2>4. QED
    BY <1>7, <2>2, <2>3 DEF Succeed
<1>8. CASE Fail(q)
  <2>1. q \notin ran' /\ cut' = cut
    BY <1>8, <1>d DEF Fail
  <2>2. CASE \E e \in Error : Fitting(e, call[q].route) /\ Throw(q, e)
    BY <2>1, <2>2, ThrowStands
  <2>3. CASE GoOn(q, "settle") /\ UNCHANGED answer
    BY <1>c, <2>1, <2>3, SilenceStands
  <2>4. QED
    BY <1>8, <2>2, <2>3, HandlerErrorsFit DEF Fail
<1>9. CASE Record(q)
  <2>1. q \in ran' /\ cut' = cut /\ Answer(q, SuccessAnswer(q, q, "false"))
    BY <1>9 DEF Record, Handled
  <2>2. QED
    BY <2>1, SuccessStands
<1>10. CASE RecordFails(q)
    BY <1>10, <1>c, SilenceStands DEF RecordFails
<1>11. CASE Settle(q)
  <2>1. PICK e \in Error : e = raised[q]
    BY <1>11 DEF Settle, Handled, TypeOK
  <2>2. Fitting(e, call[q].route) /\ (q \in ran => e.status = 500)
    BY <1>11, <2>1 DEF Settle, Handled, PlainError, Exception
  <2>3. Throw(q, e) /\ cut' = cut /\ ran' = ran
    BY <1>11, <2>1 DEF Settle
  <2>4. QED
    BY <2>2, <2>3, ThrowStands
<1>13. CASE TimeOut(q)
  <2>1. PICK a : a = ErrorAnswer(q, NestException(408), q, "none")
    OBVIOUS
  <2>2. Tells(q, a, 408, "none")
    BY <2>1, TimeOutTold
  <2>3. answer'[q] = a /\ q \in cut' /\ pc' = pc /\ a # None
    BY <1>13, <2>1, <2>2, SentinelAssumption DEF TimeOut, TypeOK, Tells
  <2>4. QED
    BY <2>2, <2>3 DEF Waiting, Fits, Honest, WellFormed, Tells
<1>14. QED
    BY <1>1, <1>2, <1>3, <1>4, <1>5, <1>6, <1>7, <1>8, <1>9, <1>10, <1>11, <1>13
    DEF RequestStep, GuardStep, HandlerStep

(***************************************************************************)
(* Who is entitled                                                         *)
(***************************************************************************)

\* What only an administrator may, RolePermissions gives nobody else.
LEMMA AdminsOnly ==
    ASSUME NEW u, "users:write" \in Permissions(u) \/ "users:delete" \in Permissions(u)
                  \/ "files:write" \in Permissions(u)
    PROVE  "admin" \in u.roles
BY DEF Permissions, RolePermissions

\* Who reaches a handler, and is not refused there, may do what it does.
LEMMA HandledAreEntitled ==
    ASSUME TypeOK, NEW q \in Request, RequestOK(q), pc[q] = "handle",
           Refusals(q) = {} \/ FromCache(q)
    PROVE  EntitledTo(q)
<1> DEFINE c == call[q]
           u == user[q]
<1>1. /\ c \in Call /\ Reaches(c) /\ Exists(c.route)
      /\ RolesGuard(c.route, u) /\ PermissionsGuard(c.route, u)
      /\ NeedsToken(c.route) => /\ c.token = "good" /\ u.id = c.subject
                                /\ u.roles \in rights[q] \ {None}
      /\ c.route = "health_summary" /\ settings.apiKeys => c.apiKey = "good" /\ q \in keyHeld
    BY DEF RequestOK, Admitted, PastGuards, PastApiKey, Passed
<1>2. /\ settings.ipFilter => c.listed
      /\ settings.metricsIpFilter /\ c.route = "metrics" => c.listed
    BY <1>1 DEF Reaches, IpAllowed, MetricsIpAllowed
<1>3. c.route \in Routes \ {"unknown"}
    BY <1>1 DEF Call, Exists
<1>4. ASSUME c.route \in {"logout", "mfa_setup", "mfa_verify", "get_me", "update_user",
                          "delete_user", "list_users", "upload", "create_api_key"}
      PROVE  NeedsToken(c.route)
    BY <1>4 DEF NeedsToken, PublicRoutes, AuthRoutes, HealthProbes, isPublicPath, isHealthProbePath
<1>5. CASE c.route \in {"logout", "mfa_setup", "mfa_verify", "get_me"}
    BY <1>1, <1>2, <1>4, <1>5 DEF EntitledTo, Entitled
<1>6. CASE c.route = "update_user"
  <2>1. MayUpdate(u, c.target)
    BY <1>6 DEF Refusals, FromCache
  <2>2. c.subject = c.target \/ "admin" \in u.roles
    BY <1>1, <1>4, <1>6, <2>1, AdminsOnly DEF MayUpdate
  <2>3. QED
    BY <1>1, <1>2, <1>4, <1>6, <2>2 DEF EntitledTo, Entitled
<1>7. CASE c.route = "delete_user"
  <2>1. MayDelete(u, c.target)
    BY <1>7 DEF Refusals, FromCache
  <2>2. c.subject # c.target /\ "admin" \in u.roles
    BY <1>1, <1>4, <1>7, <2>1, AdminsOnly DEF MayDelete
  <2>3. QED
    BY <1>1, <1>2, <1>4, <1>7, <2>2 DEF EntitledTo, Entitled
<1>8. CASE c.route \in {"list_users", "create_api_key"}
  <2>1. "admin" \in u.roles
    BY <1>1, <1>8 DEF RolesGuard, RequiredRoles
  <2>2. QED
    BY <1>1, <1>2, <1>4, <1>8, <2>1 DEF EntitledTo, Entitled
<1>9. CASE c.route = "upload"
  <2>1. "admin" \in u.roles
    BY <1>1, <1>9, AdminsOnly DEF PermissionsGuard, RequiredPermissions
  <2>2. QED
    BY <1>1, <1>2, <1>4, <1>9, <2>1 DEF EntitledTo, Entitled
<1>10. CASE c.route \in HealthProbes \cup {"metrics", "health_summary"}
                          \cup (AuthRoutes \ {"logout", "mfa_setup", "mfa_verify"})
    BY <1>1, <1>2, <1>10 DEF EntitledTo
<1>11. QED
    BY <1>3, <1>5, <1>6, <1>7, <1>8, <1>9, <1>10 DEF Routes, UserRoutes

\* Being entitled lasts: rights and the API key count from when they were there.
LEMMA OwnEntitled ==
    ASSUME TypeOK, NEW q \in Request, RequestOK(q), RequestStep(q), q \in ran'
    PROVE  EntitledTo(q)'
<1>1. EntitledTo(q)
  <2>1. CASE q \in ran
    BY <2>1 DEF RequestOK
  <2>2. CASE q \notin ran
    <3>1. Succeed(q)
        BY <2>2 DEF RequestStep, GuardStep, HandlerStep, Receive, Authenticate, Throttle,
            CheckApiKey, ReadFails, Claim, Fail, Record, RecordFails, Settle, SettleFails,
            TimeOut, historyVars
    <3>2. QED
        BY <3>1, HandledAreEntitled DEF Succeed
  <2>3. QED
    BY <2>1, <2>2
<1>2. call' = call /\ settings' = settings
    BY DEF RequestStep, GuardStep, HandlerStep, Receive, Authenticate, Throttle, CheckApiKey,
           ReadFails, Claim, Succeed, Fail, Record, RecordFails, Settle, SettleFails, TimeOut,
           worldVars
<1>3. ~Receive(q)
    BY DEF RequestOK, Handled, Receive
<1>4. rights' = rights /\ keyHeld' = keyHeld
    BY <1>3 DEF RequestStep, GuardStep, HandlerStep, Authenticate, Throttle, CheckApiKey,
           ReadFails, Claim, Succeed, Fail, Record, RecordFails, Settle, SettleFails, TimeOut,
           historyVars
<1>5. QED
    BY <1>1, <1>2, <1>4 DEF EntitledTo

LEMMA RequestGoesOn ==
    ASSUME TypeOK, NEW q \in Request, RequestOK(q), RequestStep(q), Recorded(Scope(q))
    PROVE  RequestOK(q)'
BY OwnAdmitted, OwnHandled, OwnAnswer, OwnEntitled DEF RequestOK

(***************************************************************************)
(* Idempotency keys                                                        *)
(***************************************************************************)

\* From its handler on, a request keeps what its row tells of it.
Lasting(p) ==
    /\ call' = call /\ user'[p] = user[p]
    /\ pc'[p] \in {"handle", "complete", "settle", "over"}
    /\ produced[p] # None => produced'[p] = produced[p]

LEMMA LateLasts ==
    ASSUME TypeOK, \A q \in Request : RequestOK(q), [Next]_vars, NEW p \in Request,
           pc[p] \in {"handle", "complete", "settle", "over"}
    PROVE  Lasting(p)
<1>1. CASE Beside(p)
    BY <1>1 DEF Beside, Lasting
<1>2. CASE RequestStep(p)
  <2>1. produced[p] # None => pc[p] # "handle"
    BY DEF RequestOK, Handled
  <2>2. QED
    BY <1>2, <2>1 DEF RequestStep, GuardStep, HandlerStep, Receive, Authenticate, Throttle,
       CheckApiKey, ReadFails, Reads, Claim, Succeed, Fail, Record, RecordFails, Settle,
       SettleFails, TimeOut, Throw, Answer, Goto, GoOn, worldVars, historyVars, TypeOK, Lasting
<1>3. QED
    BY <1>1, <1>2, Steps, WorldBeside, OthersBeside

\* A step changes no row but that of its own scope, and that only when it is
\* free or its own.
LEMMA RowsChange ==
    ASSUME TypeOK, NEW q \in Request, RequestOK(q), Claimed(q), RequestStep(q),
           NEW s \in Keyspace
    PROVE  \/ entry'[s] = entry[s]
           \/ s = Scope(q) /\ (entry[s] = None \/ entry[s].origin = q)
<1>1. CASE UNCHANGED entry
    BY <1>1
<1>2. CASE Claim(q)
    BY <1>2 DEF Claim, Put, TypeOK, Keyspace
<1>3. CASE Record(q) \/ Settle(q)
  <2>1. InProgress(Scope(q)) /\ entry[Scope(q)].origin = q
    BY <1>3 DEF Record, Settle, Claimed, RequestOK, Handled
  <2>2. entry' = [entry EXCEPT ![Scope(q)] = entry'[Scope(q)]]
    BY <1>3, ScopeInKeyspace DEF Record, Settle, Complete, Forget, Put, TypeOK, Keyspace
  <2>3. QED
    BY <2>1, <2>2 DEF TypeOK, Keyspace
<1>4. QED
    BY <1>1, <1>2, <1>3 DEF RequestStep, GuardStep, HandlerStep, Receive, Authenticate, Throttle,
       CheckApiKey, ReadFails, Succeed, Fail, RecordFails, SettleFails, TimeOut

\* The row of a request that is on its way is nobody else's to change.
LEMMA OthersClaimed ==
    ASSUME TypeOK, NEW q \in Request, RequestOK(q), Claimed(q), RequestStep(q),
           NEW p \in Request \ {q}, Claimed(p)
    PROVE  Claimed(p)'
<1>1. Beside(p)
    BY OthersBeside
<1>2. Scope(p)' = Scope(p) /\ Idempotent(p)' = Idempotent(p) /\ pc'[p] = pc[p]
    BY <1>1 DEF Beside, Scope, Idempotent
<1>3. Scope(p) \in Keyspace
    BY ScopeInKeyspace
<1>4. CASE pc[p] \in {"handle", "complete", "settle"} /\ Idempotent(p)
  <2>1. InProgress(Scope(p)) /\ entry[Scope(p)].origin = p
    BY <1>4 DEF Claimed
  <2>2. entry'[Scope(p)] = entry[Scope(p)]
    BY <1>3, <2>1, RowsChange DEF InProgress
  <2>3. QED
    BY <1>2, <2>1, <2>2 DEF Claimed, InProgress
<1>5. QED
    BY <1>2, <1>4 DEF Claimed

LEMMA OwnClaimed ==
    ASSUME TypeOK, NEW q \in Request, RequestOK(q), Claimed(q), RequestStep(q)
    PROVE  Claimed(q)'
<1>1. Scope(q) \in Keyspace
    BY ScopeInKeyspace
<1>2. Idempotent(q)' = Idempotent(q)
    BY DEF RequestStep, GuardStep, HandlerStep, Receive, Authenticate, Throttle, CheckApiKey,
           ReadFails, Claim, Succeed, Fail, Record, RecordFails, Settle, SettleFails, TimeOut,
           worldVars, Idempotent
<1>3. CASE Claim(q)
  <2> DEFINE Fresh == [state |-> "in_progress", hash |-> Hash(q), origin |-> q, error |-> None]
  <2>1. Scope(q)' = Scope(q)
    BY <1>3 DEF Claim, Scope
  <2>2. CASE pc'[q] = "over"
    BY <2>2 DEF Claimed
  <2>3. CASE pc'[q] # "over"
    <3>1. /\ entry[Scope(q)] = None
          /\ Put(Scope(q), Fresh)
        BY <1>3, <2>3 DEF Claim, Replay, Throw, Answer, Goto, TypeOK
    <3>2. entry'[Scope(q)] = Fresh
        BY <1>1, <3>1 DEF Put, TypeOK, Keyspace
    <3>3. entry'[Scope(q)] # None
      <4>1. Fresh \in Entry
        BY <1>3, HashTyped DEF Entry, Claim, RequestOK, Admitted
      <4>2. QED
        BY <3>2, <4>1, SentinelAssumption
    <3>4. QED
        BY <2>1, <3>2, <3>3 DEF Claimed, InProgress
  <2>4. QED
    BY <2>2, <2>3
<1>4. CASE CheckApiKey(q)
    BY <1>2, <1>4 DEF CheckApiKey, Throw, Answer, Goto, TypeOK, Claimed
<1>5. CASE Succeed(q) \/ Fail(q) \/ RecordFails(q) \/ TimeOut(q)
  <2>1. /\ entry' = entry /\ user' = user
        /\ pc'[q] \in {"handle", "complete", "settle"} => pc[q] \in {"handle", "complete", "settle"}
    BY <1>5 DEF Succeed, Fail, RecordFails, TimeOut, Throw, Answer, Goto, GoOn, TypeOK
  <2>2. QED
    BY <1>2, <2>1 DEF Claimed, InProgress, Scope
<1>6. CASE Receive(q) \/ Authenticate(q) \/ Throttle(q) \/ ReadFails(q) \/ Record(q)
           \/ Settle(q) \/ SettleFails(q)
  <2>1. pc'[q] \notin {"handle", "complete", "settle"}
    BY <1>6 DEF Receive, Authenticate, Throttle, ReadFails, Record, Settle, SettleFails,
       Throw, Answer, Goto, TypeOK
  <2>2. QED
    BY <2>1 DEF Claimed
<1>7. QED
    BY <1>3, <1>4, <1>5, <1>6 DEF RequestStep, GuardStep, HandlerStep

\* A completed row stands for a request whose handler is done.
LEMMA RowOutcome ==
    ASSUME TypeOK, NEW s \in Keyspace, Recorded(s), entry[s] # None,
           entry[s].state = "completed"
    PROVE  produced[entry[s].origin] \in Outcome
<1>1. /\ entry[s] \in Entry /\ entry[s].origin \in Request
      /\ produced[entry[s].origin] \in Outcome \cup {None}
    BY DEF TypeOK, Keyspace, Entry
<1>2. CASE entry[s].error = None
    BY <1>2 DEF Recorded, SuccessStatus, Outcome, ErrorCodes
<1>3. CASE entry[s].error # None
  <2>1. PICK e \in Error : e = entry[s].error
    BY <1>1, <1>3 DEF Entry
  <2>2. ResponseCode(e) \in ErrorCodes /\ e.status \in Nat
    BY DEF ResponseCode, Error, InferredCode, ErrorCodes
  <2>3. QED
    BY <1>3, <2>1, <2>2 DEF Recorded, Outcome
<1>4. QED
    BY <1>2, <1>3

\* A row that is not written tells what it told.
LEMMA RowStays ==
    ASSUME TypeOK, \A q \in Request : RequestOK(q), [Next]_vars,
           NEW s \in Keyspace, Recorded(s), entry'[s] = entry[s]
    PROVE  Recorded(s)'
<1>1. CASE entry[s] = None
    BY <1>1 DEF Recorded
<1>2. CASE entry[s] # None
  <2>1. PICK p \in Request : p = entry[s].origin
    BY <1>2 DEF Recorded
  <2>2. PICK e : e = entry[s].error
    OBVIOUS
  <2>3. /\ call[p] \in Call /\ entry[s].hash = Hash(p) /\ Scope(p) = s
        /\ pc[p] \in {"handle", "complete", "settle", "over"}
        /\ NeedsToken(call[p].route) => user[p] # Nobody /\ user[p].id = call[p].subject
        /\ entry[s].state = "completed" =>
              IF e = None
              THEN produced[p] = [status |-> SuccessStatus(call[p].route), code |-> "none"]
              ELSE /\ e.status < 500 /\ Fitting(e, call[p].route)
                   /\ produced[p] = [status |-> e.status, code |-> ResponseCode(e)]
    BY <1>2, <2>1, <2>2 DEF Recorded
  <2>4. Lasting(p)
    BY <2>3, LateLasts
  <2>5. Hash(p)' = Hash(p) /\ Scope(p)' = Scope(p)
    BY <2>4 DEF Lasting, Hash, Scope
  <2>6. entry[s].state = "completed" => produced'[p] = produced[p]
    <3>1. ASSUME entry[s].state = "completed" PROVE produced[p] # None
      <4>1. produced[p] \in Outcome
        BY <1>2, <2>1, <3>1, RowOutcome
      <4>2. QED
        BY <4>1, SentinelAssumption
    <3>2. QED
        BY <2>4, <3>1 DEF Lasting
  <2>7. QED
    BY <1>2, <2>1, <2>2, <2>3, <2>4, <2>5, <2>6 DEF Recorded, Lasting
<1>3. QED
    BY <1>1, <1>2

\* A row is written by the request it is of, with what that had.
LEMMA RowsRecorded ==
    ASSUME TypeOK, \A p \in Request : RequestOK(p), NEW q \in Request, Claimed(q),
           RequestStep(q), NEW s \in Keyspace, Recorded(s)
    PROVE  Recorded(s)'
<1>0. [Next]_vars /\ RequestOK(q) /\ call' = call
    BY DEF Next, RequestStep, GuardStep, HandlerStep, Receive, Authenticate, Throttle, CheckApiKey,
           ReadFails, Claim, Succeed, Fail, Record, RecordFails, Settle, SettleFails, TimeOut,
           worldVars
<1>1. CASE entry'[s] = entry[s]
    BY <1>0, <1>1, RowStays
<1>2. CASE entry'[s] # entry[s] /\ Claim(q)
  <2>1. s = Scope(q)
    BY <1>0, <1>2, RowsChange
  <2>2. /\ entry'[s] = [state |-> "in_progress", hash |-> Hash(q), origin |-> q, error |-> None]
        /\ user' = user /\ GoOn(q, "handle")
    BY <1>2, <2>1 DEF Claim, Put, TypeOK, Keyspace
  <2>3. pc'[q] \in {"handle", "over"}
    BY <2>2 DEF GoOn, Goto, TypeOK
  <2>4. call[q] \in Call /\ (NeedsToken(call[q].route) => user[q].id = call[q].subject)
    BY <1>0, <1>2 DEF RequestOK, Admitted, PastGuards, Passed, Claim
  <2>5. NeedsToken(call[q].route) => user[q] # Nobody
    BY <2>4, SentinelAssumption DEF Call, Nobody
  <2>6. Hash(q)' = Hash(q) /\ Scope(q)' = Scope(q)
    BY <1>0, <2>2 DEF Hash, Scope
  <2>7. QED
    BY <1>0, <2>1, <2>2, <2>3, <2>4, <2>5, <2>6 DEF Recorded
<1>3. CASE entry'[s] # entry[s] /\ Record(q)
  <2>1. s = Scope(q) /\ InProgress(s) /\ entry[s].origin = q
    BY <1>0, <1>3, RowsChange DEF Record, Complete, Claimed, RequestOK, Handled
  <2>2. entry[s] \in Entry
    BY <2>1 DEF InProgress, TypeOK, Keyspace
  <2>3. entry'[s] = [entry[s] EXCEPT !.state = "completed", !.error = None]
    BY <1>3, <2>1 DEF Record, Complete, Put, TypeOK, Keyspace
  <2>4. /\ entry'[s].origin = q /\ entry'[s].hash = entry[s].hash
        /\ entry'[s].state = "completed" /\ entry'[s].error = None
    BY <2>1, <2>2, <2>3 DEF Entry
  <2>5. /\ produced[q] = [status |-> SuccessStatus(call[q].route), code |-> "none"]
        /\ produced' = produced /\ user' = user
    BY <1>0, <1>3 DEF Record, RequestOK, Handled, historyVars
  <2>6. Hash(q)' = Hash(q) /\ Scope(q)' = Scope(q)
    BY <1>0, <2>5 DEF Hash, Scope
  <2>7. pc'[q] = "over"
    BY <1>3 DEF Record, Answer, Goto, TypeOK
  <2>8. QED
    BY <1>0, <2>1, <2>4, <2>5, <2>6, <2>7 DEF Recorded, InProgress
<1>4. CASE entry'[s] # entry[s] /\ Settle(q)
  <2>1. s = Scope(q) /\ InProgress(s) /\ entry[s].origin = q
    BY <1>0, <1>4, RowsChange DEF Settle, Complete, Forget, Claimed, RequestOK, Handled
  <2>2. entry[s] \in Entry
    BY <2>1 DEF InProgress, TypeOK, Keyspace
  <2>3. PICK e \in Error : e = raised[q]
    BY <1>0, <1>4 DEF Settle, RequestOK, Handled, TypeOK
  <2>4. CASE e.kind = "http" /\ e.status < 500
    <3>1. entry'[s] = [entry[s] EXCEPT !.state = "completed", !.error = e]
        BY <1>4, <2>1, <2>3, <2>4 DEF Settle, RecordsResponse, Complete, Put, TypeOK, Keyspace
    <3>2. /\ entry'[s].origin = q /\ entry'[s].hash = entry[s].hash
          /\ entry'[s].state = "completed" /\ entry'[s].error = e
        BY <2>1, <2>2, <3>1 DEF Entry
    <3>3. /\ Fitting(e, call[q].route) /\ e # None
          /\ produced[q] = [status |-> e.status, code |-> ResponseCode(e)]
          /\ produced' = produced /\ user' = user
        BY <1>0, <1>4, <2>3, <2>4 DEF Settle, RequestOK, Handled, historyVars
    <3>4. Hash(q)' = Hash(q) /\ Scope(q)' = Scope(q)
        BY <1>0, <3>3 DEF Hash, Scope
    <3>5. pc'[q] = "over"
        BY <1>4 DEF Settle, Throw, Answer, Goto, TypeOK
    <3>6. QED
        BY <1>0, <2>1, <2>4, <3>2, <3>3, <3>4, <3>5 DEF Recorded, InProgress
  <2>5. CASE ~(e.kind = "http" /\ e.status < 500)
    <3>1. entry'[s] = None
        BY <1>4, <2>1, <2>3, <2>5 DEF Settle, Forget, Put, TypeOK, Keyspace
    <3>2. QED
        BY <3>1 DEF Recorded
  <2>6. QED
    BY <2>4, <2>5
<1>5. QED
    BY <1>1, <1>2, <1>3, <1>4 DEF RequestStep, GuardStep, HandlerStep, Receive, Authenticate,
       Throttle, CheckApiKey, ReadFails, Succeed, Fail, RecordFails, SettleFails, TimeOut

(***************************************************************************)
(* Replays                                                                 *)
(***************************************************************************)

\* What a replay told stays true.
LEMMA ToldStays ==
    ASSUME TypeOK, \A p \in Request : RequestOK(p), [Next]_vars,
           NEW q \in Request, TellsTheSame(q),
           answer'[q] = answer[q], q \in ran' <=> q \in ran
    PROVE  TellsTheSame(q)'
<1>1. CASE answer[q] = None \/ answer[q].replayed # "true"
    BY <1>1 DEF TellsTheSame
<1>2. CASE answer[q] # None /\ answer[q].replayed = "true"
  <2>1. PICK p \in Request \ {q} :
              /\ produced[p] = [status |-> answer[q].status, code |-> answer[q].code]
              /\ call[p].route = call[q].route /\ call[p].target = call[q].target
              /\ call[p].body = call[q].body \/ call[p].route = "upload"
              /\ NeedsToken(call[q].route) => call[p].subject = call[q].subject
    BY <1>2 DEF TellsTheSame
  <2>2. answer[q] \in Told
    BY <1>2 DEF TypeOK
  <2>3. produced[p] \in Outcome
    BY <2>1, <2>2 DEF Told, Outcome
  <2>4. produced[p] # None
    BY <2>3, SentinelAssumption
  <2>5. Lasting(p)
    BY <2>1, <2>4, LateLasts DEF RequestOK, Handled
  <2>6. call' = call /\ produced'[p] = produced[p]
    BY <2>4, <2>5 DEF Lasting
  <2>7. q \notin ran' /\ answer'[q].status < 500
    BY <1>2 DEF TellsTheSame
  <2>8. QED
    BY <2>1, <2>6, <2>7 DEF TellsTheSame
<1>3. QED
    BY <1>1, <1>2

\* Whose row has the same hash in the same scope asked for the same.
LEMMA SameHash ==
    ASSUME NEW q, NEW p, Hash(p) = Hash(q)
    PROVE  /\ call[p].route = call[q].route /\ call[p].target = call[q].target
           /\ call[p].body = call[q].body \/ call[p].route = "upload"
BY DEF Hash

\* Only a claim finds a recorded answer.
LEMMA OnlyClaimReplays ==
    ASSUME TypeOK, NEW q \in Request, RequestOK(q), RequestStep(q), Recorded(Scope(q)),
           answer'[q] # None, answer'[q].replayed = "true",
           answer[q] = None \/ answer[q].replayed # "true"
    PROVE  /\ Claim(q) /\ entry[Scope(q)] # None /\ ~InProgress(Scope(q))
           /\ entry[Scope(q)].hash = Hash(q) /\ Replay(q, entry[Scope(q)])
<1>0. answer'[q] # answer[q]
    OBVIOUS
<1>a. ASSUME NEW e, NEW id, Answer(q, ErrorAnswer(q, e, id, "none")) PROVE FALSE
    BY <1>0, <1>a, AnswerTells DEF ErrorAnswer, AnswerOf
<1>b. ASSUME NEW e, Throw(q, e) PROVE FALSE
    BY <1>a, <1>b DEF Throw
<1>c. ASSUME NEW r \in {"none", "false"}, Answer(q, SuccessAnswer(q, q, r)) PROVE FALSE
    BY <1>0, <1>c, AnswerTells DEF SuccessAnswer, AnswerOf
<1>1. answer' # answer
    BY <1>0
<1>2. ~(Receive(q) \/ Authenticate(q) \/ Throttle(q) \/ CheckApiKey(q) \/ ReadFails(q))
    BY <1>1, <1>a, <1>b DEF Receive, Authenticate, Throttle, CheckApiKey, ReadFails
<1>3. ~(Succeed(q) \/ Fail(q) \/ Record(q) \/ RecordFails(q) \/ Settle(q) \/ SettleFails(q))
    BY <1>1, <1>b, <1>c DEF Succeed, Fail, Record, RecordFails, Settle, SettleFails
<1>4. ~TimeOut(q)
    BY DEF TimeOut, TypeOK, ErrorAnswer, AnswerOf
<1>5. Claim(q)
    BY <1>2, <1>3, <1>4 DEF RequestStep, GuardStep, HandlerStep
<1>6. QED
    BY <1>1, <1>b, <1>5 DEF Claim

\* A request that is told of a replay is told what the other one had.
LEMMA OwnReplay ==
    ASSUME TypeOK, \A p \in Request : RequestOK(p), NEW q \in Request, RequestStep(q),
           Recorded(Scope(q)), TellsTheSame(q)
    PROVE  TellsTheSame(q)'
<1>0. [Next]_vars /\ RequestOK(q) /\ pc[q] # "over"
    BY OverIsOver DEF Next, RequestStep
<1>1. answer[q] = None \/ answer[q].replayed # "true"
    BY <1>0 DEF RequestOK, Waiting
<1>2. CASE answer'[q] = None \/ answer'[q].replayed # "true"
    BY <1>2 DEF TellsTheSame
<1>3. CASE answer'[q] # None /\ answer'[q].replayed = "true"
  <2>1. /\ Claim(q) /\ entry[Scope(q)] # None /\ ~InProgress(Scope(q))
        /\ entry[Scope(q)].hash = Hash(q) /\ Replay(q, entry[Scope(q)])
    BY <1>0, <1>1, <1>3, OnlyClaimReplays
  <2>2. q \notin cut
    BY <1>1, <1>3, <2>1, ReplayTells
  <2>3. PICK p \in Request : p = entry[Scope(q)].origin
    BY <2>1 DEF Recorded
  <2>4. /\ answer'[q].status < 500
        /\ produced[p] = [status |-> answer'[q].status, code |-> answer'[q].code]
    BY <2>1, <2>2, <2>3, ReplayTells
  <2>5. /\ Hash(p) = Hash(q) /\ Scope(p) = Scope(q) /\ pc[p] # "claim"
        /\ NeedsToken(call[p].route) => user[p] # Nobody /\ user[p].id = call[p].subject
    BY <2>1, <2>3 DEF Recorded
  <2>6. p # q /\ q \notin ran
    BY <1>0, <2>1, <2>5 DEF Claim, RequestOK, Handled
  <2>7. /\ call[p].route = call[q].route /\ call[p].target = call[q].target
        /\ call[p].body = call[q].body \/ call[p].route = "upload"
    BY <2>5, SameHash
  <2>8. NeedsToken(call[q].route) => call[p].subject = call[q].subject
    <3>1. NeedsToken(call[q].route) => user[q] # Nobody /\ user[q].id = call[q].subject
        BY <1>0, <2>1, SentinelAssumption DEF Claim, RequestOK, Admitted, PastGuards, Passed,
            Call, Nobody
    <3>2. QED
        BY <2>5, <2>7, <3>1 DEF Scope
  <2>9. call' = call /\ ran' = ran /\ produced' = produced
    BY <2>1 DEF Claim, worldVars, historyVars
  <2>10. QED
    BY <2>3, <2>4, <2>6, <2>7, <2>8, <2>9 DEF TellsTheSame
<1>4. QED
    BY <1>2, <1>3

(***************************************************************************)
(* The invariant                                                           *)
(***************************************************************************)

LEMMA InitIInv ==
    Init => IInv
<1> SUFFICES ASSUME Init PROVE IInv
    OBVIOUS
<1>1. TypeOK
  <2>1. call \in [Request -> Call \cup {None}]
    BY PipelineAssumption DEF Init
  <2>2. faults \in 0..MaxFaults /\ changes \in 0..MaxChanges
    BY PipelineAssumption DEF Init
  <2>3. pc \in [Request -> Awaiting \cup {"new", "over"}]
    BY DEF Init
  <2>4. user \in [Request -> [id : User, roles : RoleChoices] \cup {Nobody}]
    BY DEF Init
  <2>5. /\ raised \in [Request -> Error \cup {None}] /\ answer \in [Request -> Told \cup {None}]
        /\ produced \in [Request -> Outcome \cup {None}]
        /\ rights \in [Request -> SUBSET (RoleChoices \cup {None})]
        /\ entry \in [User \cup {"anonymous"} -> Entry \cup {None}]
    BY DEF Init
  <2>6. /\ roles \in [User -> RoleChoices \cup {None}]
        /\ keyValid \in BOOLEAN /\ shuttingDown \in BOOLEAN
        /\ cut \in SUBSET Request /\ keyHeld \in SUBSET Request /\ ran \in SUBSET Request
    BY DEF Init
  <2>7. QED
    BY <2>1, <2>2, <2>3, <2>4, <2>5, <2>6 DEF TypeOK
<1>2. ASSUME NEW q \in Request
      PROVE  RequestOK(q) /\ Claimed(q) /\ TellsTheSame(q)
  <2>1. pc[q] \in {"new", "over"} /\ (pc[q] # "over" => call[q] \in Call)
    BY PipelineAssumption DEF Init
  <2>2. answer[q] = None /\ produced[q] = None /\ q \notin ran /\ q \notin cut
    BY DEF Init
  <2>3. QED
    BY <2>1, <2>2 DEF RequestOK, Admitted, PastGuards, PastApiKey, Handled, Waiting, Fits, Honest,
       Claimed, TellsTheSame
<1>3. ASSUME NEW s \in Keyspace PROVE Recorded(s)
    BY DEF Init, Keyspace, Recorded
<1>4. QED
    BY <1>1, <1>2, <1>3 DEF IInv

LEMMA NextIInv ==
    IInv /\ [Next]_vars => IInv'
<1> SUFFICES ASSUME IInv, [Next]_vars PROVE IInv'
    OBVIOUS
<1>0. /\ TypeOK /\ \A q \in Request : RequestOK(q) /\ Claimed(q) /\ TellsTheSame(q)
      /\ \A s \in Keyspace : Recorded(s)
    BY DEF IInv
<1>1. CASE WorldStep
  <2>1. ASSUME NEW q \in Request PROVE Beside(q) /\ UNCHANGED <<entry, pc, user, produced, call>>
    BY <1>0, <1>1, WorldBeside
  <2>2. entry' = entry
    BY <1>1 DEF WorldStep, ChangeRoles, KeyExpires, BeginShutdown, vars
  <2>3. TypeOK'
    BY <1>0, <1>1, WorldTypes
  <2>4. ASSUME NEW q \in Request PROVE (RequestOK(q) /\ Claimed(q) /\ TellsTheSame(q))'
    <3>1. RequestOK(q)'
        BY <1>0, <2>1, BesideKeeps
    <3>2. Claimed(q)'
        BY <1>0, <2>1 DEF Beside, Claimed, Idempotent, InProgress, Scope
    <3>3. TellsTheSame(q)'
        BY <1>0, <2>1, ToldStays DEF Beside
    <3>4. QED
        BY <3>1, <3>2, <3>3
  <2>5. ASSUME NEW s \in Keyspace PROVE Recorded(s)'
    BY <1>0, <2>2, RowStays
  <2>6. QED
    BY <2>3, <2>4, <2>5 DEF IInv, Keyspace
<1>2. ASSUME NEW q \in Request, RequestStep(q) PROVE IInv'
  <2>1. Recorded(Scope(q))
    BY <1>0, ScopeInKeyspace
  <2>2. TypeOK'
    BY <1>0, <1>2, <2>1, RequestTypes
  <2>3. RequestOK(q)' /\ Claimed(q)' /\ TellsTheSame(q)'
    BY <1>0, <1>2, <2>1, RequestGoesOn, OwnClaimed, OwnReplay
  <2>4. ASSUME NEW p \in Request \ {q} PROVE RequestOK(p)' /\ Claimed(p)' /\ TellsTheSame(p)'
    <3>1. Beside(p)
        BY <1>0, <1>2, OthersBeside
    <3>2. RequestOK(p)'
        BY <1>0, <3>1, BesideKeeps
    <3>3. Claimed(p)'
        BY <1>0, <1>2, OthersClaimed
    <3>4. TellsTheSame(p)'
        BY <1>0, <3>1, ToldStays DEF Beside
    <3>5. QED
        BY <3>2, <3>3, <3>4
  <2>5. ASSUME NEW s \in Keyspace PROVE Recorded(s)'
    BY <1>0, <1>2, RowsRecorded
  <2>6. QED
    BY <2>2, <2>3, <2>4, <2>5 DEF IInv, Keyspace
<1>3. QED
    BY <1>1, <1>2, Steps

\* The inductive invariant: how far the guards have let every request, what
\* became of it, and what its row and its answer tell.
THEOREM HttpInvariant ==
    Spec => []IInv
BY InitIInv, NextIInv, PTL DEF Spec

\* Requests, users, keys and answers are what they are declared to be.
THEOREM HttpTypeOK ==
    Spec => []TypeOK
<1>1. IInv => TypeOK
    BY DEF IInv
<1>2. QED
    BY <1>1, HttpInvariant, PTL

\* What was performed was asked for by someone who had the rights for it, by
\* the guards, the allowlists and the use cases together.
THEOREM HttpHandlerIsEntitled ==
    Spec => []HandlerIsEntitled
<1>1. IInv => HandlerIsEntitled
    BY DEF IInv, TypeOK, RequestOK, EntitledTo, HandlerIsEntitled
<1>2. QED
    BY <1>1, HttpInvariant, PTL

\* Status, code, shape and request id of every answer agree, and who is told of
\* a refusal knows that nothing was done.
THEOREM HttpAnswerFits ==
    Spec => []AnswerFits
<1>1. IInv => AnswerFits
    BY DEF IInv, RequestOK, Fits, WellFormed, Honest, AnswerFits
<1>2. QED
    BY <1>1, HttpInvariant, PTL

\* A replay tells what another request of the same caller, for the same route,
\* target and body, was answered with.
THEOREM HttpReplayTellsTheSame ==
    Spec => []ReplayTellsTheSame
<1>1. IInv => ReplayTellsTheSame
    BY DEF IInv, TellsTheSame, ReplayTellsTheSame
<1>2. QED
    BY <1>1, HttpInvariant, PTL

=============================================================================
