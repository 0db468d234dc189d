------------------------------ MODULE HttpErrors ------------------------------
(***************************************************************************)
(* What a request may fail with, and what HttpExceptionFilter makes of it. *)
(*                                                                         *)
(* An exception is a record: the status and the code it stands for; its    *)
(* kind, which is what instanceof tells apart; and the form of its body:   *)
(* a ResponseDto, a bare string, the object Nest builds around a message,  *)
(* or what Terminus reports.                                               *)
(***************************************************************************)
EXTENDS Naturals

\* The codes of a ResponseDto; "none" is a body without one.
ErrorCodes == {
    "E-CONFIG", "E-VALIDATION", "E-UNAUTHORIZED", "E-FORBIDDEN", "E-NOT-FOUND", "E-CONFLICT",
    "E-THROTTLE", "E-DB", "E-CONCURRENCY", "E-EXT-SERVICE", "E-CIRCUIT-OPEN", "E-UNEXPECTED",
    "E-AUTH-001", "E-AUTH-002", "E-AUTH-003", "E-AUTH-004", "E-AUTH-005", "E-AUTH-006",
    "E-AUTH-007", "E-AUTH-008", "E-AUTH-009", "none"}

Exception(k, s, f, c) == [kind |-> k, status |-> s, form |-> f, code |-> c]

\* inferErrorCodeFromStatus: 408, 413 and 422 are not in the map.
InferredCode(s) ==
    CASE s = 400 -> "E-VALIDATION"
      [] s = 401 -> "E-UNAUTHORIZED"
      [] s = 403 -> "E-FORBIDDEN"
      [] s = 404 -> "E-NOT-FOUND"
      [] s = 409 -> "E-CONFLICT"
      [] s = 429 -> "E-THROTTLE"
      [] s = 503 -> "E-EXT-SERVICE"
      [] OTHER   -> "E-UNEXPECTED"

(***************************************************************************)
(* DomainError and its subclasses                                          *)
(***************************************************************************)
DomainError(s, c) == Exception("domain", s, "dto", c)

ValidationError == DomainError(400, "E-VALIDATION")
ForbiddenError == DomainError(403, "E-FORBIDDEN")
NotFoundError == DomainError(404, "E-NOT-FOUND")
ConcurrencyConflictError == DomainError(409, "E-CONCURRENCY")
DatabaseError == DomainError(500, "E-DB")
UnexpectedError == DomainError(500, "E-UNEXPECTED")

InvalidCredentialsError == DomainError(401, "E-AUTH-001")
EmailAlreadyExistsError == DomainError(409, "E-AUTH-002")
InvalidRefreshTokenError == DomainError(401, "E-AUTH-003")
UnauthorizedAccessError == DomainError(401, "E-AUTH-004")
ForbiddenAccessError == DomainError(403, "E-AUTH-005")
RefreshTokenReuseDetectedError == DomainError(401, "E-AUTH-006")
EmailNotVerifiedError == DomainError(401, "E-AUTH-007")
InvalidAuthTokenError == DomainError(401, "E-AUTH-008")
InvalidMfaCodeError == DomainError(401, "E-AUTH-009")

\* toHttpException: an HttpException around ResponseDto.error(message, code).
ToHttpException(e) == [e EXCEPT !.kind = "http"]

(***************************************************************************)
(* Other exceptions                                                        *)
(***************************************************************************)

\* BadRequestException(message), UnauthorizedException(message), ...
NestException(s) == Exception("http", s, "message", InferredCode(s))

\* ThrottlerException: its body is a string.
ThrottlerException == Exception("http", 429, "text", InferredCode(429))

\* BadRequestException(ResponseDto.error(...)) of the ValidationPipe.
ValidationFailed == ToHttpException(ValidationError)

\* ServiceUnavailableException around the report of a health check.
TerminusException == Exception("http", 503, "terminus", "none")

\* Any other Error.
PlainError == Exception("plain", 500, "message", "E-UNEXPECTED")

(***************************************************************************)
(* HttpExceptionFilter                                                     *)
(***************************************************************************)

\* toResponseDto: the code of a ResponseDto is kept, any other body has the
\* code of its status.
ResponseCode(e) == IF e.form = "dto" THEN e.code ELSE InferredCode(e.status)

\* The report of a health check passes as it is on the path of a probe; any
\* other failure is an envelope, or problem details for who accepts them.
ErrorShape(e, probe, problem) ==
    CASE probe /\ e.form = "terminus" -> "terminus"
      [] problem /\ ~(probe /\ e.form = "terminus") -> "problem"
      [] OTHER -> "envelope"

=============================================================================
