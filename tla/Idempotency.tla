---------------------------- MODULE Idempotency ----------------------------
(***************************************************************************)
(* Inbound idempotency: requests that carry one Idempotency-Key in one     *)
(* scope (a client and its retries), IdempotencyInterceptor around the     *)
(* handler of each, the row of idempotency_keys they share, and            *)
(* RequestTimeoutInterceptor around the whole.  Rows of different keys     *)
(* never meet, so one key stands for all.                                  *)
(*                                                                         *)
(* A request that times out is answered, but nothing stops what it awaits: *)
(* the statement or the handler under way runs to its end, and only what   *)
(* the pipe would have done next is dropped.                               *)
(***************************************************************************)
EXTENDS Naturals, FiniteSets

CONSTANTS
    Request,            \* requests with this key, retries included
    OtherBody,          \* those whose method, path or body is not the first one's
    NoRecord,           \* no row for the key
    TTLOutlivesRequests, \* no handler is still running when its row expires
    MaxFaults           \* bound: failed calls and crashes

ASSUME OtherBodyIsOfRequests == OtherBody \subseteq Request
ASSUME TTLIsBoolean == TTLOutlivesRequests \in BOOLEAN
ASSUME FaultsAreBounded == MaxFaults \in Nat

VARIABLES
    record,     \* the row of the key, or NoRecord
    pc,         \* pc[q]: what request q awaits
    seen,       \* seen[q]: the request that inserted the row q has read
    cut,        \* cut[q]: q has been answered 408, its pipe is unsubscribed
    outcome,    \* outcome[q]: how the handler of q ended
    reply,      \* reply[q]: what the client of q was told
    committed,  \* history: requests whose command committed, this TTL window
    forgotten,  \* history: those of them whose row was removed again
    faults

vars == <<record, pc, seen, cut, outcome, reply, committed, forgotten, faults>>

sameBody(q, p) == (q \in OtherBody) = (p \in OtherBody)

\* What a handler may answer; what the interceptors may answer in its place.
Outcome == {"ok", "4xx", "5xx"}
Refusal == {"408", "409", "422", "500"}
Response == Request \X {"ok", "4xx"}
NoResponse == <<"none", "none">>

Record == [owner : Request, status : {"in_progress", "completed"},
           response : Response \cup {NoResponse}, expired : BOOLEAN]

ASSUME NoRecordIsNotARow == NoRecord \notin Record

Claiming == {"purge", "insert", "read", "drop"}
Working == {"handle", "complete", "forget", "fail"}

Present == record # NoRecord
InProgress == Present /\ record.status = "in_progress"

TypeOK ==
    /\ record \in Record \cup {NoRecord}
    /\ Present => (record.status = "completed" <=> record.response # NoResponse)
    /\ pc \in [Request -> Claiming \cup Working \cup {"new", "done"}]
    /\ seen \in [Request -> Request]
    /\ cut \in [Request -> BOOLEAN]
    /\ outcome \in [Request -> Outcome \cup {"none"}]
    /\ reply \in [Request -> Response \cup {<<"none", x>> : x \in Refusal \cup {"none"}}]
    /\ committed \in SUBSET Request
    /\ forgotten \in SUBSET committed
    /\ faults \in 0..MaxFaults

Init ==
    /\ record = NoRecord
    /\ pc = [q \in Request |-> "new"]
    /\ seen = [q \in Request |-> q]
    /\ cut = [q \in Request |-> FALSE]
    /\ outcome = [q \in Request |-> "none"]
    /\ reply = [q \in Request |-> NoResponse]
    /\ committed = {}
    /\ forgotten = {}
    /\ faults = 0

Fault == faults < MaxFaults /\ faults' = faults + 1

\* The pipe goes on to p, unless it was unsubscribed meanwhile.
GoOn(q, p) == pc' = [pc EXCEPT ![q] = IF cut[q] THEN "done" ELSE p]

\* The request ends; its client hears r unless it was told 408 already.
Answer(q, r) ==
    /\ pc' = [pc EXCEPT ![q] = "done"]
    /\ reply' = IF cut[q] THEN reply ELSE [reply EXCEPT ![q] = r]

Refuse(q, code) == Answer(q, <<"none", code>>)

(***************************************************************************)
(* claim                                                                   *)
(***************************************************************************)
\* Wrong on purpose: the claim looks again without trying to insert again.
LooksAgain(q) == pc' = [pc EXCEPT ![q] = "read"]

\* The claim starts again from the beginning.
ClaimAgain(q) == pc' = [pc EXCEPT ![q] = "purge"]

Receive(q) ==
    /\ pc[q] = "new"
    /\ pc' = [pc EXCEPT ![q] = "purge"]
    /\ UNCHANGED <<record, seen, cut, outcome, reply, committed, forgotten, faults>>

Purge(q) ==
    /\ pc[q] = "purge"
    /\ record' = IF Present /\ record.expired THEN NoRecord ELSE record
    /\ pc' = [pc EXCEPT ![q] = "insert"]
    /\ UNCHANGED <<seen, cut, outcome, reply, committed, forgotten, faults>>

RecordOf(q) ==
    [owner |-> q, status |-> "in_progress", response |-> NoResponse, expired |-> FALSE]

\* Wrong on purpose: an upsert that takes over a row in progress.
FreeUnlessCompleted == ~Present \/ InProgress

KeyFree == ~Present

Insert(q) ==
    /\ pc[q] = "insert"
    /\ KeyFree
    /\ record' = RecordOf(q)
    /\ GoOn(q, "handle")
    /\ UNCHANGED <<seen, cut, outcome, reply, committed, forgotten, faults>>

InsertConflicts(q) ==
    /\ pc[q] = "insert"
    /\ ~KeyFree
    /\ pc' = [pc EXCEPT ![q] = "read"]
    /\ UNCHANGED <<record, seen, cut, outcome, reply, committed, forgotten, faults>>

\* Wrong on purpose: the hash is not compared.
AnyBodyMatches(q) == Present

BodyMatches(q) == sameBody(q, record.owner)

\* The row that was in the way: gone, expired, completed or in progress.
Read(q) ==
    /\ pc[q] = "read"
    /\ \/ /\ ~Present
          /\ ClaimAgain(q)
          /\ UNCHANGED <<seen, reply>>
       \/ /\ Present
          /\ record.expired
          /\ seen' = [seen EXCEPT ![q] = record.owner]
          /\ pc' = [pc EXCEPT ![q] = "drop"]
          /\ UNCHANGED reply
       \/ /\ Present
          /\ ~record.expired
          /\ \/ record.status = "completed" /\ BodyMatches(q) /\ Answer(q, record.response)
             \/ record.status = "completed" /\ ~BodyMatches(q) /\ Refuse(q, "422")
             \/ record.status = "in_progress" /\ Refuse(q, "409")
          /\ UNCHANGED seen
    /\ UNCHANGED <<record, cut, outcome, committed, forgotten, faults>>

\* The expired row is deleted by its id, and the claim starts again.
Drop(q) ==
    /\ pc[q] = "drop"
    /\ record' = IF Present /\ record.owner = seen[q] THEN NoRecord ELSE record
    /\ ClaimAgain(q)
    /\ UNCHANGED <<seen, cut, outcome, reply, committed, forgotten, faults>>

\* A statement of the claim fails, and with it the request; an insert may
\* have been made all the same.
ClaimFails(q) ==
    /\ pc[q] \in Claiming
    /\ Fault
    /\ \/ UNCHANGED record
       \/ pc[q] = "insert" /\ KeyFree /\ record' = RecordOf(q)
    /\ Refuse(q, "500")
    /\ UNCHANGED <<seen, cut, outcome, committed, forgotten>>

(***************************************************************************)
(* The handler, and the row afterwards                                     *)
(***************************************************************************)

\* Pipes, controller and use case: the command commits and its result is
\* the body; or it is refused (4xx) or fails (5xx) with nothing committed;
\* or the commit is made and its acknowledgement lost, which is a 5xx.
Handle(q) ==
    /\ pc[q] = "handle"
    /\ \/ /\ \E o \in Outcome :
                /\ outcome' = [outcome EXCEPT ![q] = o]
                /\ committed' = IF o = "ok" THEN committed \cup {q} ELSE committed
                /\ GoOn(q, IF o = "ok" THEN "complete" ELSE "fail")
          /\ UNCHANGED faults
       \/ /\ Fault
          /\ outcome' = [outcome EXCEPT ![q] = "5xx"]
          /\ committed' = committed \cup {q}
          /\ GoOn(q, "fail")
    /\ UNCHANGED <<record, seen, cut, reply, forgotten>>

\* Wrong on purpose: the response is stored and the status left as it was.
StoredOnly(r) == IF InProgress THEN [record EXCEPT !.response = r] ELSE record

\* UPDATE ... WHERE status = in_progress, whoever inserted the row.
Completed(r) ==
    IF InProgress
    THEN [record EXCEPT !.status = "completed", !.response = r]
    ELSE record

Complete(q) ==
    /\ pc[q] = "complete"
    /\ record' = Completed(<<q, "ok">>)
    /\ Answer(q, <<q, "ok">>)
    /\ UNCHANGED <<seen, cut, outcome, committed, forgotten, faults>>

\* complete() rejects after the command has committed, its update made or
\* not: catchError takes it for a failure of the handler.
CompleteFails(q) ==
    /\ pc[q] = "complete"
    /\ Fault
    /\ record' \in {record, Completed(<<q, "ok">>)}
    /\ GoOn(q, "forget")
    /\ UNCHANGED <<seen, cut, outcome, reply, committed, forgotten>>

\* Wrong on purpose: the row is deleted whatever its status.
DeletesAnyStatus == Present

\* deleteInProgress: DELETE ... WHERE status = in_progress.
DeletesRow == InProgress

\* A refusal is recorded as the response.
RecordRefusal(q) ==
    /\ pc[q] = "fail"
    /\ outcome[q] = "4xx"
    /\ record' = Completed(<<q, "4xx">>)
    /\ Answer(q, <<q, "4xx">>)
    /\ UNCHANGED <<seen, cut, outcome, committed, forgotten, faults>>

DeleteInProgress ==
    IF DeletesRow
    THEN /\ record' = NoRecord
         /\ forgotten' = forgotten \cup (committed \cap {record.owner})
    ELSE UNCHANGED <<record, forgotten>>

Forgets(q) == pc[q] = "forget" \/ (pc[q] = "fail" /\ outcome[q] = "5xx")

\* After any other failure the row is removed, to allow a retry.
Forget(q) ==
    /\ Forgets(q)
    /\ DeleteInProgress
    /\ Refuse(q, "500")
    /\ UNCHANGED <<seen, cut, outcome, committed, faults>>

\* The statement of handleFailure fails, made or not; if it is not, the row
\* stays in progress.
HandleFailureFails(q) ==
    /\ pc[q] \in {"forget", "fail"}
    /\ Fault
    /\ \/ UNCHANGED <<record, forgotten>>
       \/ ~Forgets(q) /\ record' = Completed(<<q, "4xx">>) /\ UNCHANGED forgotten
       \/ Forgets(q) /\ DeleteInProgress
    /\ Refuse(q, "500")
    /\ UNCHANGED <<seen, cut, outcome, committed>>

(***************************************************************************)
(* Time and crashes                                                        *)
(***************************************************************************)

\* HTTP_REQUEST_TIMEOUT_MS pass.
TimeOut(q) ==
    /\ pc[q] \in Claiming \cup Working
    /\ ~cut[q]
    /\ cut' = [cut EXCEPT ![q] = TRUE]
    /\ reply' = [reply EXCEPT ![q] = <<"none", "408">>]
    /\ UNCHANGED <<record, pc, seen, outcome, committed, forgotten, faults>>

\* The process that serves q is gone.
Die(q) ==
    /\ pc[q] \in Claiming \cup Working
    /\ Fault
    /\ pc' = [pc EXCEPT ![q] = "done"]
    /\ UNCHANGED <<record, seen, cut, outcome, reply, committed, forgotten>>

\* IDEMPOTENCY_TTL_HOURS (at least one) have passed since the row was
\* inserted: a new window begins.
RecordExpires ==
    /\ Present
    /\ ~record.expired
    /\ TTLOutlivesRequests => pc[record.owner] = "done"
    /\ record' = [record EXCEPT !.expired = TRUE]
    /\ committed' = {}
    /\ forgotten' = {}
    /\ UNCHANGED <<pc, seen, cut, outcome, reply, faults>>

\* Wrong on purpose: a purge that passes over rows in progress, and one that
\* does not look at expires_at.
CleansCompleted == Present /\ record.expired /\ ~InProgress
CleansUnexpired == Present

Cleans == Present /\ record.expired

\* IdempotencyCleanupService.deleteExpiredKeys.
Cleanup ==
    /\ Cleans
    /\ record' = NoRecord
    /\ UNCHANGED <<pc, seen, cut, outcome, reply, committed, forgotten, faults>>

(***************************************************************************)
(* Specification                                                           *)
(***************************************************************************)
Step(q) ==
    \/ Purge(q) \/ Insert(q) \/ InsertConflicts(q) \/ Read(q) \/ Drop(q) \/ ClaimFails(q)
    \/ Handle(q) \/ Complete(q) \/ CompleteFails(q)
    \/ RecordRefusal(q) \/ Forget(q) \/ HandleFailureFails(q)

Next ==
    \/ \E q \in Request : Receive(q) \/ Step(q) \/ TimeOut(q) \/ Die(q)
    \/ RecordExpires \/ Cleanup

Spec == Init /\ [][Next]_vars

\* What is awaited returns or fails, the clock goes on and the cron fires.
\* No request has to come, time out or die.
Fairness ==
    /\ \A q \in Request : WF_vars(Step(q))
    /\ WF_vars(RecordExpires)
    /\ WF_vars(Cleanup)

FairSpec == Spec /\ Fairness

(***************************************************************************)
(* Properties                                                              *)
(***************************************************************************)

\* Two requests with the same key are never past the claim at once, not even
\* when one of them was answered 408 and its handler still runs.
OneHandlerAtATime ==
    \A q, p \in Request : pc[q] \in Working /\ pc[p] \in Working => q = p

\* A command is executed again in the same TTL window only after the row of
\* the execution before was removed (5xx, or complete() failed): never
\* through a timeout, a crash or a race of claims.
AtMostOnceUnlessForgotten ==
    \A q, p \in committed \ forgotten : q = p

\* What is replayed to a request is what a handler answered to a request with
\* the same method, path and body.
ReplayIsOriginal ==
    \A q, p \in Request :
        /\ reply[q] = <<p, "ok">> => outcome[p] = "ok" /\ sameBody(q, p)
        /\ reply[q] = <<p, "4xx">> => outcome[p] = "4xx" /\ sameBody(q, p)

\* Once a response is recorded, nothing but the end of the window changes or
\* removes it: not a late complete() or deleteInProgress of another request.
RecordedIsFinal ==
    [][Present /\ record.status = "completed" /\ ~record.expired
         => record' \in {record, [record EXCEPT !.expired = TRUE]}]_vars

\* A key does not stay in progress for good, although its owner may be gone.
KeyIsFreed == InProgress ~> ~InProgress

\* Every request that came is served to its end, however often the claim has
\* to start again, unless faults end it.
RequestEnds == \A q \in Request : pc[q] = "purge" ~> pc[q] = "done"

\* What the documentation says: exactly once per key within the TTL window.
ExactlyOnce == \A q, p \in committed : q = p

=============================================================================
