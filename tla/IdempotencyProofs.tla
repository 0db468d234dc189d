-------------------------- MODULE IdempotencyProofs --------------------------
(***************************************************************************)
(* What holds of Idempotency for every number of requests, bodies and      *)
(* faults, with proofs.  All of it rests on TTLOutlivesRequests: the       *)
(* updates of complete and deleteInProgress name the key and not the       *)
(* request, so a row that expired under a running handler could be taken   *)
(* for the row of the request that claimed the key next.                   *)
(***************************************************************************)
EXTENDS Idempotency, TLAPS

(***************************************************************************)
(* The inductive invariant                                                 *)
(***************************************************************************)

\* The row belongs to the one request that is past the claim, and stays in
\* progress until that request completes or removes it.
OwnerInv ==
    /\ Present => pc[record.owner] \in Working \cup {"done"}
    /\ Present /\ record.expired => pc[record.owner] = "done"
    /\ \A q \in Request : pc[q] \in Working =>
        /\ Present
        /\ record.owner = q
        /\ pc[q] # "forget" => record.status = "in_progress"

\* A row read as expired is never the row of a later request.
SeenInv ==
    \A q \in Request : pc[q] = "drop" =>
        /\ pc[seen[q]] \in {"done"}
        /\ Present /\ record.owner = seen[q] => record.expired

\* A command committed in this window is forgotten or its row is there.
CommitInv ==
    \A p \in committed \ forgotten :
        Present /\ record.owner = p /\ ~record.expired

\* The outcome of a handler is set once, when it ends.
OutcomeInv ==
    \A q \in Request :
        /\ outcome[q] # "none" => pc[q] \in {"complete", "forget", "fail", "done"}
        /\ pc[q] \in {"complete", "forget"} => outcome[q] = "ok"
        /\ pc[q] = "fail" => outcome[q] \in {"4xx", "5xx"}

\* A response on record is the one the handler of its owner gave.
ResponseInv ==
    Present /\ record.status = "completed" =>
        record.response = <<record.owner, outcome[record.owner]>>

IInv ==
    /\ TypeOK
    /\ OwnerInv
    /\ SeenInv
    /\ CommitInv
    /\ OutcomeInv
    /\ ResponseInv
    /\ ReplayIsOriginal

(***************************************************************************)
(* Initial states and steps                                                *)
(***************************************************************************)
USE OtherBodyIsOfRequests, TTLIsBoolean, FaultsAreBounded
USE DEF Present, InProgress, Claiming, Working, GoOn, Answer, Refuse, ClaimAgain, Fault,
        KeyFree, DeletesRow, DeleteInProgress, Forgets, Cleans

\* Nothing has happened: no row, no request past the start.
LEMMA InitIInv == Init => IInv
  BY DEF Init, IInv, TypeOK, OwnerInv, SeenInv, CommitInv, OutcomeInv, ResponseInv,
         ReplayIsOriginal, NoResponse, Response

\* What complete() does to the row: it records the response of q in a row in
\* progress.
Recorded(q, k) ==
    /\ Present /\ record.status = "in_progress"
    /\ record' \in Record /\ record' # NoRecord
    /\ record'.owner = record.owner
    /\ record'.status = "completed"
    /\ record'.response = <<q, k>>
    /\ record'.response # NoResponse
    /\ record'.expired = record.expired

\* It does that or nothing.
LEMMA RowAfter ==
  ASSUME TypeOK, NEW q \in Request, NEW k \in {"ok", "4xx"},
         record' = Completed(<<q, k>>)
  PROVE  Recorded(q, k) \/ record' = record
<1>1. <<q, k>> \in Response /\ <<q, k>> # NoResponse
  BY DEF Response, NoResponse
<1>2. CASE InProgress
  <2>1. record \in Record /\ record' = [record EXCEPT !.status = "completed", !.response = <<q, k>>]
    BY <1>2 DEF TypeOK, Completed
  <2>2. record' \in Record
    BY <1>1, <2>1 DEF Record
  <2>3. QED
    BY <1>1, <1>2, <2>1, <2>2, NoRecordIsNotARow DEF Recorded, Record
<1>3. CASE ~InProgress
  BY <1>3 DEF Completed
<1>4. QED
  BY <1>2, <1>3

\* A statement of handleFailure that fails leaves the row alone, or has
\* recorded the refusal, or has removed a row in progress.
LEMMA FailedStatement ==
  ASSUME TypeOK, NEW q \in Request, HandleFailureFails(q)
  PROVE  \/ UNCHANGED <<record, forgotten>>
         \/ /\ pc[q] = "fail" /\ outcome[q] # "5xx"
            /\ Recorded(q, "4xx") /\ UNCHANGED forgotten
         \/ /\ Present /\ record.status = "in_progress" /\ record' = NoRecord
            /\ forgotten' = forgotten \cup (committed \cap {record.owner})
<1>1. CASE UNCHANGED <<record, forgotten>>
  BY <1>1
<1>2. CASE ~Forgets(q) /\ record' = Completed(<<q, "4xx">>) /\ UNCHANGED forgotten
  <2>1. Recorded(q, "4xx") \/ record' = record
    BY <1>2, RowAfter
  <2>2. QED
    BY <1>2, <2>1 DEF HandleFailureFails
<1>3. CASE Forgets(q) /\ DeleteInProgress
  BY <1>3
<1>4. QED
  BY <1>1, <1>2, <1>3 DEF HandleFailureFails

\* The row an insert leaves is a row.
LEMMA NewRow ==
  \A q \in Request :
    /\ RecordOf(q) \in Record /\ RecordOf(q) # NoRecord
    /\ RecordOf(q).owner = q /\ ~RecordOf(q).expired
    /\ RecordOf(q).status = "in_progress" /\ RecordOf(q).response = NoResponse
<1> TAKE q \in Request
<1>1. RecordOf(q) \in Record
  BY DEF RecordOf, Record
<1>2. QED
  BY <1>1, NoRecordIsNotARow DEF RecordOf

(***************************************************************************)
(* The parts of the inductive invariant, one lemma each                    *)
(***************************************************************************)

\* Types: a row has a response exactly when it is completed.
LEMMA NextTypeOK ==
  ASSUME TypeOK, [Next]_vars
  PROVE  TypeOK'
<1> USE DEF TypeOK, Refusal, Outcome
<1>1. CASE UNCHANGED vars
  BY <1>1 DEF vars
<1>2. ASSUME NEW q \in Request, Receive(q) PROVE TypeOK'
  BY <1>2 DEF Receive
<1>3. ASSUME NEW q \in Request, Purge(q) PROVE TypeOK'
  BY <1>3 DEF Purge
<1>4. ASSUME NEW q \in Request, Insert(q) PROVE TypeOK'
  BY <1>4, NewRow DEF Insert, RecordOf
<1>5. ASSUME NEW q \in Request, InsertConflicts(q) PROVE TypeOK'
  BY <1>5 DEF InsertConflicts
<1>6. ASSUME NEW q \in Request, Read(q) PROVE TypeOK'
  <2>1. reply' \in [Request -> Response \cup {<<"none", x>> : x \in Refusal \cup {"none"}}]
    <3>1. Present /\ record.status = "completed" => record.response \in Response
      BY DEF Record
    <3>2. QED
      BY <1>6, <3>1 DEF Read
  <2>2. seen' \in [Request -> Request]
    BY <1>6 DEF Read, Record
  <2>3. pc' \in [Request -> Claiming \cup Working \cup {"new", "done"}]
    BY <1>6 DEF Read
  <2>4. QED
    BY <1>6, <2>1, <2>2, <2>3 DEF Read
<1>7. ASSUME NEW q \in Request, Drop(q) PROVE TypeOK'
  BY <1>7 DEF Drop
<1>8. ASSUME NEW q \in Request, ClaimFails(q) PROVE TypeOK'
  BY <1>8, NewRow DEF ClaimFails, RecordOf
<1>9. ASSUME NEW q \in Request, Handle(q) PROVE TypeOK'
  BY <1>9 DEF Handle
<1>10. ASSUME NEW q \in Request, Complete(q) PROVE TypeOK'
  <2>1. Recorded(q, "ok") \/ record' = record
    BY <1>10, RowAfter DEF Complete
  <2>2. QED
    BY <1>10, <2>1 DEF Complete, Recorded, Response
<1>11. ASSUME NEW q \in Request, CompleteFails(q) PROVE TypeOK'
  <2>1. Recorded(q, "ok") \/ record' = record
    BY <1>11, RowAfter DEF CompleteFails
  <2>2. QED
    BY <1>11, <2>1 DEF CompleteFails, Recorded, Response
<1>12. ASSUME NEW q \in Request, RecordRefusal(q) PROVE TypeOK'
  <2>1. Recorded(q, "4xx") \/ record' = record
    BY <1>12, RowAfter DEF RecordRefusal
  <2>2. QED
    BY <1>12, <2>1 DEF RecordRefusal, Recorded, Response
<1>13. ASSUME NEW q \in Request, Forget(q) PROVE TypeOK'
  BY <1>13 DEF Forget
<1>14. ASSUME NEW q \in Request, HandleFailureFails(q) PROVE TypeOK'
  <2>1. CASE UNCHANGED <<record, forgotten>>
    BY <1>14, <2>1 DEF HandleFailureFails
  <2>2. CASE pc[q] = "fail" /\ outcome[q] # "5xx" /\ Recorded(q, "4xx") /\ UNCHANGED forgotten
    BY <1>14, <2>2 DEF HandleFailureFails, Recorded, Response
  <2>3. CASE /\ record.status = "in_progress" /\ record' = NoRecord
             /\ forgotten' = forgotten \cup (committed \cap {record.owner})
    BY <1>14, <2>3 DEF HandleFailureFails
  <2>4. QED
    BY <1>14, <2>1, <2>2, <2>3, FailedStatement
<1>15. ASSUME NEW q \in Request, TimeOut(q) PROVE TypeOK'
  BY <1>15 DEF TimeOut
<1>16. ASSUME NEW q \in Request, Die(q) PROVE TypeOK'
  BY <1>16 DEF Die
<1>17. ASSUME RecordExpires PROVE TypeOK'
  <2>1. record \in Record /\ record' = [record EXCEPT !.expired = TRUE]
    BY <1>17 DEF RecordExpires
  <2>2. record' \in Record /\ record'.status = record.status
        /\ record'.response = record.response
    BY <2>1 DEF Record
  <2>3. QED
    BY <1>17, <2>2 DEF RecordExpires
<1>18. ASSUME Cleanup PROVE TypeOK'
  BY <1>18 DEF Cleanup
<1>19. QED
  BY <1>1, <1>2, <1>3, <1>4, <1>5, <1>6, <1>7, <1>8, <1>9, <1>10, <1>11, <1>12,
     <1>13, <1>14, <1>15, <1>16, <1>17, <1>18 DEF Next, Step

\* Nobody but the owner of the row is past the claim.
LEMMA NextOwnerInv ==
  ASSUME TTLOutlivesRequests, TypeOK, OwnerInv, SeenInv, [Next]_vars
  PROVE  OwnerInv'
<1> USE DEF TypeOK, OwnerInv, SeenInv
<1>1. CASE UNCHANGED vars
  BY <1>1 DEF vars
<1>2. ASSUME NEW q \in Request, Receive(q) PROVE OwnerInv'
  BY <1>2 DEF Receive
<1>3. ASSUME NEW q \in Request, Purge(q) PROVE OwnerInv'
  BY <1>3 DEF Purge
<1>4. ASSUME NEW q \in Request, Insert(q) PROVE OwnerInv'
  BY <1>4, NewRow DEF Insert, RecordOf
<1>5. ASSUME NEW q \in Request, InsertConflicts(q) PROVE OwnerInv'
  BY <1>5 DEF InsertConflicts
<1>6. ASSUME NEW q \in Request, Read(q) PROVE OwnerInv'
  <2>1. \E p \in {"purge", "drop", "done"} :
          /\ pc' = [pc EXCEPT ![q] = p]
          /\ p = "drop" => /\ Present /\ record.expired
                           /\ seen' = [seen EXCEPT ![q] = record.owner]
          /\ p # "drop" => seen' = seen
    BY <1>6 DEF Read
  <2>2. UNCHANGED record /\ pc[q] = "read"
    BY <1>6 DEF Read
  <2>3. QED
    BY <2>1, <2>2, NoRecordIsNotARow DEF Record
<1>7. ASSUME NEW q \in Request, Drop(q) PROVE OwnerInv'
  BY <1>7 DEF Drop
<1>8. ASSUME NEW q \in Request, ClaimFails(q) PROVE OwnerInv'
  BY <1>8, NewRow DEF ClaimFails, RecordOf
<1>9. ASSUME NEW q \in Request, Handle(q) PROVE OwnerInv'
  BY <1>9 DEF Handle
<1>10. ASSUME NEW q \in Request, Complete(q) PROVE OwnerInv'
  <2>1. Recorded(q, "ok") \/ record' = record
    BY <1>10, RowAfter DEF Complete
  <2>2. QED
    BY <1>10, <2>1 DEF Complete, Recorded
<1>11. ASSUME NEW q \in Request, CompleteFails(q) PROVE OwnerInv'
  <2>1. Recorded(q, "ok") \/ record' = record
    BY <1>11, RowAfter DEF CompleteFails
  <2>2. QED
    BY <1>11, <2>1 DEF CompleteFails, Recorded
<1>12. ASSUME NEW q \in Request, RecordRefusal(q) PROVE OwnerInv'
  <2>1. Recorded(q, "4xx") \/ record' = record
    BY <1>12, RowAfter DEF RecordRefusal
  <2>2. QED
    BY <1>12, <2>1 DEF RecordRefusal, Recorded
<1>13. ASSUME NEW q \in Request, Forget(q) PROVE OwnerInv'
  BY <1>13 DEF Forget
<1>14. ASSUME NEW q \in Request, HandleFailureFails(q) PROVE OwnerInv'
  <2>1. CASE UNCHANGED <<record, forgotten>>
    BY <1>14, <2>1 DEF HandleFailureFails
  <2>2. CASE pc[q] = "fail" /\ outcome[q] # "5xx" /\ Recorded(q, "4xx") /\ UNCHANGED forgotten
    BY <1>14, <2>2 DEF HandleFailureFails, Recorded
  <2>3. CASE /\ record.status = "in_progress" /\ record' = NoRecord
             /\ forgotten' = forgotten \cup (committed \cap {record.owner})
    BY <1>14, <2>3 DEF HandleFailureFails
  <2>4. QED
    BY <1>14, <2>1, <2>2, <2>3, FailedStatement
<1>15. ASSUME NEW q \in Request, TimeOut(q) PROVE OwnerInv'
  BY <1>15 DEF TimeOut
<1>16. ASSUME NEW q \in Request, Die(q) PROVE OwnerInv'
  BY <1>16 DEF Die
<1>17. ASSUME RecordExpires PROVE OwnerInv'
  BY <1>17 DEF RecordExpires
<1>18. ASSUME Cleanup PROVE OwnerInv'
  BY <1>18 DEF Cleanup
<1>19. QED
  BY <1>1, <1>2, <1>3, <1>4, <1>5, <1>6, <1>7, <1>8, <1>9, <1>10, <1>11, <1>12,
     <1>13, <1>14, <1>15, <1>16, <1>17, <1>18 DEF Next, Step

\* A request inserts at most one row, so an expired owner does not come back.
LEMMA NextSeenInv ==
  ASSUME TTLOutlivesRequests, TypeOK, OwnerInv, SeenInv, [Next]_vars
  PROVE  SeenInv'
<1> USE DEF TypeOK, OwnerInv, SeenInv
<1>1. CASE UNCHANGED vars
  BY <1>1 DEF vars
<1>2. ASSUME NEW q \in Request, Receive(q) PROVE SeenInv'
  BY <1>2 DEF Receive
<1>3. ASSUME NEW q \in Request, Purge(q) PROVE SeenInv'
  BY <1>3 DEF Purge
<1>4. ASSUME NEW q \in Request, Insert(q) PROVE SeenInv'
  BY <1>4, NewRow DEF Insert, RecordOf
<1>5. ASSUME NEW q \in Request, InsertConflicts(q) PROVE SeenInv'
  BY <1>5 DEF InsertConflicts
<1>6. ASSUME NEW q \in Request, Read(q) PROVE SeenInv'
  <2>1. \E p \in {"purge", "drop", "done"} :
          /\ pc' = [pc EXCEPT ![q] = p]
          /\ p = "drop" => /\ Present /\ record.expired
                           /\ seen' = [seen EXCEPT ![q] = record.owner]
          /\ p # "drop" => seen' = seen
    BY <1>6 DEF Read
  <2>2. UNCHANGED record /\ pc[q] = "read"
    BY <1>6 DEF Read
  <2>3. QED
    BY <2>1, <2>2, NoRecordIsNotARow DEF Record
<1>7. ASSUME NEW q \in Request, Drop(q) PROVE SeenInv'
  BY <1>7 DEF Drop
<1>8. ASSUME NEW q \in Request, ClaimFails(q) PROVE SeenInv'
  BY <1>8, NewRow DEF ClaimFails, RecordOf
<1>9. ASSUME NEW q \in Request, Handle(q) PROVE SeenInv'
  BY <1>9 DEF Handle
<1>10. ASSUME NEW q \in Request, Complete(q) PROVE SeenInv'
  <2>1. Recorded(q, "ok") \/ record' = record
    BY <1>10, RowAfter DEF Complete
  <2>2. QED
    BY <1>10, <2>1 DEF Complete, Recorded
<1>11. ASSUME NEW q \in Request, CompleteFails(q) PROVE SeenInv'
  <2>1. Recorded(q, "ok") \/ record' = record
    BY <1>11, RowAfter DEF CompleteFails
  <2>2. QED
    BY <1>11, <2>1 DEF CompleteFails, Recorded
<1>12. ASSUME NEW q \in Request, RecordRefusal(q) PROVE SeenInv'
  <2>1. Recorded(q, "4xx") \/ record' = record
    BY <1>12, RowAfter DEF RecordRefusal
  <2>2. QED
    BY <1>12, <2>1 DEF RecordRefusal, Recorded
<1>13. ASSUME NEW q \in Request, Forget(q) PROVE SeenInv'
  BY <1>13 DEF Forget
<1>14. ASSUME NEW q \in Request, HandleFailureFails(q) PROVE SeenInv'
  BY <1>14, FailedStatement DEF HandleFailureFails, Recorded
<1>15. ASSUME NEW q \in Request, TimeOut(q) PROVE SeenInv'
  BY <1>15 DEF TimeOut
<1>16. ASSUME NEW q \in Request, Die(q) PROVE SeenInv'
  BY <1>16 DEF Die
<1>17. ASSUME RecordExpires PROVE SeenInv'
  BY <1>17 DEF RecordExpires
<1>18. ASSUME Cleanup PROVE SeenInv'
  BY <1>18 DEF Cleanup
<1>19. QED
  BY <1>1, <1>2, <1>3, <1>4, <1>5, <1>6, <1>7, <1>8, <1>9, <1>10, <1>11, <1>12,
     <1>13, <1>14, <1>15, <1>16, <1>17, <1>18 DEF Next, Step

\* A commit is by the owner of the row; the row goes only if it is expired,
\* when no commit of the window is left, or if its commit is forgotten.
LEMMA NextCommitInv ==
  ASSUME TTLOutlivesRequests, TypeOK, OwnerInv, SeenInv, CommitInv, [Next]_vars
  PROVE  CommitInv'
<1> USE DEF TypeOK, OwnerInv, SeenInv, CommitInv
<1>1. CASE UNCHANGED vars
  BY <1>1 DEF vars
<1>2. ASSUME NEW q \in Request, Receive(q) PROVE CommitInv'
  BY <1>2 DEF Receive
<1>3. ASSUME NEW q \in Request, Purge(q) PROVE CommitInv'
  BY <1>3 DEF Purge
<1>4. ASSUME NEW q \in Request, Insert(q) PROVE CommitInv'
  BY <1>4, NewRow DEF Insert, RecordOf
<1>5. ASSUME NEW q \in Request, InsertConflicts(q) PROVE CommitInv'
  BY <1>5 DEF InsertConflicts
<1>6. ASSUME NEW q \in Request, Read(q) PROVE CommitInv'
  BY <1>6 DEF Read, BodyMatches
<1>7. ASSUME NEW q \in Request, Drop(q) PROVE CommitInv'
  BY <1>7 DEF Drop
<1>8. ASSUME NEW q \in Request, ClaimFails(q) PROVE CommitInv'
  BY <1>8, NewRow DEF ClaimFails, RecordOf
<1>9. ASSUME NEW q \in Request, Handle(q) PROVE CommitInv'
  BY <1>9 DEF Handle
<1>10. ASSUME NEW q \in Request, Complete(q) PROVE CommitInv'
  <2>1. Recorded(q, "ok") \/ record' = record
    BY <1>10, RowAfter DEF Complete
  <2>2. QED
    BY <1>10, <2>1 DEF Complete, Recorded
<1>11. ASSUME NEW q \in Request, CompleteFails(q) PROVE CommitInv'
  <2>1. Recorded(q, "ok") \/ record' = record
    BY <1>11, RowAfter DEF CompleteFails
  <2>2. QED
    BY <1>11, <2>1 DEF CompleteFails, Recorded
<1>12. ASSUME NEW q \in Request, RecordRefusal(q) PROVE CommitInv'
  <2>1. Recorded(q, "4xx") \/ record' = record
    BY <1>12, RowAfter DEF RecordRefusal
  <2>2. QED
    BY <1>12, <2>1 DEF RecordRefusal, Recorded
<1>13. ASSUME NEW q \in Request, Forget(q) PROVE CommitInv'
  BY <1>13 DEF Forget
<1>14. ASSUME NEW q \in Request, HandleFailureFails(q) PROVE CommitInv'
  BY <1>14, FailedStatement DEF HandleFailureFails, Recorded
<1>15. ASSUME NEW q \in Request, TimeOut(q) PROVE CommitInv'
  BY <1>15 DEF TimeOut
<1>16. ASSUME NEW q \in Request, Die(q) PROVE CommitInv'
  BY <1>16 DEF Die
<1>17. ASSUME RecordExpires PROVE CommitInv'
  BY <1>17 DEF RecordExpires
<1>18. ASSUME Cleanup PROVE CommitInv'
  BY <1>18 DEF Cleanup
<1>19. QED
  BY <1>1, <1>2, <1>3, <1>4, <1>5, <1>6, <1>7, <1>8, <1>9, <1>10, <1>11, <1>12,
     <1>13, <1>14, <1>15, <1>16, <1>17, <1>18 DEF Next, Step

\* The handler of a request ends once.
LEMMA NextOutcomeInv ==
  ASSUME TypeOK, OutcomeInv, [Next]_vars
  PROVE  OutcomeInv'
<1> USE DEF TypeOK, OutcomeInv, Outcome
<1>1. CASE UNCHANGED vars
  BY <1>1 DEF vars
<1>2. ASSUME NEW q \in Request, Receive(q) PROVE OutcomeInv'
  BY <1>2 DEF Receive
<1>3. ASSUME NEW q \in Request, Purge(q) PROVE OutcomeInv'
  BY <1>3 DEF Purge
<1>4. ASSUME NEW q \in Request, Insert(q) PROVE OutcomeInv'
  BY <1>4 DEF Insert, RecordOf
<1>5. ASSUME NEW q \in Request, InsertConflicts(q) PROVE OutcomeInv'
  BY <1>5 DEF InsertConflicts
<1>6. ASSUME NEW q \in Request, Read(q) PROVE OutcomeInv'
  BY <1>6 DEF Read, BodyMatches
<1>7. ASSUME NEW q \in Request, Drop(q) PROVE OutcomeInv'
  BY <1>7 DEF Drop
<1>8. ASSUME NEW q \in Request, ClaimFails(q) PROVE OutcomeInv'
  BY <1>8 DEF ClaimFails, RecordOf
<1>9. ASSUME NEW q \in Request, Handle(q) PROVE OutcomeInv'
  BY <1>9 DEF Handle
<1>10. ASSUME NEW q \in Request, Complete(q) PROVE OutcomeInv'
  BY <1>10 DEF Complete
<1>11. ASSUME NEW q \in Request, CompleteFails(q) PROVE OutcomeInv'
  BY <1>11 DEF CompleteFails
<1>12. ASSUME NEW q \in Request, RecordRefusal(q) PROVE OutcomeInv'
  BY <1>12 DEF RecordRefusal
<1>13. ASSUME NEW q \in Request, Forget(q) PROVE OutcomeInv'
  BY <1>13 DEF Forget
<1>14. ASSUME NEW q \in Request, HandleFailureFails(q) PROVE OutcomeInv'
  BY <1>14 DEF HandleFailureFails
<1>15. ASSUME NEW q \in Request, TimeOut(q) PROVE OutcomeInv'
  BY <1>15 DEF TimeOut
<1>16. ASSUME NEW q \in Request, Die(q) PROVE OutcomeInv'
  BY <1>16 DEF Die
<1>17. ASSUME RecordExpires PROVE OutcomeInv'
  BY <1>17 DEF RecordExpires
<1>18. ASSUME Cleanup PROVE OutcomeInv'
  BY <1>18 DEF Cleanup
<1>19. QED
  BY <1>1, <1>2, <1>3, <1>4, <1>5, <1>6, <1>7, <1>8, <1>9, <1>10, <1>11, <1>12,
     <1>13, <1>14, <1>15, <1>16, <1>17, <1>18 DEF Next, Step

\* Only the owner of the row records a response, its own.
LEMMA NextResponseInv ==
  ASSUME TTLOutlivesRequests, TypeOK, OwnerInv, OutcomeInv, ResponseInv, [Next]_vars
  PROVE  ResponseInv'
<1> USE DEF TypeOK, OwnerInv, OutcomeInv, ResponseInv
<1>1. CASE UNCHANGED vars
  BY <1>1 DEF vars
<1>2. ASSUME NEW q \in Request, Receive(q) PROVE ResponseInv'
  BY <1>2 DEF Receive
<1>3. ASSUME NEW q \in Request, Purge(q) PROVE ResponseInv'
  BY <1>3 DEF Purge
<1>4. ASSUME NEW q \in Request, Insert(q) PROVE ResponseInv'
  BY <1>4, NewRow DEF Insert, RecordOf
<1>5. ASSUME NEW q \in Request, InsertConflicts(q) PROVE ResponseInv'
  BY <1>5 DEF InsertConflicts
<1>6. ASSUME NEW q \in Request, Read(q) PROVE ResponseInv'
  BY <1>6 DEF Read, BodyMatches
<1>7. ASSUME NEW q \in Request, Drop(q) PROVE ResponseInv'
  BY <1>7 DEF Drop
<1>8. ASSUME NEW q \in Request, ClaimFails(q) PROVE ResponseInv'
  BY <1>8, NewRow DEF ClaimFails, RecordOf
<1>9. ASSUME NEW q \in Request, Handle(q) PROVE ResponseInv'
  BY <1>9 DEF Handle
<1>10. ASSUME NEW q \in Request, Complete(q) PROVE ResponseInv'
  <2>1. Recorded(q, "ok") \/ record' = record
    BY <1>10, RowAfter DEF Complete
  <2>2. QED
    BY <1>10, <2>1 DEF Complete, Recorded
<1>11. ASSUME NEW q \in Request, CompleteFails(q) PROVE ResponseInv'
  <2>1. Recorded(q, "ok") \/ record' = record
    BY <1>11, RowAfter DEF CompleteFails
  <2>2. QED
    BY <1>11, <2>1 DEF CompleteFails, Recorded
<1>12. ASSUME NEW q \in Request, RecordRefusal(q) PROVE ResponseInv'
  <2>1. Recorded(q, "4xx") \/ record' = record
    BY <1>12, RowAfter DEF RecordRefusal
  <2>2. QED
    BY <1>12, <2>1 DEF RecordRefusal, Recorded
<1>13. ASSUME NEW q \in Request, Forget(q) PROVE ResponseInv'
  BY <1>13 DEF Forget
<1>14. ASSUME NEW q \in Request, HandleFailureFails(q) PROVE ResponseInv'
  <2>1. CASE UNCHANGED <<record, forgotten>>
    BY <1>14, <2>1 DEF HandleFailureFails
  <2>2. CASE pc[q] = "fail" /\ outcome[q] # "5xx" /\ Recorded(q, "4xx") /\ UNCHANGED forgotten
    BY <1>14, <2>2 DEF HandleFailureFails, Recorded
  <2>3. CASE /\ record.status = "in_progress" /\ record' = NoRecord
             /\ forgotten' = forgotten \cup (committed \cap {record.owner})
    BY <1>14, <2>3 DEF HandleFailureFails
  <2>4. QED
    BY <1>14, <2>1, <2>2, <2>3, FailedStatement
<1>15. ASSUME NEW q \in Request, TimeOut(q) PROVE ResponseInv'
  BY <1>15 DEF TimeOut
<1>16. ASSUME NEW q \in Request, Die(q) PROVE ResponseInv'
  BY <1>16 DEF Die
<1>17. ASSUME RecordExpires PROVE ResponseInv'
  BY <1>17 DEF RecordExpires
<1>18. ASSUME Cleanup PROVE ResponseInv'
  BY <1>18 DEF Cleanup
<1>19. QED
  BY <1>1, <1>2, <1>3, <1>4, <1>5, <1>6, <1>7, <1>8, <1>9, <1>10, <1>11, <1>12,
     <1>13, <1>14, <1>15, <1>16, <1>17, <1>18 DEF Next, Step

\* A reply is the own response or the one on record, with the same body.
LEMMA NextReplay ==
  ASSUME TypeOK, OwnerInv, OutcomeInv, ResponseInv, ReplayIsOriginal, [Next]_vars
  PROVE  ReplayIsOriginal'
<1> USE DEF TypeOK, OwnerInv, OutcomeInv, ResponseInv, ReplayIsOriginal, sameBody
<1>1. CASE UNCHANGED vars
  BY <1>1 DEF vars
<1>2. ASSUME NEW q \in Request, Receive(q) PROVE ReplayIsOriginal'
  BY <1>2 DEF Receive
<1>3. ASSUME NEW q \in Request, Purge(q) PROVE ReplayIsOriginal'
  BY <1>3 DEF Purge
<1>4. ASSUME NEW q \in Request, Insert(q) PROVE ReplayIsOriginal'
  BY <1>4 DEF Insert, RecordOf
<1>5. ASSUME NEW q \in Request, InsertConflicts(q) PROVE ReplayIsOriginal'
  BY <1>5 DEF InsertConflicts
<1>6. ASSUME NEW q \in Request, Read(q) PROVE ReplayIsOriginal'
  BY <1>6 DEF Read, BodyMatches
<1>7. ASSUME NEW q \in Request, Drop(q) PROVE ReplayIsOriginal'
  BY <1>7 DEF Drop
<1>8. ASSUME NEW q \in Request, ClaimFails(q) PROVE ReplayIsOriginal'
  BY <1>8 DEF ClaimFails, RecordOf
<1>9. ASSUME NEW q \in Request, Handle(q) PROVE ReplayIsOriginal'
  BY <1>9 DEF Handle
<1>10. ASSUME NEW q \in Request, Complete(q) PROVE ReplayIsOriginal'
  BY <1>10 DEF Complete
<1>11. ASSUME NEW q \in Request, CompleteFails(q) PROVE ReplayIsOriginal'
  BY <1>11 DEF CompleteFails
<1>12. ASSUME NEW q \in Request, RecordRefusal(q) PROVE ReplayIsOriginal'
  BY <1>12 DEF RecordRefusal
<1>13. ASSUME NEW q \in Request, Forget(q) PROVE ReplayIsOriginal'
  BY <1>13 DEF Forget
<1>14. ASSUME NEW q \in Request, HandleFailureFails(q) PROVE ReplayIsOriginal'
  BY <1>14 DEF HandleFailureFails
<1>15. ASSUME NEW q \in Request, TimeOut(q) PROVE ReplayIsOriginal'
  BY <1>15 DEF TimeOut
<1>16. ASSUME NEW q \in Request, Die(q) PROVE ReplayIsOriginal'
  BY <1>16 DEF Die
<1>17. ASSUME RecordExpires PROVE ReplayIsOriginal'
  BY <1>17 DEF RecordExpires
<1>18. ASSUME Cleanup PROVE ReplayIsOriginal'
  BY <1>18 DEF Cleanup
<1>19. QED
  BY <1>1, <1>2, <1>3, <1>4, <1>5, <1>6, <1>7, <1>8, <1>9, <1>10, <1>11, <1>12,
     <1>13, <1>14, <1>15, <1>16, <1>17, <1>18 DEF Next, Step

(***************************************************************************)
(* Theorems                                                                *)
(***************************************************************************)

\* Every step keeps the inductive invariant.
LEMMA NextIInv == TTLOutlivesRequests /\ IInv /\ [Next]_vars => IInv'
  BY NextTypeOK, NextOwnerInv, NextSeenInv, NextCommitInv, NextOutcomeInv, NextResponseInv,
     NextReplay DEF IInv

\* The inductive invariant is an invariant.
THEOREM IdempotencyInvariant == ASSUME TTLOutlivesRequests PROVE Spec => []IInv
<1>1. IInv /\ [Next]_vars => IInv'
  BY NextIInv
<1>2. QED
  BY InitIInv, <1>1, PTL DEF Spec

\* Every variable has its type, and a row has a response exactly when it is
\* completed.
THEOREM IdempotencyTypeOK == ASSUME TTLOutlivesRequests PROVE Spec => []TypeOK
<1>1. IInv => TypeOK
  BY DEF IInv
<1>2. QED
  BY IdempotencyInvariant, <1>1, PTL

\* Requests with one key are past the claim one at a time.
THEOREM IdempotencyOneHandler == ASSUME TTLOutlivesRequests PROVE Spec => []OneHandlerAtATime
<1>1. IInv => OneHandlerAtATime
  BY DEF IInv, OwnerInv, OneHandlerAtATime
<1>2. QED
  BY IdempotencyInvariant, <1>1, PTL

\* A command is executed again in one window only if its row was removed.
THEOREM IdempotencyAtMostOnce ==
  ASSUME TTLOutlivesRequests PROVE Spec => []AtMostOnceUnlessForgotten
<1>1. IInv => AtMostOnceUnlessForgotten
  BY DEF IInv, CommitInv, AtMostOnceUnlessForgotten
<1>2. QED
  BY IdempotencyInvariant, <1>1, PTL

\* A replayed response is the response a handler gave to the same request.
THEOREM IdempotencyReplay == ASSUME TTLOutlivesRequests PROVE Spec => []ReplayIsOriginal
<1>1. IInv => ReplayIsOriginal
  BY DEF IInv
<1>2. QED
  BY IdempotencyInvariant, <1>1, PTL

Final ==
    Present /\ record.status = "completed" /\ ~record.expired
      => record' \in {record, [record EXCEPT !.expired = TRUE]}

\* A row whose response is recorded is only ever removed when it is expired.
LEMMA NextRecorded ==
  ASSUME TypeOK, OwnerInv, SeenInv, [Next]_vars
  PROVE  Final
<1> USE DEF TypeOK, OwnerInv, SeenInv, Final
<1>1. CASE UNCHANGED vars
  BY <1>1 DEF vars
<1>2. ASSUME NEW q \in Request, Receive(q) PROVE Final
  BY <1>2 DEF Receive
<1>3. ASSUME NEW q \in Request, Purge(q) PROVE Final
  BY <1>3 DEF Purge
<1>4. ASSUME NEW q \in Request, Insert(q) PROVE Final
  BY <1>4 DEF Insert, RecordOf
<1>5. ASSUME NEW q \in Request, InsertConflicts(q) PROVE Final
  BY <1>5 DEF InsertConflicts
<1>6. ASSUME NEW q \in Request, Read(q) PROVE Final
  BY <1>6 DEF Read, BodyMatches
<1>7. ASSUME NEW q \in Request, Drop(q) PROVE Final
  BY <1>7 DEF Drop
<1>8. ASSUME NEW q \in Request, ClaimFails(q) PROVE Final
  BY <1>8 DEF ClaimFails, RecordOf
<1>9. ASSUME NEW q \in Request, Handle(q) PROVE Final
  BY <1>9 DEF Handle
<1>10. ASSUME NEW q \in Request, Complete(q) PROVE Final
  BY <1>10 DEF Complete
<1>11. ASSUME NEW q \in Request, CompleteFails(q) PROVE Final
  BY <1>11 DEF CompleteFails
<1>12. ASSUME NEW q \in Request, RecordRefusal(q) PROVE Final
  BY <1>12 DEF RecordRefusal
<1>13. ASSUME NEW q \in Request, Forget(q) PROVE Final
  BY <1>13 DEF Forget
<1>14. ASSUME NEW q \in Request, HandleFailureFails(q) PROVE Final
  BY <1>14, FailedStatement DEF HandleFailureFails, Recorded
<1>15. ASSUME NEW q \in Request, TimeOut(q) PROVE Final
  BY <1>15 DEF TimeOut
<1>16. ASSUME NEW q \in Request, Die(q) PROVE Final
  BY <1>16 DEF Die
<1>17. ASSUME RecordExpires PROVE Final
  BY <1>17 DEF RecordExpires
<1>18. ASSUME Cleanup PROVE Final
  BY <1>18 DEF Cleanup
<1>19. QED
  BY <1>1, <1>2, <1>3, <1>4, <1>5, <1>6, <1>7, <1>8, <1>9, <1>10, <1>11, <1>12,
     <1>13, <1>14, <1>15, <1>16, <1>17, <1>18 DEF Next, Step

\* A recorded response stays until its window ends.
THEOREM IdempotencyRecordedIsFinal ==
  ASSUME TTLOutlivesRequests PROVE Spec => RecordedIsFinal
<1>1. IInv /\ [Next]_vars => [Final]_vars
  BY NextRecorded DEF IInv
<1>2. [][Final]_vars <=> RecordedIsFinal
  BY PTL DEF RecordedIsFinal, Final
<1>3. QED
  BY IdempotencyInvariant, <1>1, <1>2, PTL DEF Spec

=============================================================================
