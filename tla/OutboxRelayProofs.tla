-------------------------- MODULE OutboxRelayProofs --------------------------
(***************************************************************************)
(* What holds of OutboxRelay for every number of instances, overlapping    *)
(* runs, rows, attempts and batch sizes, with proofs: what becomes of the  *)
(* rows, that OutboxRelay implements OutboxDelivery, and what the locks    *)
(* and the shutdown guarantee.                                             *)
(***************************************************************************)
EXTENDS OutboxRelay, TLAPS

(***************************************************************************)
(* The inductive invariant                                                 *)
(***************************************************************************)

\* Only a run that has selected and not finished has rows left, and they are
\* committed rows.
BatchInv ==
    \A r \in Run :
        /\ pc[r] \notin HandlingPc \cup {"claim"} => batch[r] = {}
        /\ \A m \in batch[r] : status[m] # "absent"

\* The row locks: what a claim has selected stays pending until it commits,
\* and no other claim has selected it.
LockedInv ==
    \A r \in Run : pc[r] = "claim" =>
        /\ \A m \in batch[r] : status[m] = "pending"
        /\ \A q \in Run : pc[q] = "claim" /\ q # r => batch[q] \cap batch[r] = {}

\* The column attempts never runs ahead of the offers really made, nor does
\* any snapshot of it, and an open row has offers left.
CountInv ==
    /\ \A m \in Message :
        /\ attempts[m] <= tries[m]
        /\ status[m] \notin Settled => attempts[m] < MaxAttempts
    /\ \A r \in Run : \A m \in batch[r] :
        /\ snapshot[r][m] < MaxAttempts
        /\ snapshot[r][m] <= tries[m]
        /\ pc[r] \in {"markPublished", "writeFailure"} /\ IsHead(r, m)
            => snapshot[r][m] < tries[m]

\* A run about to call a row published has seen the broker accept it.
DeliveredInv ==
    /\ PublishedWasDelivered
    /\ \A r \in Run : \A m \in batch[r] :
        pc[r] = "markPublished" /\ IsHead(r, m) => m \in delivered

\* Without reclaiming, a run owns the rows of its batch.  They are processing,
\* or published by an update that the run takes for a failure.
OwnerInv ==
    ~ReclaimEnabled =>
        /\ \A r, q \in Run : r # q => batch[r] \cap batch[q] = {}
        /\ \A r \in Run : \A m \in batch[r] : pc[r] \in HandlingPc =>
            \/ status[m] = "processing"
            \/ status[m] = "published" /\ pc[r] = "writeFailure" /\ IsHead(r, m)

IInv ==
    /\ TypeOK
    /\ BatchInv
    /\ LockedInv
    /\ CountInv
    /\ FailedAfterMaxTries
    /\ DeliveredInv
    /\ OwnerInv

(***************************************************************************)
(* Type correctness                                                        *)
(***************************************************************************)
USE MessagesAreOrdered, LimitsArePositive, SwitchesAreBoolean, FaultsAreBounded

\* Every variable keeps its type from the initial state on.
LEMMA InitTypeOK == Init => TypeOK
  BY DEF Init, TypeOK, Status, Pc, Life, InBatchPc, HandlingPc, NothingRead

\* A run is a process and a slot.
LEMMA ProcessOfRun == \A r \in Run : process(r) \in Instance
  BY DEF Run, process

\* A step that writes the count back writes an attempt number in range,
\* because the snapshot it adds one to was taken of an open row.
LEMMA NextTypeOK ==
  ASSUME TypeOK, CountInv, [Next]_vars
  PROVE  TypeOK'
<1> USE ProcessOfRun DEF TypeOK
<1>1. CASE UNCHANGED vars
  BY <1>1 DEF vars, rowVars, brokerVars, runVars, lockVars, processVars, shutdownVars
<1>2. ASSUME NEW m \in Message, Insert(m) PROVE TypeOK'
  BY <1>2 DEF Insert, Status, brokerVars, runVars, lockVars, processVars, shutdownVars
<1>3. ASSUME NEW r \in Run, Tick(r) PROVE TypeOK'
  BY <1>3 DEF Tick, Pc, rowVars, brokerVars, lockVars, shutdownVars
<1>4. ASSUME NEW r \in Run, LockExpires(r) PROVE TypeOK'
  BY <1>4 DEF LockExpires, rowVars, brokerVars, runVars, processVars, shutdownVars
<1>5. ASSUME NEW r \in Run, Acquire(r) PROVE TypeOK'
  BY <1>5 DEF Acquire, Pc, InBatchPc, rowVars, brokerVars, processVars, shutdownVars
<1>6. ASSUME NEW r \in Run, AcquireRefused(r) PROVE TypeOK'
  BY <1>6 DEF AcquireRefused, EndRun, Leaves, Pc, rowVars, brokerVars, lockVars, shutdownVars
<1>7. ASSUME NEW r \in Run, AcquireFails(r) PROVE TypeOK'
  <2>1. faults' \in 0..MaxFaults
    BY <1>7 DEF AcquireFails, Fails
  <2>2. lock' \in Run \cup {NoRun} /\ lease' \in [Run -> BOOLEAN]
    <3>1. CASE UNCHANGED <<lock, lease>>
      BY <3>1
    <3>2. CASE lock' = r /\ lease' = [lease EXCEPT ![r] = TRUE]
      BY <3>2
    <3>3. QED
      BY <1>7, <3>1, <3>2 DEF AcquireFails
  <2>3. /\ pc' \in [Run -> Pc]
        /\ isProcessing' \in [Instance -> BOOLEAN]
        /\ overlapped' \in SUBSET Instance
    BY <1>7 DEF AcquireFails, EndRun, Leaves, Pc
  <2>4. QED
    BY <1>7, <2>1, <2>2, <2>3 DEF AcquireFails, rowVars, brokerVars, shutdownVars
<1>8. ASSUME NEW r \in Run, Reclaim(r) PROVE TypeOK'
  BY <1>8 DEF Reclaim, ReclaimRows, Pc, InBatchPc, Status, brokerVars, lockVars,
              processVars, shutdownVars
<1>9. ASSUME NEW r \in Run, Select(r) PROVE TypeOK'
  BY <1>9 DEF Select, Pc, InBatchPc, rowVars, brokerVars, lockVars, processVars, shutdownVars
<1>10. ASSUME NEW r \in Run, Claim(r) PROVE TypeOK'
  BY <1>10 DEF Claim, ClaimRows, Pc, InBatchPc, HandlingPc, Status, brokerVars, lockVars,
               processVars, shutdownVars
<1>11. ASSUME NEW r \in Run, BatchAborts(r) PROVE TypeOK'
  <2>1. /\ status' \in [Message -> Status]
        /\ claimedAt' \in [Message -> {"null", "fresh", "stale"}]
    <3>1. CASE UNCHANGED <<status, claimedAt>>
      BY <3>1
    <3>2. CASE ReclaimRows
      BY <3>2 DEF ReclaimRows, Status
    <3>3. CASE ClaimRows(r)
      BY <3>3 DEF ClaimRows, Status
    <3>4. QED
      BY <1>11, <3>1, <3>2, <3>3 DEF BatchAborts
  <2>2. faults' \in 0..MaxFaults
    BY <1>11 DEF BatchAborts, Fails
  <2>3. QED
    BY <1>11, <2>1, <2>2 DEF BatchAborts, DropBatch, NothingRead, Pc, brokerVars, lockVars,
                             processVars, shutdownVars
<1>12. ASSUME NEW r \in Run, NEW m \in batch[r], Publish(r, m) PROVE TypeOK'
  BY <1>12 DEF Publish, CountTry, Pc, InBatchPc, HandlingPc, rowVars, lockVars, processVars,
               shutdownVars
<1>13. ASSUME NEW r \in Run, NEW m \in batch[r], PublishFails(r, m) PROVE TypeOK'
  <2>1. m \in Message
    OBVIOUS
  <2>2. delivered' \in SUBSET Message
    BY <1>13, <2>1 DEF PublishFails
  <2>3. tries' \in [Message -> 0..MaxAttempts]
    BY <1>13, <2>1 DEF PublishFails, CountTry
  <2>4. pc' \in [Run -> Pc]
    BY <1>13 DEF PublishFails, Pc, InBatchPc, HandlingPc
  <2>5. QED
    BY <1>13, <2>2, <2>3, <2>4 DEF PublishFails, rowVars, lockVars, processVars, shutdownVars
<1>14. ASSUME NEW r \in Run, NEW m \in batch[r], MarkPublished(r, m) PROVE TypeOK'
  BY <1>14 DEF MarkPublished, Advance, Pc, InBatchPc, HandlingPc, Status, brokerVars,
               lockVars, processVars, shutdownVars
<1>15. ASSUME NEW r \in Run, NEW m \in batch[r], MarkPublishedFails(r, m) PROVE TypeOK'
  <2>1. status' \in [Message -> Status]
    BY <1>15 DEF MarkPublishedFails, Status
  <2>2. faults' \in 0..MaxFaults
    BY <1>15 DEF MarkPublishedFails, Fails
  <2>3. QED
    BY <1>15, <2>1, <2>2 DEF MarkPublishedFails, Pc, InBatchPc, HandlingPc, brokerVars,
                             lockVars, processVars, shutdownVars
<1>16. ASSUME NEW r \in Run, NEW m \in batch[r], FailRow(r, m)
       PROVE  /\ attempts' \in [Message -> 0..MaxAttempts]
              /\ status' \in [Message -> Status]
              /\ claimedAt' \in [Message -> {"null", "fresh", "stale"}]
  <2>1. NextAttempts(r, m) \in 0..MaxAttempts
    BY DEF CountInv, NextAttempts
  <2>2. attempts' \in [Message -> 0..MaxAttempts]
    BY <1>16, <2>1 DEF FailRow
  <2>3. QED
    BY <1>16, <2>2 DEF FailRow, Status
<1>17. ASSUME NEW r \in Run, NEW m \in batch[r], WriteFailure(r, m) PROVE TypeOK'
  <2>1. /\ pc' \in [Run -> Pc]
        /\ batch' \in [Run -> SUBSET Message]
        /\ snapshot' \in [Run -> [Message -> 0..MaxAttempts]]
    BY <1>17 DEF WriteFailure, Advance, Pc, InBatchPc, HandlingPc
  <2>2. QED
    BY <1>16, <1>17, <2>1 DEF WriteFailure, brokerVars, lockVars, processVars, shutdownVars
<1>18. ASSUME NEW r \in Run, NEW m \in batch[r], WriteFailureFails(r, m) PROVE TypeOK'
  <2>1. /\ attempts' \in [Message -> 0..MaxAttempts]
        /\ status' \in [Message -> Status]
        /\ claimedAt' \in [Message -> {"null", "fresh", "stale"}]
    BY <1>16, <1>18 DEF WriteFailureFails, rowVars
  <2>2. /\ pc' \in [Run -> Pc]
        /\ batch' \in [Run -> SUBSET Message]
        /\ snapshot' \in [Run -> [Message -> 0..MaxAttempts]]
    BY <1>18 DEF WriteFailureFails, DropBatch, NothingRead, Pc
  <2>3. faults' \in 0..MaxFaults
    BY <1>18 DEF WriteFailureFails, Fails
  <2>4. QED
    BY <1>18, <2>1, <2>2, <2>3 DEF WriteFailureFails, brokerVars, lockVars, processVars,
                                   shutdownVars
<1>19. ASSUME NEW r \in Run, Release(r) PROVE TypeOK'
  BY <1>19 DEF Release, EndRun, Leaves, Pc, rowVars, brokerVars, shutdownVars
<1>20. ASSUME NEW r \in Run, ReleaseFails(r) PROVE TypeOK'
  BY <1>20 DEF ReleaseFails, Leaves, Fails, RedisClosed, Pc, rowVars, brokerVars, shutdownVars
<1>21. ASSUME NEW i \in Instance, QuitRedis(i) \/ MarkShuttingDown(i) PROVE TypeOK'
  <2>1. faults' \in 0..MaxFaults
    BY <1>21 DEF QuitRedis, MarkShuttingDown, Fails
  <2>2. QED
    BY <1>21, <2>1 DEF QuitRedis, MarkShuttingDown, Life, rowVars, brokerVars, runVars, lockVars
<1>22. ASSUME NEW i \in Instance, ClosePool(i) PROVE TypeOK'
  BY <1>22 DEF ClosePool, Life, rowVars, brokerVars, runVars, lockVars
<1>23. ASSUME NEW i \in Instance, Exit(i) \/ Crash(i) PROVE TypeOK'
  <2>1. faults' \in 0..MaxFaults
    BY <1>23 DEF Exit, Crash, Fails
  <2>2. StartAfresh(i)
    BY <1>23 DEF Exit, Crash
  <2>3. /\ pc' \in [Run -> Pc]
        /\ batch' \in [Run -> SUBSET Message]
        /\ snapshot' \in [Run -> [Message -> 0..MaxAttempts]]
    BY <2>2 DEF StartAfresh, NothingRead, Pc
  <2>4. QED
    BY <2>1, <2>2, <2>3 DEF StartAfresh, Life, rowVars, brokerVars
<1>24. ASSUME ClaimsGetStale PROVE TypeOK'
  BY <1>24 DEF ClaimsGetStale, brokerVars, runVars, lockVars, processVars, shutdownVars
<1>25. QED
  BY <1>1, <1>2, <1>3, <1>4, <1>5, <1>6, <1>7, <1>8, <1>9, <1>10, <1>11, <1>12, <1>13,
     <1>14, <1>15, <1>17, <1>18, <1>19, <1>20, <1>21, <1>22, <1>23, <1>24
     DEF Next, RunStep, Handle, ShutdownStep

(***************************************************************************)
(* Most steps concern the lock, the flag or the shutdown and leave the     *)
(* rows, the broker and the loops alone.                                   *)
(***************************************************************************)
Quiet ==
    /\ UNCHANGED <<status, attempts, brokerVars, batch, snapshot>>
    /\ \A r \in Run : pc'[r] # pc[r] => {pc[r], pc'[r]} \cap (HandlingPc \cup {"claim"}) = {}

Loud ==
    \/ \E m \in Message : Insert(m)
    \/ \E r \in Run : Reclaim(r) \/ Select(r) \/ Claim(r) \/ BatchAborts(r) \/ Handle(r)
    \/ \E i \in Instance : StartAfresh(i)

\* Every step is quiet or one of those that are not.
LEMMA QuietOrLoud ==
  ASSUME TypeOK, [Next]_vars
  PROVE  Quiet \/ Loud
<1> USE DEF TypeOK, HandlingPc
<1>1. CASE UNCHANGED vars
  BY <1>1 DEF Quiet, vars, rowVars, brokerVars, runVars
<1>2. ASSUME NEW r \in Run, Tick(r) PROVE Quiet
  BY <1>2 DEF Quiet, Tick, rowVars
<1>3. ASSUME NEW r \in Run, LockExpires(r) PROVE Quiet
  BY <1>3 DEF Quiet, LockExpires, rowVars, runVars
<1>4. ASSUME NEW r \in Run, Acquire(r) PROVE Quiet
  BY <1>4 DEF Quiet, Acquire, rowVars
<1>5. ASSUME NEW r \in Run, AcquireRefused(r) PROVE Quiet
  BY <1>5 DEF Quiet, AcquireRefused, EndRun, Leaves, rowVars
<1>6. ASSUME NEW r \in Run, AcquireFails(r) PROVE Quiet
  BY <1>6 DEF Quiet, AcquireFails, EndRun, Leaves, rowVars
<1>7. ASSUME NEW r \in Run, Release(r) PROVE Quiet
  BY <1>7 DEF Quiet, Release, EndRun, Leaves, rowVars
<1>8. ASSUME NEW r \in Run, ReleaseFails(r) PROVE Quiet
  BY <1>8 DEF Quiet, ReleaseFails, Leaves, rowVars
<1>9. ASSUME NEW i \in Instance,
             QuitRedis(i) \/ MarkShuttingDown(i) \/ ClosePool(i)
      PROVE  Quiet
  BY <1>9 DEF Quiet, QuitRedis, MarkShuttingDown, ClosePool, rowVars, runVars
<1>10. ASSUME ClaimsGetStale PROVE Quiet
  BY <1>10 DEF Quiet, ClaimsGetStale, runVars
<1>11. QED
  BY <1>1, <1>2, <1>3, <1>4, <1>5, <1>6, <1>7, <1>8, <1>9, <1>10
     DEF Next, RunStep, ShutdownStep, Exit, Crash, Loud

(***************************************************************************)
(* How a step moves the runs through their batches                         *)
(***************************************************************************)
Kept(q) == pc'[q] = pc[q] /\ batch'[q] = batch[q] /\ snapshot'[q] = snapshot[q]

OthersKept(r) == \A q \in Run \ {r} : Kept(q)

\* Runs drop what is left of their batches, or stay where they are.
Shrinks == \A q \in Run : Kept(q) \/ (batch'[q] = {} /\ pc'[q] \in {"release", "idle"})

\* Going on in the loop leaves the other runs and the other rows alone.
LEMMA AdvanceMoves ==
  ASSUME TypeOK, NEW r \in Run, NEW m \in batch[r], Advance(r, m)
  PROVE  /\ OthersKept(r)
         /\ batch'[r] = batch[r] \ {m}
         /\ pc'[r] = IF batch[r] = {m} THEN "release" ELSE "publish"
         /\ \A n \in batch'[r] : snapshot'[r][n] = snapshot[r][n]
  BY DEF TypeOK, Advance, OthersKept, Kept

\* A batch that ends early is dropped whole.
LEMMA DropShrinks ==
  ASSUME TypeOK, NEW r \in Run, DropBatch(r)
  PROVE  Shrinks /\ OthersKept(r) /\ batch'[r] = {} /\ pc'[r] = "release"
  BY DEF TypeOK, DropBatch, Shrinks, OthersKept, Kept

\* So are the batches of a process that is gone.
LEMMA AfreshShrinks ==
  ASSUME TypeOK, NEW i \in Instance, StartAfresh(i)
  PROVE  Shrinks
  BY DEF TypeOK, StartAfresh, Shrinks, Kept

\* A step of the loop at row m that is neither of these changes only where
\* its run is.
LEMMA LoopMoves ==
  ASSUME TypeOK, NEW r \in Run, NEW m \in batch[r],
         Publish(r, m) \/ PublishFails(r, m) \/ MarkPublishedFails(r, m)
  PROVE  /\ OthersKept(r)
         /\ batch'[r] = batch[r] /\ snapshot'[r] = snapshot[r]
         /\ pc[r] \in {"publish", "markPublished"}
         /\ pc'[r] \in {"markPublished", "writeFailure"}
         /\ IsHead(r, m)
  BY DEF TypeOK, Publish, PublishFails, MarkPublishedFails, OthersKept, Kept

\* A loop has one head.
LEMMA OneHead ==
  ASSUME TypeOK, NEW r \in Run, NEW m, NEW n, IsHead(r, m), IsHead(r, n)
  PROVE  m = n
<1>1. m \in batch[r] /\ n \in batch[r] /\ m <= n /\ n <= m
  BY DEF IsHead
<1>2. m \in Nat /\ n \in Nat
  BY <1>1 DEF TypeOK
<1>3. QED
  BY <1>1, <1>2

(***************************************************************************)
(* The parts of the inductive invariant, one lemma each                    *)
(***************************************************************************)

\* A step that claims is the only one after which a row that was not
\* processing is so, and no step makes a row absent.
LEMMA NeverAbsentAgain ==
  ASSUME TypeOK, [Next]_vars
  PROVE  \A n \in Message : status[n] # "absent" => status'[n] # "absent"
<1> DEFINE Goal == \A n \in Message : status[n] # "absent" => status'[n] # "absent"
<1> USE DEF TypeOK
<1>1. CASE Quiet
  BY <1>1 DEF Quiet
<1>2. ASSUME NEW m \in Message, Insert(m) PROVE Goal
  BY <1>2 DEF Insert
<1>3. CASE ReclaimRows
  BY <1>3 DEF ReclaimRows
<1>4. ASSUME NEW r \in Run, ClaimRows(r) PROVE Goal
  BY <1>4 DEF ClaimRows
<1>5. ASSUME NEW r \in Run, NEW m \in batch[r], FailRow(r, m) PROVE Goal
  BY <1>5 DEF FailRow
<1>6. CASE status' = status
  BY <1>6
<1>7. ASSUME NEW m \in Message, status' = [status EXCEPT ![m] = "published"] PROVE Goal
  BY <1>7
<1>8. ASSUME NEW r \in Run, Reclaim(r) \/ Select(r) \/ Claim(r) \/ BatchAborts(r) PROVE Goal
  BY <1>3, <1>4, <1>6, <1>8 DEF Reclaim, Select, Claim, BatchAborts, rowVars
<1>9. ASSUME NEW r \in Run, NEW m \in batch[r],
             \/ Publish(r, m) \/ PublishFails(r, m) \/ MarkPublished(r, m)
             \/ MarkPublishedFails(r, m)
      PROVE  Goal
  BY <1>6, <1>7, <1>9 DEF Publish, PublishFails, MarkPublished, MarkPublishedFails, rowVars
<1>10. ASSUME NEW r \in Run, NEW m \in batch[r],
              WriteFailure(r, m) \/ WriteFailureFails(r, m)
       PROVE  Goal
  BY <1>5, <1>6, <1>10 DEF WriteFailure, WriteFailureFails, rowVars
<1>11. ASSUME NEW i \in Instance, StartAfresh(i) PROVE Goal
  BY <1>6, <1>11 DEF StartAfresh, rowVars
<1>12. QED
  BY QuietOrLoud, <1>1, <1>2, <1>8, <1>9, <1>10, <1>11 DEF Loud, Handle

\* A run that leaves the loop has handled or dropped every row of its batch.
LEMMA NextBatchInv ==
  ASSUME TypeOK, BatchInv, [Next]_vars
  PROVE  BatchInv'
<1> USE NeverAbsentAgain DEF TypeOK, BatchInv, HandlingPc
<1>1. CASE Quiet
  BY <1>1 DEF Quiet, brokerVars
<1>2. CASE UNCHANGED runVars
  BY <1>2 DEF runVars
<1>3. CASE Shrinks
  BY <1>3 DEF Shrinks, Kept
<1>4. ASSUME NEW r \in Run, Reclaim(r) PROVE BatchInv'
  BY <1>4 DEF Reclaim
<1>5. ASSUME NEW r \in Run, Select(r) PROVE BatchInv'
  <2>1. PICK S \in SUBSET Message :
          /\ \A m \in S : status[m] = "pending"
          /\ batch' = [batch EXCEPT ![r] = S]
          /\ pc' = [pc EXCEPT ![r] = IF S = {} THEN "release" ELSE "claim"]
    BY <1>5 DEF Select, OldestSelectable, Selectable, Pending
  <2>2. QED
    BY <2>1
<1>6. ASSUME NEW r \in Run, Claim(r) PROVE BatchInv'
  BY <1>6 DEF Claim
<1>7. ASSUME NEW r \in Run, NEW m \in batch[r],
             Publish(r, m) \/ PublishFails(r, m) \/ MarkPublishedFails(r, m)
      PROVE  BatchInv'
  BY <1>7, LoopMoves DEF OthersKept, Kept
<1>8. ASSUME NEW r \in Run, NEW m \in batch[r], MarkPublished(r, m) \/ WriteFailure(r, m)
      PROVE  BatchInv'
  <2>1. Advance(r, m)
    BY <1>8 DEF MarkPublished, WriteFailure
  <2>2. /\ OthersKept(r)
        /\ batch'[r] = batch[r] \ {m}
        /\ pc'[r] = IF batch[r] = {m} THEN "release" ELSE "publish"
    BY <2>1, AdvanceMoves
  <2>3. \A q \in Run \ {r} : pc'[q] = pc[q] /\ batch'[q] = batch[q]
    BY <2>2 DEF OthersKept, Kept
  <2>4. \A q \in Run : batch'[q] \subseteq batch[q]
    BY <2>2, <2>3
  <2>5. pc'[r] \notin HandlingPc \cup {"claim"} => batch'[r] = {}
    BY <2>2
  <2>6. QED
    BY <2>3, <2>4, <2>5
<1>9. ASSUME NEW r \in Run,
             BatchAborts(r) \/ \E m \in batch[r] : WriteFailureFails(r, m)
      PROVE  BatchInv'
  BY <1>3, <1>9, DropShrinks DEF BatchAborts, WriteFailureFails
<1>10. QED
  BY QuietOrLoud, AfreshShrinks, <1>1, <1>2, <1>3, <1>4, <1>5, <1>6, <1>7, <1>8, <1>9
     DEF Loud, Handle, Insert

\* A row that is locked is pending until its claim commits: a select passes
\* it over, an update by id waits, and reclaiming looks for other rows.
LEMMA NextLockedInv ==
  ASSUME TypeOK, LockedInv, [Next]_vars
  PROVE  LockedInv'
<1> DEFINE RowsSafe == \A q \in Run : pc[q] = "claim" /\ pc'[q] = "claim" =>
                          \A n \in batch[q] : status'[n] = "pending"
           NoNewClaim == \A q \in Run : pc'[q] = "claim" => Kept(q)
<1> USE DEF TypeOK
<1>1. ASSUME RowsSafe, NoNewClaim PROVE LockedInv'
  BY <1>1 DEF LockedInv, Kept
<1>2. CASE Quiet
  BY <1>2 DEF Quiet, LockedInv
<1>3. ASSUME NEW m \in Message, Insert(m) PROVE LockedInv'
  BY <1>1, <1>3 DEF Insert, runVars, Kept, LockedInv
<1>4. ASSUME ReclaimRows PROVE RowsSafe
  BY <1>4 DEF ReclaimRows, Reclaimable, LockedInv
<1>5. ASSUME NEW r \in Run, pc[r] = "claim", pc'[r] # "claim", ClaimRows(r) PROVE RowsSafe
  BY <1>5 DEF ClaimRows, LockedInv
<1>6. ASSUME NEW m \in Message, Writable(m), \A n \in Message \ {m} : status'[n] = status[n]
      PROVE  RowsSafe
  BY <1>6 DEF Writable, RowLocks, LockedInv
<1>7. ASSUME status' = status PROVE RowsSafe
  BY <1>7 DEF LockedInv
<1>8. ASSUME NEW r \in Run, Reclaim(r) PROVE LockedInv'
  BY <1>1, <1>4, <1>8 DEF Reclaim, Kept
<1>9. ASSUME NEW r \in Run, Select(r) PROVE LockedInv'
  <2>1. PICK S \in SUBSET Message :
          /\ \A m \in S : status[m] = "pending" /\ Writable(m)
          /\ batch' = [batch EXCEPT ![r] = S]
          /\ pc' = [pc EXCEPT ![r] = IF S = {} THEN "release" ELSE "claim"]
    BY <1>9 DEF Select, OldestSelectable, Selectable, Pending
  <2>2. status' = status
    BY <1>9 DEF Select, rowVars
  <2>3. \A q \in Run : pc[q] = "claim" => batch[q] \cap S = {}
    BY <2>1 DEF Writable, RowLocks
  <2>4. QED
    BY <2>1, <2>2, <2>3 DEF LockedInv
<1>10. ASSUME NEW r \in Run, Claim(r) PROVE LockedInv'
  <2>1. /\ pc[r] = "claim"
        /\ pc' = [pc EXCEPT ![r] = "publish"]
        /\ UNCHANGED <<batch, snapshot>>
        /\ ClaimRows(r)
    BY <1>10 DEF Claim
  <2>2. QED
    BY <1>1, <1>5, <2>1 DEF Kept
<1>11. ASSUME NEW r \in Run, BatchAborts(r) PROVE LockedInv'
  <2>1. NoNewClaim /\ pc'[r] # "claim"
    BY <1>11, DropShrinks DEF BatchAborts, Shrinks
  <2>2. RowsSafe
    BY <1>4, <1>5, <1>7, <1>11, <2>1 DEF BatchAborts
  <2>3. QED
    BY <1>1, <2>1, <2>2
<1>12. ASSUME NEW r \in Run, NEW m \in batch[r],
              Publish(r, m) \/ PublishFails(r, m) \/ MarkPublishedFails(r, m)
       PROVE  LockedInv'
  <2>1. NoNewClaim
    BY <1>12, LoopMoves DEF OthersKept
  <2>2. status' = status \/ (Writable(m) /\ status' = [status EXCEPT ![m] = "published"])
    BY <1>12 DEF Publish, PublishFails, MarkPublishedFails, rowVars
  <2>3. RowsSafe
    BY <1>6, <1>7, <2>2
  <2>4. QED
    BY <1>1, <2>1, <2>3
<1>13. ASSUME NEW r \in Run, NEW m \in batch[r], MarkPublished(r, m) \/ WriteFailure(r, m)
       PROVE  LockedInv'
  <2>1. Advance(r, m)
    BY <1>13 DEF MarkPublished, WriteFailure
  <2>2. NoNewClaim
    BY <2>1, AdvanceMoves DEF OthersKept
  <2>3. Writable(m) /\ \A n \in Message \ {m} : status'[n] = status[n]
    BY <1>13 DEF MarkPublished, WriteFailure, FailRow
  <2>4. QED
    BY <1>1, <1>6, <2>2, <2>3
<1>14. ASSUME NEW r \in Run, NEW m \in batch[r], WriteFailureFails(r, m) PROVE LockedInv'
  <2>1. NoNewClaim
    BY <1>14, DropShrinks DEF WriteFailureFails, Shrinks
  <2>2. status' = status \/ (Writable(m) /\ \A n \in Message \ {m} : status'[n] = status[n])
    BY <1>14 DEF WriteFailureFails, FailRow, rowVars
  <2>3. QED
    BY <1>1, <1>6, <1>7, <2>1, <2>2
<1>15. ASSUME NEW i \in Instance, StartAfresh(i) PROVE LockedInv'
  <2>1. NoNewClaim
    BY <1>15, AfreshShrinks DEF Shrinks
  <2>2. QED
    BY <1>1, <1>7, <1>15, <2>1 DEF StartAfresh, rowVars
<1>16. QED
  BY QuietOrLoud, <1>2, <1>3, <1>8, <1>9, <1>10, <1>11, <1>12, <1>13, <1>14, <1>15
     DEF Loud, Handle

\* One more offer, and a count that was not ahead of them is behind.
LEMMA OneMoreTry ==
  \A a \in Nat, t \in 0..MaxAttempts : \A u :
      /\ a < MaxAttempts /\ a <= t
      /\ t < MaxAttempts => u = t + 1
      /\ t = MaxAttempts => u = MaxAttempts
      => a < u
  OBVIOUS

\* Offers are counted before the failure is written back, and a select takes
\* its snapshot of an open row, which no other run writes until the claim
\* commits; so no write can overstate the offers made.
LEMMA NextCountInv ==
  ASSUME TypeOK, BatchInv, LockedInv, CountInv, [Next]_vars
  PROVE  CountInv'
<1> DEFINE Rows == \A m \in Message :
                      /\ attempts[m] <= tries[m]
                      /\ status[m] \notin Settled => attempts[m] < MaxAttempts
           Runs == \A r \in Run : \A m \in batch[r] :
                      /\ snapshot[r][m] < MaxAttempts
                      /\ snapshot[r][m] <= tries[m]
                      /\ pc[r] \in {"markPublished", "writeFailure"} /\ IsHead(r, m)
                          => snapshot[r][m] < tries[m]
           RowsNext == \A m \in Message :
                      /\ attempts'[m] <= tries'[m]
                      /\ status'[m] \notin Settled => attempts'[m] < MaxAttempts
           RunsNext == \A r \in Run : \A m \in batch'[r] :
                      /\ snapshot'[r][m] < MaxAttempts
                      /\ snapshot'[r][m] <= tries'[m]
                      /\ pc'[r] \in {"markPublished", "writeFailure"} /\ IsHead(r, m)'
                          => snapshot'[r][m] < tries'[m]
<1>0. Rows /\ Runs
  BY DEF CountInv
<1>1. ASSUME RowsNext, RunsNext PROVE CountInv'
  BY <1>1 DEF CountInv
<1> HIDE DEF Rows, Runs, RowsNext, RunsNext
<1> USE <1>0 DEF TypeOK
<1>2. CASE Quiet
  <2>1. RowsNext
    BY <1>2 DEF Quiet, brokerVars, Rows, RowsNext
  <2>2. UNCHANGED <<batch, snapshot, tries>>
    BY <1>2 DEF Quiet, brokerVars
  <2>3. \A r \in Run : pc'[r] \in {"markPublished", "writeFailure"} => pc'[r] = pc[r]
    BY <1>2 DEF Quiet, HandlingPc
  <2>4. RunsNext
    BY <2>2, <2>3 DEF Runs, RunsNext, IsHead
  <2>5. QED
    BY <1>1, <2>1, <2>4
<1>3. ASSUME Shrinks, tries' = tries PROVE RunsNext
  BY <1>3 DEF Shrinks, Kept, Runs, RunsNext, IsHead
<1>4. ASSUME NEW r \in Run, NEW m \in batch[r], Advance(r, m), tries' = tries PROVE RunsNext
  <2>1. /\ \A n \in batch'[r] : n \in batch[r] /\ snapshot'[r][n] = snapshot[r][n]
        /\ pc'[r] \notin {"markPublished", "writeFailure"}
    BY <1>4, AdvanceMoves
  <2>2. \A q \in Run \ {r} : Kept(q)
    BY <1>4, AdvanceMoves DEF OthersKept
  <2>3. QED
    BY <1>4, <2>1, <2>2 DEF Kept, Runs, RunsNext, IsHead
<1>5. ASSUME ReclaimRows, UNCHANGED <<attempts, tries>> PROVE RowsNext
  BY <1>5 DEF ReclaimRows, Reclaimable, Rows, RowsNext, Settled
<1>6. ASSUME NEW r \in Run, pc[r] = "claim", ClaimRows(r), UNCHANGED <<attempts, tries>>
      PROVE  RowsNext
  BY <1>6 DEF ClaimRows, LockedInv, Rows, RowsNext, Settled
<1>7. ASSUME status' = status, UNCHANGED <<attempts, tries>> PROVE RowsNext
  BY <1>7 DEF Rows, RowsNext
<1>8. ASSUME NEW m \in Message, status' = [status EXCEPT ![m] = "published"],
             UNCHANGED <<attempts, tries>>
      PROVE  RowsNext
  BY <1>8 DEF Rows, RowsNext, Settled
<1>9. ASSUME NEW r \in Run, NEW m \in batch[r], pc[r] = "writeFailure", IsHead(r, m),
             FailRow(r, m), tries' = tries
      PROVE  RowsNext
  <2>1. m \in Message /\ snapshot[r][m] < tries[m]
    BY <1>9 DEF Runs
  <2>2. attempts' = [attempts EXCEPT ![m] = snapshot[r][m] + 1]
    BY <1>9 DEF FailRow, NextAttempts
  <2>3. \A n \in Message \ {m} : status'[n] = status[n]
    BY <1>9 DEF FailRow
  <2>4. status'[m] \notin Settled => snapshot[r][m] + 1 < MaxAttempts
    BY <1>9, <2>1 DEF FailRow, NextAttempts, Exhausted, Settled
  <2>5. snapshot[r][m] + 1 <= tries[m]
    BY <2>1
  <2>6. QED
    BY <1>9, <2>1, <2>2, <2>3, <2>4, <2>5 DEF Rows, RowsNext
<1>10. ASSUME NEW m \in Message, Insert(m) PROVE CountInv'
  <2>1. RowsNext
    BY <1>10 DEF Insert, brokerVars, Rows, RowsNext, Settled
  <2>2. RunsNext
    BY <1>10 DEF Insert, brokerVars, runVars, Runs, RunsNext, IsHead
  <2>3. QED
    BY <1>1, <2>1, <2>2
<1>11. ASSUME NEW r \in Run, Reclaim(r) \/ Claim(r) PROVE CountInv'
  <2>1. UNCHANGED <<attempts, tries, batch, snapshot>>
    BY <1>11 DEF Reclaim, Claim, brokerVars
  <2>2. RowsNext
    BY <1>5, <1>6, <1>11, <2>1 DEF Reclaim, Claim
  <2>3. \A q \in Run : pc'[q] \in {"markPublished", "writeFailure"} => pc'[q] = pc[q]
    BY <1>11 DEF Reclaim, Claim
  <2>4. RunsNext
    BY <2>1, <2>3 DEF Runs, RunsNext, IsHead
  <2>5. QED
    BY <1>1, <2>2, <2>4
<1>12. ASSUME NEW r \in Run, Select(r) PROVE CountInv'
  <2>1. PICK S \in SUBSET Message :
          /\ \A m \in S : status[m] = "pending"
          /\ batch' = [batch EXCEPT ![r] = S]
          /\ snapshot' = [snapshot EXCEPT ![r] =
                              [m \in Message |-> IF m \in S THEN attempts[m] ELSE 0]]
          /\ pc' = [pc EXCEPT ![r] = IF S = {} THEN "release" ELSE "claim"]
    BY <1>12 DEF Select, OldestSelectable, Selectable, Pending
  <2>2. UNCHANGED <<status, attempts, tries>>
    BY <1>12 DEF Select, rowVars, brokerVars
  <2>3. ASSUME NEW m \in S
        PROVE  attempts[m] < MaxAttempts /\ attempts[m] <= tries[m]
    BY <2>1 DEF Rows, Settled
  <2>4. ASSUME NEW m \in batch'[r]
        PROVE  /\ snapshot'[r][m] < MaxAttempts
               /\ snapshot'[r][m] <= tries'[m]
               /\ pc'[r] \notin {"markPublished", "writeFailure"}
    BY <2>1, <2>2, <2>3
  <2>5. \A q \in Run \ {r} : Kept(q)
    BY <2>1 DEF Kept
  <2>6. RunsNext
    BY <2>2, <2>4, <2>5 DEF Kept, Runs, RunsNext, IsHead
  <2>7. QED
    BY <1>1, <1>7, <2>2, <2>6
<1>13. ASSUME NEW r \in Run, BatchAborts(r) PROVE CountInv'
  <2>1. UNCHANGED <<attempts, tries>>
    BY <1>13 DEF BatchAborts, brokerVars
  <2>2. RowsNext
    BY <1>5, <1>6, <1>7, <1>13, <2>1 DEF BatchAborts
  <2>3. RunsNext
    BY <1>3, <1>13, <2>1, DropShrinks DEF BatchAborts
  <2>4. QED
    BY <1>1, <2>2, <2>3
<1>14. ASSUME NEW r \in Run, NEW m \in batch[r], Publish(r, m) \/ PublishFails(r, m)
       PROVE  CountInv'
  <2>1. m \in Message /\ CountTry(m) /\ UNCHANGED <<status, attempts>>
    BY <1>14 DEF Publish, PublishFails, rowVars
  <2>2. /\ \A n \in Message : tries[n] <= tries'[n]
        /\ tries[m] < MaxAttempts => tries'[m] = tries[m] + 1
        /\ tries[m] = MaxAttempts => tries'[m] = MaxAttempts
    BY <2>1 DEF CountTry
  <2>3. \A n \in Message : tries[n] \in Nat /\ tries'[n] \in Nat /\ attempts[n] \in Nat
    BY <2>1 DEF CountTry
  <2>4. RowsNext
    BY <2>1, <2>2, <2>3 DEF Rows, RowsNext
  <2>5. snapshot[r][m] < tries'[m]
    <3>1. snapshot[r][m] < MaxAttempts /\ snapshot[r][m] <= tries[m]
      BY DEF Runs
    <3>2. snapshot[r][m] \in Nat /\ tries[m] \in 0..MaxAttempts
      BY <2>1
    <3>3. QED
      BY OneMoreTry, <2>2, <3>1, <3>2
  <2>6. /\ OthersKept(r) /\ batch'[r] = batch[r] /\ snapshot'[r] = snapshot[r]
        /\ \A n \in batch[r] : IsHead(r, n)' => n = m
    <3>1. /\ OthersKept(r) /\ batch'[r] = batch[r] /\ snapshot'[r] = snapshot[r]
          /\ IsHead(r, m)
      BY <1>14, LoopMoves
    <3>2. \A n : IsHead(r, n)' => IsHead(r, n)
      BY <3>1 DEF IsHead
    <3>3. QED
      BY <3>1, <3>2, OneHead
  <2>7. ASSUME NEW q \in Run, NEW n \in batch[q]
        PROVE  /\ n \in Message /\ snapshot[q][n] \in Nat
               /\ snapshot[q][n] < MaxAttempts
               /\ snapshot[q][n] <= tries'[n]
    <3>1. n \in Message /\ snapshot[q][n] \in Nat
      OBVIOUS
    <3>2. QED
      BY <2>2, <2>3, <3>1 DEF Runs
  <2>8. ASSUME NEW n \in batch'[r]
        PROVE  /\ snapshot'[r][n] < MaxAttempts /\ snapshot'[r][n] <= tries'[n]
               /\ IsHead(r, n)' => snapshot'[r][n] < tries'[n]
    BY <2>5, <2>6, <2>7
  <2>9. ASSUME NEW q \in Run \ {r}, NEW n \in batch'[q]
        PROVE  /\ snapshot'[q][n] < MaxAttempts /\ snapshot'[q][n] <= tries'[n]
               /\ pc'[q] \in {"markPublished", "writeFailure"} /\ IsHead(q, n)'
                    => snapshot'[q][n] < tries'[n]
    <3>1. pc'[q] = pc[q] /\ batch'[q] = batch[q] /\ snapshot'[q] = snapshot[q]
      BY <2>6 DEF OthersKept, Kept
    <3>2. IsHead(q, n)' = IsHead(q, n)
      BY <3>1 DEF IsHead
    <3>3. tries[n] \in Nat /\ tries'[n] \in Nat /\ tries[n] <= tries'[n]
      BY <2>2, <2>3, <2>7, <3>1
    <3>4. n \in batch[q] /\ q \in Run
      BY <3>1
    <3>5. pc[q] \in {"markPublished", "writeFailure"} /\ IsHead(q, n)
            => snapshot[q][n] < tries[n]
      BY <3>4 DEF Runs
    <3>6. snapshot[q][n] \in Nat /\ snapshot[q][n] < MaxAttempts /\ snapshot[q][n] <= tries'[n]
      BY <2>7, <3>4
    <3>7. QED
      BY <3>1, <3>2, <3>3, <3>5, <3>6
  <2>10. RunsNext
    BY <2>8, <2>9 DEF RunsNext
  <2>11. QED
    BY <1>1, <2>4, <2>10
<1>15. ASSUME NEW r \in Run, NEW m \in batch[r], MarkPublishedFails(r, m) PROVE CountInv'
  <2>1. UNCHANGED <<attempts, tries>>
    BY <1>15 DEF MarkPublishedFails, brokerVars
  <2>2. RowsNext
    BY <1>7, <1>8, <1>15, <2>1 DEF MarkPublishedFails
  <2>3. UNCHANGED <<batch, snapshot>> /\ pc[r] = "markPublished"
        /\ pc' = [pc EXCEPT ![r] = "writeFailure"]
    BY <1>15 DEF MarkPublishedFails
  <2>4. RunsNext
    BY <2>1, <2>3 DEF Runs, RunsNext, IsHead
  <2>5. QED
    BY <1>1, <2>2, <2>4
<1>16. ASSUME NEW r \in Run, NEW m \in batch[r], MarkPublished(r, m) \/ WriteFailure(r, m)
       PROVE  CountInv'
  <2>1. Advance(r, m) /\ tries' = tries
    BY <1>16 DEF MarkPublished, WriteFailure, brokerVars
  <2>2. RowsNext
    BY <1>8, <1>9, <1>16, <2>1 DEF MarkPublished, WriteFailure
  <2>3. QED
    BY <1>1, <1>4, <2>1, <2>2
<1>17. ASSUME NEW r \in Run, NEW m \in batch[r], WriteFailureFails(r, m) PROVE CountInv'
  <2>1. DropBatch(r) /\ tries' = tries
    BY <1>17 DEF WriteFailureFails, brokerVars
  <2>2. RowsNext
    BY <1>7, <1>9, <1>17, <2>1 DEF WriteFailureFails, rowVars
  <2>3. QED
    BY <1>1, <1>3, <2>1, <2>2, DropShrinks
<1>18. ASSUME NEW i \in Instance, StartAfresh(i) PROVE CountInv'
  <2>1. UNCHANGED <<status, attempts, tries>>
    BY <1>18 DEF StartAfresh, rowVars, brokerVars
  <2>2. QED
    BY <1>1, <1>3, <1>7, <1>18, <2>1, AfreshShrinks
<1>19. QED
  BY QuietOrLoud, <1>2, <1>10, <1>11, <1>12, <1>13, <1>14, <1>15, <1>16, <1>17, <1>18
     DEF Loud, Handle

\* A count behind the offers made can reach the limit only on the last offer.
LEMMA LastTry ==
  \A a \in Nat, t \in 0..MaxAttempts :
      a < t /\ a + 1 >= MaxAttempts => t = MaxAttempts
  OBVIOUS

\* A row is given up only by a failure written on a count that reached the
\* limit, and the count never exceeds the offers made.
LEMMA NextFailedInv ==
  ASSUME TypeOK, BatchInv, CountInv, FailedAfterMaxTries, [Next]_vars
  PROVE  FailedAfterMaxTries'
<1> USE DEF TypeOK, FailedAfterMaxTries
<1>1. ASSUME \A n \in Message : status'[n] = "failed" => status[n] = "failed", tries' = tries
      PROVE  FailedAfterMaxTries'
  BY <1>1
<1>2. CASE Quiet
  BY <1>2 DEF Quiet, brokerVars
<1>3. ASSUME NEW r \in Run, NEW m \in batch[r], pc[r] = "writeFailure", IsHead(r, m),
             FailRow(r, m), tries' = tries
      PROVE  FailedAfterMaxTries'
  <2>1. m \in Message /\ snapshot[r][m] < tries[m]
    BY <1>3 DEF CountInv
  <2>2. snapshot[r][m] \in Nat /\ tries[m] \in 0..MaxAttempts
    BY <2>1
  <2>3. Exhausted(NextAttempts(r, m)) => tries[m] = MaxAttempts
    BY LastTry, <2>1, <2>2 DEF Exhausted, NextAttempts
  <2>4. status'[m] = "failed" => tries[m] = MaxAttempts
    BY <1>3, <2>1, <2>3 DEF FailRow
  <2>5. \A n \in Message \ {m} : status'[n] = status[n]
    BY <1>3 DEF FailRow
  <2>6. QED
    BY <1>3, <2>4, <2>5
<1>4. ASSUME NEW m \in Message, Insert(m) PROVE FailedAfterMaxTries'
  BY <1>1, <1>4 DEF Insert, brokerVars
<1>5. ASSUME NEW r \in Run, Reclaim(r) \/ Select(r) \/ Claim(r) \/ BatchAborts(r)
      PROVE  FailedAfterMaxTries'
  <2>1. tries' = tries
    BY <1>5 DEF Reclaim, Select, Claim, BatchAborts, brokerVars
  <2>2. status' = status \/ ReclaimRows \/ ClaimRows(r)
    BY <1>5 DEF Reclaim, Select, Claim, BatchAborts, rowVars
  <2>3. \A n \in Message : status'[n] = "failed" => status[n] = "failed"
    BY <2>2 DEF ReclaimRows, ClaimRows
  <2>4. QED
    BY <1>1, <2>1, <2>3
<1>6. ASSUME NEW r \in Run, NEW m \in batch[r], Publish(r, m) \/ PublishFails(r, m)
      PROVE  FailedAfterMaxTries'
  <2>1. status' = status /\ CountTry(m) /\ m \in Message
    BY <1>6 DEF Publish, PublishFails, rowVars
  <2>2. QED
    BY <2>1 DEF CountTry
<1>7. ASSUME NEW r \in Run, NEW m \in batch[r], MarkPublished(r, m) \/ MarkPublishedFails(r, m)
      PROVE  FailedAfterMaxTries'
  <2>1. tries' = tries
    BY <1>7 DEF MarkPublished, MarkPublishedFails, brokerVars
  <2>2. \A n \in Message : status'[n] = "failed" => status[n] = "failed"
    BY <1>7 DEF MarkPublished, MarkPublishedFails
  <2>3. QED
    BY <1>1, <2>1, <2>2
<1>8. ASSUME NEW r \in Run, NEW m \in batch[r], WriteFailure(r, m) \/ WriteFailureFails(r, m)
      PROVE  FailedAfterMaxTries'
  BY <1>1, <1>3, <1>8 DEF WriteFailure, WriteFailureFails, rowVars, brokerVars
<1>9. ASSUME NEW i \in Instance, StartAfresh(i) PROVE FailedAfterMaxTries'
  BY <1>1, <1>9 DEF StartAfresh, rowVars, brokerVars
<1>10. QED
  BY QuietOrLoud, <1>2, <1>4, <1>5, <1>6, <1>7, <1>8, <1>9 DEF Loud, Handle

\* The broker's word is kept between publish and markPublished, and no other
\* step writes the status published.
LEMMA NextDeliveredInv ==
  ASSUME TypeOK, BatchInv, DeliveredInv, [Next]_vars
  PROVE  DeliveredInv'
<1> DEFINE Word == \A r \in Run : \A m \in batch[r] :
                      pc[r] = "markPublished" /\ IsHead(r, m) => m \in delivered
           WordNext == \A r \in Run : \A m \in batch'[r] :
                      pc'[r] = "markPublished" /\ IsHead(r, m)' => m \in delivered'
           NotPublishedNow == \A n \in Message : status'[n] = "published" => status[n] = "published"
<1>0. PublishedWasDelivered /\ Word
  BY DEF DeliveredInv
<1>1. ASSUME PublishedWasDelivered', WordNext PROVE DeliveredInv'
  BY <1>1 DEF DeliveredInv
<1>2. ASSUME NotPublishedNow, delivered \subseteq delivered' PROVE PublishedWasDelivered'
  BY <1>0, <1>2 DEF PublishedWasDelivered
<1> HIDE DEF Word, WordNext
<1>3. ASSUME \A q \in Run : pc'[q] = "markPublished" => pc[q] = "markPublished" /\ batch'[q] = batch[q],
             delivered \subseteq delivered'
      PROVE  WordNext
  BY <1>0, <1>3 DEF Word, WordNext, IsHead
<1> USE DEF TypeOK
<1>4. CASE Quiet
  BY <1>1, <1>2, <1>3, <1>4 DEF Quiet, brokerVars, HandlingPc
<1>5. ASSUME NEW m \in Message, Insert(m) PROVE DeliveredInv'
  BY <1>1, <1>2, <1>3, <1>5 DEF Insert, runVars, brokerVars
<1>6. ASSUME Shrinks, delivered' = delivered PROVE WordNext
  BY <1>3, <1>6 DEF Shrinks, Kept
<1>7. ASSUME NEW r \in Run, Reclaim(r) \/ Select(r) \/ Claim(r) \/ BatchAborts(r)
      PROVE  DeliveredInv'
  <2>1. delivered' = delivered
    BY <1>7 DEF Reclaim, Select, Claim, BatchAborts, brokerVars
  <2>2. status' = status \/ ReclaimRows \/ ClaimRows(r)
    BY <1>7 DEF Reclaim, Select, Claim, BatchAborts, rowVars
  <2>3. NotPublishedNow
    BY <2>2 DEF ReclaimRows, ClaimRows
  <2>4. /\ pc'[r] # "markPublished"
        /\ \A q \in Run \ {r} : pc'[q] = pc[q] /\ batch'[q] = batch[q]
    BY <1>7 DEF Reclaim, Select, Claim, BatchAborts, DropBatch
  <2>5. QED
    BY <1>1, <1>2, <1>3, <2>1, <2>3, <2>4
<1>8. ASSUME NEW r \in Run, NEW m \in batch[r], Publish(r, m) \/ PublishFails(r, m)
      PROVE  DeliveredInv'
  <2>1. delivered \subseteq delivered' /\ NotPublishedNow
    BY <1>8 DEF Publish, PublishFails, rowVars
  <2>2. pc'[r] = "markPublished" => m \in delivered'
    BY <1>8 DEF Publish, PublishFails
  <2>3. /\ OthersKept(r) /\ batch'[r] = batch[r]
        /\ \A n \in batch[r] : IsHead(r, n)' => n = m
    <3>1. OthersKept(r) /\ batch'[r] = batch[r] /\ IsHead(r, m)
      BY <1>8, LoopMoves
    <3>2. \A n : IsHead(r, n)' => IsHead(r, n)
      BY <3>1 DEF IsHead
    <3>3. QED
      BY <3>1, <3>2, OneHead
  <2>4. ASSUME NEW q \in Run \ {r}, NEW n \in batch'[q], pc'[q] = "markPublished", IsHead(q, n)'
        PROVE  n \in delivered'
    BY <1>0, <2>1, <2>3, <2>4 DEF OthersKept, Kept, Word, IsHead
  <2>5. WordNext
    BY <2>2, <2>3, <2>4 DEF WordNext
  <2>6. QED
    BY <1>1, <1>2, <2>1, <2>5
<1>9. ASSUME NEW r \in Run, NEW m \in batch[r], MarkPublished(r, m) \/ MarkPublishedFails(r, m)
      PROVE  DeliveredInv'
  <2>1. m \in delivered /\ delivered' = delivered
    BY <1>0, <1>9 DEF MarkPublished, MarkPublishedFails, brokerVars, Word
  <2>2. \A n \in Message \ {m} : status'[n] = status[n]
    BY <1>9 DEF MarkPublished, MarkPublishedFails
  <2>3. PublishedWasDelivered'
    BY <1>0, <2>1, <2>2 DEF PublishedWasDelivered
  <2>4. /\ pc'[r] # "markPublished"
        /\ \A q \in Run \ {r} : pc'[q] = pc[q] /\ batch'[q] = batch[q]
    BY <1>9 DEF MarkPublished, MarkPublishedFails, Advance
  <2>5. QED
    BY <1>1, <1>3, <2>1, <2>3, <2>4
<1>10. ASSUME NEW r \in Run, NEW m \in batch[r], WriteFailure(r, m) \/ WriteFailureFails(r, m)
      PROVE  DeliveredInv'
  <2>1. NotPublishedNow
    BY <1>10 DEF WriteFailure, WriteFailureFails, FailRow, rowVars
  <2>2. delivered' = delivered
    BY <1>10 DEF WriteFailure, WriteFailureFails, brokerVars
  <2>3. /\ pc'[r] # "markPublished"
        /\ \A q \in Run \ {r} : pc'[q] = pc[q] /\ batch'[q] = batch[q]
    BY <1>10 DEF WriteFailure, WriteFailureFails, Advance, DropBatch
  <2>4. QED
    BY <1>1, <1>2, <1>3, <2>1, <2>2, <2>3
<1>11. ASSUME NEW i \in Instance, StartAfresh(i) PROVE DeliveredInv'
  <2>1. UNCHANGED <<status, delivered>>
    BY <1>11 DEF StartAfresh, rowVars, brokerVars
  <2>2. QED
    BY <1>1, <1>2, <1>6, <1>11, <2>1, AfreshShrinks
<1>12. QED
  BY QuietOrLoud, <1>4, <1>5, <1>7, <1>8, <1>9, <1>10, <1>11 DEF Loud, Handle

\* A row of a batch, as its run knows it where nothing is reclaimed.
Owned(r, m) ==
    \/ status[m] = "processing"
    \/ status[m] = "published" /\ pc[r] = "writeFailure" /\ IsHead(r, m)

\* A select takes pending rows that no claim has locked; rows in a loop are
\* processing, or published by their own run; and without reclaiming nobody
\* else changes that.
LEMMA NextOwnerInv ==
  ASSUME TypeOK, BatchInv, LockedInv, OwnerInv, [Next]_vars
  PROVE  OwnerInv'
<1> DEFINE Disjoint == \A r, q \in Run : r # q => batch[r] \cap batch[q] = {}
           Own == \A r \in Run : \A m \in batch[r] : pc[r] \in HandlingPc => Owned(r, m)
           OwnNext == \A r \in Run : \A m \in batch'[r] : pc'[r] \in HandlingPc => Owned(r, m)'
<1> SUFFICES ASSUME ~ReclaimEnabled PROVE Disjoint' /\ OwnNext
  BY DEF OwnerInv, Owned
<1>0. Disjoint /\ Own
  BY DEF OwnerInv, Owned
<1> HIDE DEF Own, OwnNext
<1>1. ASSUME \A q \in Run : batch'[q] \subseteq batch[q] PROVE Disjoint'
  BY <1>0, <1>1
<1>2. ASSUME NEW r \in Run,
             \A n \in Message \ batch[r] : status'[n] = status[n],
             OthersKept(r), batch'[r] = {}
      PROVE  OwnNext
  <2>1. ASSUME NEW q \in Run, NEW n \in batch'[q], pc'[q] \in HandlingPc PROVE Owned(q, n)'
    <3>1. q # r /\ pc'[q] = pc[q] /\ batch'[q] = batch[q]
      BY <1>2, <2>1 DEF OthersKept, Kept
    <3>2. n \in Message /\ n \notin batch[r] /\ Owned(q, n)
      BY <1>0, <2>1, <3>1 DEF TypeOK, Own
    <3>3. status'[n] = status[n]
      BY <1>2, <3>2
    <3>4. QED
      BY <3>1, <3>2, <3>3 DEF Owned, IsHead
  <2>2. QED
    BY <2>1 DEF OwnNext
<1> USE DEF TypeOK
<1>3. CASE Quiet
  <2>1. \A q \in Run : pc'[q] \in HandlingPc => pc'[q] = pc[q]
    BY <1>3 DEF Quiet
  <2>2. UNCHANGED <<status, batch>>
    BY <1>3 DEF Quiet
  <2>3. OwnNext
    BY <1>0, <2>1, <2>2 DEF Own, OwnNext, Owned, IsHead
  <2>4. QED
    BY <1>0, <2>2, <2>3
<1>4. ASSUME NEW m \in Message, Insert(m) PROVE Disjoint' /\ OwnNext
  <2>1. UNCHANGED <<pc, batch>> /\ \A n \in Message \ {m} : status'[n] = status[n]
    BY <1>4 DEF Insert, runVars
  <2>2. \A q \in Run : m \notin batch[q]
    BY <1>4 DEF Insert, BatchInv
  <2>3. OwnNext
    BY <1>0, <2>1, <2>2 DEF Own, OwnNext, Owned, IsHead
  <2>4. QED
    BY <1>0, <2>1, <2>3
<1>5. ASSUME NEW r \in Run, Reclaim(r) PROVE Disjoint' /\ OwnNext
  <2>1. UNCHANGED <<status, batch>>
    BY <1>5 DEF Reclaim, ReclaimRows
  <2>2. \A q \in Run : pc'[q] \in HandlingPc => pc'[q] = pc[q]
    BY <1>5 DEF Reclaim, HandlingPc
  <2>3. OwnNext
    BY <1>0, <2>1, <2>2 DEF Own, OwnNext, Owned, IsHead
  <2>4. QED
    BY <1>0, <2>1, <2>3
<1>6. ASSUME NEW r \in Run, Select(r) PROVE Disjoint' /\ OwnNext
  <2>1. PICK S \in SUBSET Message :
          /\ \A m \in S : status[m] = "pending" /\ Writable(m)
          /\ batch' = [batch EXCEPT ![r] = S]
          /\ pc' = [pc EXCEPT ![r] = IF S = {} THEN "release" ELSE "claim"]
    BY <1>6 DEF Select, OldestSelectable, Selectable, Pending
  <2>2. status' = status
    BY <1>6 DEF Select, rowVars
  <2>3. ASSUME NEW q \in Run \ {r}, NEW n \in S PROVE n \notin batch[q]
    <3>1. CASE pc[q] = "claim"
      BY <2>1, <3>1 DEF Writable, RowLocks
    <3>2. CASE pc[q] \in HandlingPc
      BY <1>0, <2>1, <3>2 DEF Own, Owned
    <3>3. CASE pc[q] \notin HandlingPc \cup {"claim"}
      BY <3>3 DEF BatchInv
    <3>4. QED
      BY <3>1, <3>2, <3>3
  <2>4. Disjoint'
    BY <1>0, <2>1, <2>3
  <2>5. /\ pc'[r] \notin HandlingPc
        /\ \A q \in Run \ {r} : pc'[q] = pc[q] /\ batch'[q] = batch[q]
    BY <2>1 DEF HandlingPc
  <2>6. OwnNext
    BY <1>0, <2>2, <2>5 DEF Own, OwnNext, Owned, IsHead
  <2>7. QED
    BY <2>4, <2>6
<1>7. ASSUME NEW r \in Run, Claim(r) PROVE Disjoint' /\ OwnNext
  <2>1. /\ ClaimRows(r)
        /\ batch' = batch
        /\ \A q \in Run \ {r} : pc'[q] = pc[q]
    BY <1>7 DEF Claim
  <2>2. \A n \in batch[r] : Owned(r, n)'
    BY <2>1 DEF ClaimRows, Owned
  <2>3. ASSUME NEW q \in Run \ {r}, NEW n \in batch[q], pc[q] \in HandlingPc PROVE Owned(q, n)'
    <3>1. n \notin batch[r] /\ n \in Message /\ Owned(q, n)
      BY <1>0, <2>3 DEF Own
    <3>2. status'[n] = status[n]
      BY <2>1, <3>1 DEF ClaimRows
    <3>3. QED
      BY <2>1, <3>1, <3>2 DEF Owned, IsHead
  <2>4. OwnNext
    BY <2>1, <2>2, <2>3 DEF OwnNext
  <2>5. QED
    BY <1>0, <2>1, <2>4
<1>8. ASSUME NEW r \in Run, BatchAborts(r) PROVE Disjoint' /\ OwnNext
  <2>1. OthersKept(r) /\ batch'[r] = {}
    BY <1>8, DropShrinks DEF BatchAborts
  <2>2. \A n \in Message \ batch[r] : status'[n] = status[n]
    BY <1>8 DEF BatchAborts, ReclaimRows, ClaimRows
  <2>3. QED
    BY <1>1, <1>2, <2>1, <2>2 DEF OthersKept, Kept
<1>9. ASSUME NEW r \in Run, NEW m \in batch[r], Publish(r, m) \/ PublishFails(r, m)
      PROVE  Disjoint' /\ OwnNext
  <2>1. status' = status
    BY <1>9 DEF Publish, PublishFails, rowVars
  <2>2. /\ OthersKept(r) /\ batch'[r] = batch[r] /\ pc[r] \in HandlingPc
        /\ pc[r] = "publish"
    BY <1>9, LoopMoves DEF Publish, PublishFails, HandlingPc
  <2>3. \A n \in batch[r] : status[n] = "processing"
    BY <1>0, <2>2 DEF Own, Owned
  <2>4. OwnNext
    BY <1>0, <2>1, <2>2, <2>3 DEF OthersKept, Kept, Own, OwnNext, Owned, IsHead
  <2>5. QED
    BY <1>1, <2>2, <2>4 DEF OthersKept, Kept
<1>10. ASSUME NEW r \in Run, NEW m \in batch[r], MarkPublishedFails(r, m)
       PROVE  Disjoint' /\ OwnNext
  <2>1. /\ OthersKept(r) /\ batch'[r] = batch[r] /\ IsHead(r, m)
        /\ pc[r] = "markPublished" /\ pc'[r] = "writeFailure"
    BY <1>10, LoopMoves DEF MarkPublishedFails
  <2>2. /\ \A n \in Message \ {m} : status'[n] = status[n]
        /\ status'[m] \in {status[m], "published"}
    BY <1>10 DEF MarkPublishedFails
  <2>3. \A n \in batch[r] : status[n] = "processing"
    BY <1>0, <2>1 DEF Own, Owned, HandlingPc
  <2>4. \A n \in batch[r] : Owned(r, n)'
    BY <2>1, <2>2, <2>3 DEF Owned, IsHead
  <2>5. ASSUME NEW q \in Run \ {r}, NEW n \in batch'[q], pc'[q] \in HandlingPc PROVE Owned(q, n)'
    <3>1. pc'[q] = pc[q] /\ batch'[q] = batch[q]
      BY <2>1 DEF OthersKept, Kept
    <3>2. n # m /\ n \in Message /\ Owned(q, n)
      BY <1>0, <2>5, <3>1 DEF Own
    <3>3. QED
      BY <2>2, <3>1, <3>2 DEF Owned, IsHead
  <2>6. OwnNext
    BY <2>1, <2>4, <2>5 DEF OwnNext
  <2>7. QED
    BY <1>1, <2>1, <2>6 DEF OthersKept, Kept
<1>11. ASSUME NEW r \in Run, NEW m \in batch[r], MarkPublished(r, m) \/ WriteFailure(r, m)
       PROVE  Disjoint' /\ OwnNext
  <2>1. Advance(r, m)
    BY <1>11 DEF MarkPublished, WriteFailure
  <2>2. OthersKept(r) /\ batch'[r] = batch[r] \ {m}
    BY <2>1, AdvanceMoves
  <2>3. \A n \in Message \ {m} : status'[n] = status[n]
    BY <1>11 DEF MarkPublished, WriteFailure, FailRow
  <2>4. IsHead(r, m) /\ pc[r] \in HandlingPc
    BY <1>11 DEF MarkPublished, WriteFailure, HandlingPc
  <2>5. ASSUME NEW n \in batch'[r] PROVE Owned(r, n)'
    <3>1. n \in batch[r] /\ n # m /\ n \in Message /\ m \in Message
      BY <2>2, <2>5
    <3>2. Owned(r, n)
      BY <1>0, <2>4, <3>1 DEF Own
    <3>3. n \in Nat /\ m \in Nat
      BY <3>1
    <3>4. ~IsHead(r, n)
      BY <2>4, <3>1, <3>3 DEF IsHead
    <3>5. status[n] = "processing"
      BY <3>2, <3>4 DEF Owned
    <3>6. QED
      BY <2>3, <3>1, <3>5 DEF Owned
  <2>6. ASSUME NEW q \in Run \ {r}, NEW n \in batch'[q], pc'[q] \in HandlingPc PROVE Owned(q, n)'
    <3>1. pc'[q] = pc[q] /\ batch'[q] = batch[q]
      BY <2>2 DEF OthersKept, Kept
    <3>2. n # m /\ n \in Message /\ Owned(q, n)
      BY <1>0, <2>6, <3>1 DEF Own
    <3>3. QED
      BY <2>3, <3>1, <3>2 DEF Owned, IsHead
  <2>7. OwnNext
    BY <2>5, <2>6 DEF OwnNext
  <2>8. QED
    BY <1>1, <2>2, <2>7 DEF OthersKept, Kept
<1>12. ASSUME NEW r \in Run, NEW m \in batch[r], WriteFailureFails(r, m)
       PROVE  Disjoint' /\ OwnNext
  <2>1. OthersKept(r) /\ batch'[r] = {}
    BY <1>12, DropShrinks DEF WriteFailureFails
  <2>2. \A n \in Message \ batch[r] : status'[n] = status[n]
    BY <1>12 DEF WriteFailureFails, FailRow, rowVars
  <2>3. QED
    BY <1>1, <1>2, <2>1, <2>2 DEF OthersKept, Kept
<1>13. ASSUME NEW i \in Instance, StartAfresh(i) PROVE Disjoint' /\ OwnNext
  <2>1. status' = status /\ Shrinks
    BY <1>13, AfreshShrinks DEF StartAfresh, rowVars
  <2>2. OwnNext
    BY <1>0, <2>1 DEF Shrinks, Kept, Own, OwnNext, Owned, IsHead
  <2>3. QED
    BY <1>1, <2>1, <2>2 DEF Shrinks, Kept
<1>14. QED
  BY QuietOrLoud, <1>3, <1>4, <1>5, <1>6, <1>7, <1>8, <1>9, <1>10, <1>11, <1>12, <1>13
     DEF Loud, Handle

(***************************************************************************)
(* Theorems                                                                *)
(***************************************************************************)

\* The inductive invariant holds at the start: no row, no run.
LEMMA InitIInv == Init => IInv
  BY InitTypeOK DEF Init, IInv, BatchInv, LockedInv, CountInv, FailedAfterMaxTries,
     DeliveredInv, PublishedWasDelivered, OwnerInv, Settled, NothingRead, HandlingPc

\* Every step keeps it.
LEMMA NextIInv == IInv /\ [Next]_vars => IInv'
  BY NextTypeOK, NextBatchInv, NextLockedInv, NextCountInv, NextFailedInv,
     NextDeliveredInv, NextOwnerInv
     DEF IInv

\* The inductive invariant is an invariant of the relay.
THEOREM RelayInvariant == Spec => []IInv
  BY InitIInv, NextIInv, PTL DEF Spec

\* Every variable has its type; in particular the column attempts stays
\* within OUTBOX_RELAY_MAX_ATTEMPTS although it is written from snapshots.
THEOREM RelayTypeOK == Spec => []TypeOK
<1>1. IInv => TypeOK
  BY DEF IInv
<1>2. QED
  BY RelayInvariant, <1>1, PTL

\* Nothing is called published that the broker has not received.
THEOREM RelayPublishedWasDelivered == Spec => []PublishedWasDelivered
<1>1. IInv => PublishedWasDelivered
  BY DEF IInv, DeliveredInv
<1>2. QED
  BY RelayInvariant, <1>1, PTL

\* Nothing is given up before MaxAttempts offers were made.
THEOREM RelayFailedAfterMaxTries == Spec => []FailedAfterMaxTries
<1>1. IInv => FailedAfterMaxTries
  BY DEF IInv
<1>2. QED
  BY RelayInvariant, <1>1, PTL

\* With OUTBOX_RECLAIM_ENABLED=false no row is ever handled by two runs, under
\* either lock, however the transactions of their claims interleave.
THEOREM RelayExclusiveClaim ==
  ASSUME ~ReclaimEnabled
  PROVE  Spec => []ExclusiveClaim
<1>1. IInv => ExclusiveClaim
  BY DEF IInv, OwnerInv, ExclusiveClaim, Handled
<1>2. QED
  BY RelayInvariant, <1>1, PTL

\* Where nothing is reclaimed, the run that is to write a row's failure is the
\* only one to have the row, and it has it as its head.
LEMMA DoubtOfOwn ==
  ASSUME IInv, ~ReclaimEnabled, NEW r \in Run, NEW m \in batch[r], pc[r] \in HandlingPc
  PROVE  \/ status[m] = "processing"
         \/ status[m] = "published" /\ pc[r] = "writeFailure" /\ TakenForFailure(m)
  BY DEF IInv, OwnerInv, TakenForFailure

\* Without reclaiming, what a step writes over is a row that was still open,
\* or one that its own run published without being told.
LEMMA NextSettled ==
  ASSUME IInv, ~ReclaimEnabled, [Next]_vars
  PROVE  \A m \in Message :
           /\ status[m] = "failed" => status'[m] = "failed"
           /\ status[m] = "published" /\ status'[m] # "published" => TakenForFailure(m)
<1> DEFINE Goal == \A m \in Message :
                      /\ status[m] = "failed" => status'[m] = "failed"
                      /\ status[m] = "published" /\ status'[m] # "published"
                           => TakenForFailure(m)
<1>0. TypeOK /\ LockedInv
  BY DEF IInv
<1> USE <1>0 DEF TypeOK
<1>1. ASSUME \A n \in Message : status[n] \in {"published", "failed"} => status'[n] = status[n]
      PROVE  Goal
  BY <1>1
<1>2. ASSUME NEW r \in Run, NEW m \in batch[r], pc[r] \in HandlingPc,
             \A n \in Message \ {m} : status'[n] = status[n]
      PROVE  Goal
  BY <1>2, DoubtOfOwn
<1>3. ASSUME status' = status PROVE Goal
  BY <1>1, <1>3
<1>4. ASSUME NEW m \in Message, Insert(m) PROVE Goal
  BY <1>1, <1>4 DEF Insert
<1>5. ASSUME NEW r \in Run, Reclaim(r) \/ Select(r) \/ Claim(r) \/ BatchAborts(r) PROVE Goal
  <2>1. status' = status \/ (pc[r] = "claim" /\ ClaimRows(r))
    BY <1>5 DEF Reclaim, Select, Claim, BatchAborts, ReclaimRows, rowVars
  <2>2. pc[r] = "claim" /\ ClaimRows(r) => Goal
    BY <1>1 DEF ClaimRows, LockedInv
  <2>3. QED
    BY <1>3, <2>1, <2>2
<1>6. ASSUME NEW r \in Run, NEW m \in batch[r], Publish(r, m) \/ PublishFails(r, m) PROVE Goal
  BY <1>3, <1>6 DEF Publish, PublishFails, rowVars
<1>7. ASSUME NEW r \in Run, NEW m \in batch[r],
             \/ MarkPublished(r, m) \/ MarkPublishedFails(r, m)
             \/ WriteFailure(r, m) \/ WriteFailureFails(r, m)
      PROVE  Goal
  <2>1. pc[r] \in HandlingPc
    BY <1>7 DEF MarkPublished, MarkPublishedFails, WriteFailure, WriteFailureFails, HandlingPc
  <2>2. \A n \in Message \ {m} : status'[n] = status[n]
    BY <1>7 DEF MarkPublished, MarkPublishedFails, WriteFailure, WriteFailureFails, FailRow,
                rowVars
  <2>3. QED
    BY <1>2, <2>1, <2>2
<1>8. ASSUME NEW i \in Instance, StartAfresh(i) PROVE Goal
  BY <1>3, <1>8 DEF StartAfresh, rowVars
<1>9. CASE Quiet
  BY <1>3, <1>9 DEF Quiet
<1>10. QED
  BY QuietOrLoud, <1>4, <1>5, <1>6, <1>7, <1>8, <1>9 DEF Loud, Handle

\* In a deployment that does not reclaim, failed is final, and published is
\* left only by the run that published the row and got no reply.
THEOREM RelaySettledIsFinal ==
  ASSUME ~ReclaimEnabled
  PROVE  Spec => SettledIsFinal
<1>1. IInv /\ [Next]_vars
        => [\A m \in Message :
              /\ status[m] = "failed" => status'[m] = "failed"
              /\ status[m] = "published" /\ status'[m] # "published"
                   => TakenForFailure(m)]_vars
  BY NextSettled
<1>2. QED
  BY RelayInvariant, <1>1, PTL DEF Spec, SettledIsFinal

(***************************************************************************)
(* OutboxRelay implements OutboxDelivery under either lock: the promise of *)
(* the outbox does not rest on the lock at all.                            *)
(***************************************************************************)

\* A row that is open for a reader of the table.
Open(m) ==
    \/ status[m] \in {"pending", "processing"}
    \/ status[m] = "published" /\ ~ReclaimEnabled /\ TakenForFailure(m)

OutcomeType == [Message -> {"absent", "open", "published", "failed"}]

\* What a reader of the table sees of row m before and after the step.
LEMMA OutcomeOf ==
  ASSUME TypeOK, TypeOK'
  PROVE  /\ Outcome \in OutcomeType
         /\ Outcome' \in OutcomeType
         /\ \A m \in Message :
              /\ Outcome[m] = IF Open(m) THEN "open" ELSE status[m]
              /\ Outcome'[m] = IF Open(m)' THEN "open" ELSE status'[m]
<1>1. \A m \in Message :
        /\ Outcome[m] = IF Open(m) THEN "open" ELSE status[m]
        /\ Outcome'[m] = IF Open(m)' THEN "open" ELSE status'[m]
  BY DEF Outcome, Open
<1>2. \A m \in Message : status[m] \in Status /\ status'[m] \in Status
  BY DEF TypeOK
<1>3. \A m \in Message : Outcome[m] \in {"absent", "open", "published", "failed"}
  BY <1>1, <1>2 DEF Open, Status
<1>4. \A m \in Message : Outcome'[m] \in {"absent", "open", "published", "failed"}
  BY <1>1, <1>2 DEF Open, Status
<1>5. Outcome \in OutcomeType
  BY <1>3 DEF Outcome, OutcomeType
<1>6. Outcome' \in OutcomeType
  BY <1>4 DEF Outcome, OutcomeType
<1>7. QED
  BY <1>1, <1>5, <1>6

\* Two outcomes that agree on every row are equal.
LEMMA SameOutcome ==
  ASSUME TypeOK, TypeOK', NEW f \in OutcomeType, \A n \in Message : Outcome'[n] = f[n]
  PROVE  Outcome' = f
<1>1. PICK new \in OutcomeType : new = Outcome'
  BY OutcomeOf
<1>2. \A n \in Message : new[n] = f[n]
  BY <1>1
<1>3. new = [n \in Message |-> new[n]] /\ f = [n \in Message |-> f[n]]
  BY DEF OutcomeType
<1>4. [n \in Message |-> new[n]] = [n \in Message |-> f[n]]
  BY <1>2
<1>5. QED
  BY <1>1, <1>3, <1>4

\* A step of a run at its head leaves the outcome of the other rows alone.
LEMMA ElsewhereSame ==
  ASSUME TypeOK, TypeOK', NEW r \in Run, NEW m \in batch[r], IsHead(r, m), OthersKept(r),
         pc'[r] = "writeFailure" => batch'[r] = batch[r],
         \A n \in Message \ {m} : status'[n] = status[n]
  PROVE  \A n \in Message \ {m} : Outcome'[n] = Outcome[n]
<1> TAKE n \in Message \ {m}
<1>1. TakenForFailure(n) => TakenForFailure(n)'
  <2>1. ASSUME NEW q \in Run, pc[q] = "writeFailure", IsHead(q, n)
        PROVE  pc'[q] = "writeFailure" /\ IsHead(q, n)'
    <3>1. q # r
      BY <2>1, OneHead
    <3>2. pc'[q] = pc[q] /\ batch'[q] = batch[q]
      BY <3>1 DEF OthersKept, Kept
    <3>3. QED
      BY <2>1, <3>2 DEF IsHead
  <2>2. QED
    BY <2>1 DEF TakenForFailure
<1>2. TakenForFailure(n)' => TakenForFailure(n)
  <2>1. ASSUME NEW q \in Run, pc'[q] = "writeFailure", IsHead(q, n)'
        PROVE  pc[q] = "writeFailure" /\ IsHead(q, n)
    <3>1. batch'[q] = batch[q]
      BY <2>1 DEF OthersKept, Kept
    <3>2. IsHead(q, n)
      BY <2>1, <3>1 DEF IsHead
    <3>3. q # r
      BY <3>2, OneHead
    <3>4. QED
      BY <2>1, <3>2, <3>3 DEF OthersKept, Kept
  <2>2. QED
    BY <2>1 DEF TakenForFailure
<1>3. Open(n)' <=> Open(n)
  BY <1>1, <1>2 DEF Open
<1>4. QED
  BY <1>3, OutcomeOf

\* Steps that no run takes at a row it is to write a failure for.
LEMMA TakenSame ==
  ASSUME \A q \in Run : pc[q] = "writeFailure" \/ pc'[q] = "writeFailure" =>
                           pc'[q] = pc[q] /\ batch'[q] = batch[q]
  PROVE  \A n \in Message : TakenForFailure(n)' <=> TakenForFailure(n)
  BY DEF TakenForFailure, IsHead

\* The rows of a batch are committed, and open unless reclaiming let another
\* run settle them meanwhile.
LEMMA BatchMaySettle ==
  ASSUME IInv, NEW r \in Run, NEW m \in batch[r], pc[r] \in HandlingPc
  PROVE  Outcome[m] # "absent" /\ Delivery!MaySettle(m)
<1>1. m \in Message /\ status[m] \in Status /\ status[m] # "absent"
  BY DEF IInv, TypeOK, BatchInv
<1>2. CASE ~ReclaimEnabled
  BY <1>1, <1>2, DoubtOfOwn DEF Outcome, Delivery!MaySettle
<1>3. CASE ReclaimEnabled
  BY <1>1, <1>3 DEF Outcome, Status, Delivery!MaySettle, Delivery!Settled
<1>4. QED
  BY <1>2, <1>3

\* A write to one row that may be settled is a step of OutboxDelivery.
LEMMA OneRowRefines ==
  ASSUME IInv, IInv', UNCHANGED <<delivered, tries>>, NEW m \in Message,
         \A n \in Message \ {m} : Outcome'[n] = Outcome[n],
         Delivery!MaySettle(m), Outcome[m] # "absent", status'[m] # "absent"
  PROVE  [Delivery!Next]_(Delivery!vars)
<1>0. TypeOK /\ TypeOK'
  BY DEF IInv
<1> USE <1>0
<1>1. /\ Outcome \in OutcomeType
      /\ Outcome'[m] = IF Open(m)' THEN "open" ELSE status'[m]
  BY OutcomeOf
<1>2. status'[m] \in Status
  BY DEF TypeOK
<1>3. Outcome'[m] \in {"open", "published", "failed"}
  BY <1>1, <1>2 DEF Status, Open
<1>4. ASSUME NEW o \in {"open", "published", "failed"}, Outcome'[m] = o
      PROVE  Outcome' = [Outcome EXCEPT ![m] = o]
  <2>1. [Outcome EXCEPT ![m] = o] \in OutcomeType
    BY <1>1 DEF OutcomeType
  <2>2. \A n \in Message : Outcome'[n] = [Outcome EXCEPT ![m] = o][n]
    BY <1>1, <1>4 DEF OutcomeType
  <2>3. QED
    BY <2>1, <2>2, SameOutcome
<1>5. CASE Outcome'[m] = Outcome[m]
  <2>1. Outcome' = Outcome
    BY <1>1, <1>5, SameOutcome
  <2>2. QED
    BY <2>1 DEF Delivery!vars
<1>6. CASE Outcome'[m] = "published"
  <2>1. m \in delivered
    <3>1. status'[m] = "published"
      BY <1>1, <1>6
    <3>2. QED
      BY <3>1 DEF IInv, DeliveredInv, PublishedWasDelivered
  <2>2. Outcome' = [n \in Message |-> IF n \in {m} THEN "published" ELSE Outcome[n]]
    BY <1>1, <1>4, <1>6 DEF OutcomeType
  <2>3. Delivery!Publish({m})
    BY <2>1, <2>2 DEF Delivery!Publish
  <2>4. QED
    BY <2>3 DEF Delivery!Next
<1>7. CASE Outcome'[m] = "failed"
  <2>1. status'[m] = "failed"
    BY <1>1, <1>7
  <2>2. tries[m] = MaxAttempts
    BY <2>1 DEF IInv, FailedAfterMaxTries
  <2>3. Delivery!GiveUp(m)
    BY <1>4, <1>7, <2>2 DEF Delivery!GiveUp
  <2>4. QED
    BY <2>3 DEF Delivery!Next
<1>8. CASE Outcome'[m] = "open" /\ Outcome[m] # "open"
  <2>1. ReclaimEnabled /\ Outcome[m] \in Delivery!Settled
    BY <1>8 DEF Delivery!MaySettle
  <2>2. Delivery!Reopen(m)
    BY <1>4, <1>8, <2>1 DEF Delivery!Reopen
  <2>3. QED
    BY <2>2 DEF Delivery!Next
<1>9. QED
  BY <1>3, <1>5, <1>6, <1>7, <1>8

\* Before anything happened the table shows no event.
LEMMA InitRefines == Init => Delivery!Init
  BY DEF Init, Delivery!Init, Outcome

\* Each step of the relay is one of OutboxDelivery or changes nothing there.
LEMMA NextRefines ==
  ASSUME IInv, IInv', [Next]_vars
  PROVE  [Delivery!Next]_(Delivery!vars)
<1> DEFINE Goal == [Delivery!Next]_(Delivery!vars)
           NothingTaken == \A n \in Message : TakenForFailure(n)' <=> TakenForFailure(n)
<1>0. TypeOK /\ TypeOK' /\ Outcome \in OutcomeType
  BY OutcomeOf DEF IInv
<1> USE <1>0
<1>1. ASSUME \A n \in Message : Outcome'[n] = Outcome[n], UNCHANGED <<delivered, tries>>
      PROVE  Goal
  <2>1. Outcome' = Outcome
    BY <1>1, SameOutcome
  <2>2. QED
    BY <1>1, <2>1 DEF Delivery!vars
<1>2. ASSUME NothingTaken, \A n \in Message : \/ status'[n] = status[n]
                                              \/ {status[n], status'[n]} \subseteq {"pending", "processing"}
      PROVE  \A n \in Message : Outcome'[n] = Outcome[n]
  BY <1>2, OutcomeOf DEF Open
<1>3. CASE Quiet
  <2>1. NothingTaken
    BY <1>3, TakenSame DEF Quiet, HandlingPc
  <2>2. QED
    BY <1>1, <1>2, <1>3, <2>1 DEF Quiet, brokerVars
<1>4. ASSUME NEW m \in Message, Insert(m) PROVE Goal
  <2>1. NothingTaken
    BY <1>4, TakenSame DEF Insert, runVars
  <2>2. status[m] = "absent" /\ status'[m] = "pending"
        /\ \A n \in Message \ {m} : status'[n] = status[n]
    BY <1>4 DEF Insert, TypeOK
  <2>3. Outcome[m] = "absent" /\ Outcome'[m] = "open"
    BY <2>2, OutcomeOf DEF Open
  <2>4. \A n \in Message \ {m} : Outcome'[n] = Outcome[n]
    BY <2>1, <2>2, OutcomeOf DEF Open
  <2>5. [Outcome EXCEPT ![m] = "open"] \in OutcomeType
    BY DEF OutcomeType
  <2>6. \A n \in Message : Outcome'[n] = [Outcome EXCEPT ![m] = "open"][n]
    BY <2>3, <2>4 DEF OutcomeType
  <2>7. Outcome' = [Outcome EXCEPT ![m] = "open"]
    BY <2>5, <2>6, SameOutcome
  <2>8. Delivery!Commit(m)
    BY <1>4, <2>3, <2>7 DEF Insert, brokerVars, Delivery!Commit
  <2>9. QED
    BY <2>8 DEF Delivery!Next
<1>5. ASSUME NEW r \in Run, Reclaim(r) \/ Select(r) \/ Claim(r) \/ BatchAborts(r) PROVE Goal
  <2>1. /\ pc[r] # "writeFailure" /\ pc'[r] # "writeFailure"
        /\ \A q \in Run \ {r} : pc'[q] = pc[q] /\ batch'[q] = batch[q]
    BY <1>5 DEF Reclaim, Select, Claim, BatchAborts, DropBatch, TypeOK
  <2>2. NothingTaken
    BY <2>1, TakenSame
  <2>3. status' = status \/ ReclaimRows \/ (pc[r] = "claim" /\ ClaimRows(r))
    BY <1>5 DEF Reclaim, Select, Claim, BatchAborts, rowVars
  <2>4. ASSUME NEW n \in Message
        PROVE  \/ status'[n] = status[n]
               \/ {status[n], status'[n]} \subseteq {"pending", "processing"}
    <3>1. CASE status' = status
      BY <3>1
    <3>2. CASE ReclaimRows
      BY <3>2 DEF ReclaimRows, Reclaimable
    <3>3. CASE pc[r] = "claim" /\ ClaimRows(r)
      BY <3>3 DEF ClaimRows, IInv, LockedInv
    <3>4. QED
      BY <2>3, <3>1, <3>2, <3>3
  <2>5. UNCHANGED <<delivered, tries>>
    BY <1>5 DEF Reclaim, Select, Claim, BatchAborts, brokerVars
  <2>6. QED
    BY <1>1, <1>2, <2>2, <2>4, <2>5
<1>6. ASSUME NEW r \in Run, NEW m \in batch[r], Publish(r, m) \/ PublishFails(r, m) PROVE Goal
  <2>1. /\ pc[r] = "publish" /\ status' = status /\ IsHead(r, m)
        /\ batch'[r] = batch[r] /\ OthersKept(r)
    BY <1>6, LoopMoves DEF Publish, PublishFails, rowVars
  <2>2. m \in Message /\ pc[r] \in HandlingPc
    BY <2>1 DEF TypeOK, HandlingPc
  <2>3. \A n \in Message \ {m} : Outcome'[n] = Outcome[n]
    BY <2>1, ElsewhereSame
  <2>4. ~ReclaimEnabled => status[m] = "processing"
    BY <2>1, <2>2, DoubtOfOwn
  <2>5. Outcome'[m] = Outcome[m]
    BY <2>1, <2>2, <2>4, OutcomeOf DEF Open
  <2>6. Outcome' = Outcome
    BY <2>3, <2>5, SameOutcome
  <2>7. Outcome[m] # "absent"
    BY <2>2, BatchMaySettle
  <2>8. /\ tries' = [tries EXCEPT ![m] = IF @ < MaxAttempts THEN @ + 1 ELSE @]
        /\ \/ delivered' = delivered
           \/ m \notin Poison /\ delivered' = delivered \cup {m}
    BY <1>6 DEF Publish, PublishFails, CountTry
  <2>9. Delivery!Offer(m)
    BY <2>6, <2>7, <2>8 DEF Delivery!Offer
  <2>10. QED
    BY <2>2, <2>9 DEF Delivery!Next
<1>7. ASSUME NEW r \in Run, NEW m \in batch[r],
             \/ MarkPublished(r, m) \/ MarkPublishedFails(r, m)
             \/ WriteFailure(r, m) \/ WriteFailureFails(r, m)
      PROVE  Goal
  <2>1. /\ IsHead(r, m) /\ pc[r] \in HandlingPc
        /\ UNCHANGED <<delivered, tries>>
    BY <1>7 DEF MarkPublished, MarkPublishedFails, WriteFailure, WriteFailureFails, HandlingPc,
                brokerVars
  <2>2. OthersKept(r) /\ (pc'[r] = "writeFailure" => batch'[r] = batch[r])
    BY <1>7, LoopMoves, AdvanceMoves, DropShrinks
       DEF MarkPublished, WriteFailure, WriteFailureFails
  <2>3. \A n \in Message \ {m} : status'[n] = status[n]
    BY <1>7 DEF MarkPublished, MarkPublishedFails, WriteFailure, WriteFailureFails, FailRow,
                rowVars, TypeOK
  <2>4. m \in Message
    BY DEF TypeOK
  <2>5. Outcome[m] # "absent" /\ Delivery!MaySettle(m)
    BY <2>1, BatchMaySettle
  <2>6. status'[m] # "absent"
    BY <2>4, NeverAbsentAgain DEF IInv, BatchInv
  <2>7. \A n \in Message \ {m} : Outcome'[n] = Outcome[n]
    BY <2>1, <2>2, <2>3, ElsewhereSame
  <2>8. QED
    BY <2>1, <2>4, <2>5, <2>6, <2>7, OneRowRefines
<1>8. ASSUME NEW i \in Instance, StartAfresh(i) PROVE Goal
  <2>1. Shrinks /\ status' = status /\ UNCHANGED <<delivered, tries>>
    BY <1>8, AfreshShrinks DEF StartAfresh, rowVars, brokerVars
  <2>2. \A n \in Message : TakenForFailure(n)' => TakenForFailure(n)
    BY <2>1 DEF Shrinks, Kept, TakenForFailure, IsHead
  <2>3. PICK S \in SUBSET Message : S = {n \in Message : Outcome'[n] # Outcome[n]}
    OBVIOUS
  <2>4. \A n \in S : Outcome[n] = "open" /\ Outcome'[n] = "published" /\ n \in delivered
    <3>1. \A n \in S : Open(n) /\ ~Open(n)' /\ status[n] = "published"
      BY <2>1, <2>2, <2>3, OutcomeOf DEF Open
    <3>2. QED
      BY <2>1, <2>3, <3>1, OutcomeOf DEF IInv, DeliveredInv, PublishedWasDelivered
  <2>5. [n \in Message |-> IF n \in S THEN "published" ELSE Outcome[n]] \in OutcomeType
    BY DEF OutcomeType
  <2>6. \A n \in Message :
          Outcome'[n] = [k \in Message |-> IF k \in S THEN "published" ELSE Outcome[k]][n]
    BY <2>3, <2>4
  <2>7. Outcome' = [n \in Message |-> IF n \in S THEN "published" ELSE Outcome[n]]
    BY <2>5, <2>6, SameOutcome
  <2>8. Delivery!Publish(S)
    BY <2>1, <2>4, <2>7 DEF Delivery!Publish, Delivery!MaySettle
  <2>9. QED
    BY <2>8 DEF Delivery!Next
<1>9. QED
  BY QuietOrLoud, <1>3, <1>4, <1>5, <1>6, <1>7, <1>8 DEF Loud, Handle

\* The relay keeps the promise of the outbox: an event is called published
\* only once the broker has it, given up only after MaxAttempts offers, and
\* taken up again after that only in a deployment that reclaims.
THEOREM RelayKeepsPromise == Spec => DeliveryPromise
<1>1. IInv /\ IInv' /\ [Next]_vars => [Delivery!Next]_(Delivery!vars)
  BY NextRefines
<1>2. QED
  BY RelayInvariant, InitRefines, <1>1, PTL DEF Spec, DeliveryPromise, Delivery!Spec

(***************************************************************************)
(* The locks and the shutdown, however the ticks of a process overlap:     *)
(* what the Redis lock and the drain lose by it, and that they lose it by  *)
(* nothing else.  The runs RelayOverlap and RelayShutdown show the losses. *)
(***************************************************************************)

\* A run that was granted the lock and has not come to the end of finally.
Holding(r) == pc[r] \in InBatchPc \cup {"release"}

LockTypeOK ==
    /\ pc \in [Run -> Pc]
    /\ lock \in Run \cup {NoRun}
    /\ lease \in [Run -> BOOLEAN]
    /\ heldKey \in [Instance -> BOOLEAN]
    /\ isProcessing \in [Instance -> BOOLEAN]
    /\ life \in [Instance -> Life]
    /\ gaveUpWaiting \in [Instance -> BOOLEAN]
    /\ overlapped \in SUBSET Instance

\* Two runs of one process in progress have overlapped.
OverlapInv ==
    \A r, q \in Run :
        /\ pc[r] # "idle" /\ pc[q] # "idle"
        /\ process(r) = process(q) /\ r # q
        => process(r) \in overlapped

\* Memory lock: heldKeys has the key while a run of the process holds it, and
\* only one does.
GuardInv ==
    \A r \in Run : Holding(r) =>
        /\ heldKey[process(r)]
        /\ \A q \in Run : Holding(q) /\ process(q) = process(r) => q = r

\* Redis lock: the key is the holder's as long as its TTL has not passed and
\* no sibling can have deleted it.
LeaseInv ==
    \A r \in Run : Holding(r) /\ lease[r] /\ process(r) \notin overlapped => lock = r

\* The flag is up while a tick is in progress that no other has overlapped,
\* and a pool closed with the flag down has no such tick left.
DrainInv ==
    \A r \in Run : pc[r] # "idle" /\ process(r) \notin overlapped =>
        /\ isProcessing[process(r)]
        /\ life[process(r)] = "closed" => gaveUpWaiting[process(r)]

(***************************************************************************)
(* Steps, as the lock and the shutdown see them                            *)
(***************************************************************************)
USE NoRunIsNotARun, SwitchesAreBoolean

\* A run is a process and a slot.
LEMMA RunHasProcess == \A r \in Run : process(r) \in Instance
  BY DEF Run, process

\* Inside the batch a run goes from one place to another, and nothing of the
\* lock, the flag or the shutdown changes.
BatchStep(r) ==
    /\ Holding(r) /\ pc[r] # "release"
    /\ \E p \in InBatchPc \cup {"release"} : pc' = [pc EXCEPT ![r] = p]
    /\ UNCHANGED <<lockVars, processVars>>

Elsewhere == UNCHANGED <<pc, lockVars, processVars>>

\* Each step is one of these.
LockStep ==
    \/ Elsewhere
    \/ \E r \in Run :
        \/ BatchStep(r) \/ Tick(r) \/ LockExpires(r)
        \/ Acquire(r) \/ AcquireRefused(r) \/ AcquireFails(r)
        \/ Release(r) \/ ReleaseFails(r)
    \/ \E i \in Instance :
        \/ QuitRedis(i) \/ MarkShuttingDown(i) \/ ClosePool(i) \/ StartAfresh(i)

\* Statements and offers are steps inside the batch.
LEMMA StepIsLockStep ==
  ASSUME LockTypeOK, [Next]_vars
  PROVE  LockStep
<1> USE DEF LockTypeOK, Holding, InBatchPc, HandlingPc
<1>1. ASSUME NEW r \in Run, Reclaim(r) \/ Select(r) \/ Claim(r) \/ BatchAborts(r)
      PROVE  BatchStep(r)
  <2>1. pc[r] \in {"reclaim", "select", "claim"} /\ UNCHANGED <<lockVars, processVars>>
    BY <1>1 DEF Reclaim, Select, Claim, BatchAborts
  <2>2. \E p \in {"select", "claim", "release", "publish"} : pc' = [pc EXCEPT ![r] = p]
    BY <1>1 DEF Reclaim, Select, Claim, BatchAborts, DropBatch
  <2>3. QED
    BY <2>1, <2>2 DEF BatchStep
<1>2. ASSUME NEW r \in Run, Handle(r) PROVE BatchStep(r)
  <2>1. pc[r] \in HandlingPc /\ UNCHANGED <<lockVars, processVars>>
    BY <1>2 DEF Handle, Publish, PublishFails, MarkPublished, MarkPublishedFails,
                WriteFailure, WriteFailureFails
  <2>2. \E p \in HandlingPc \cup {"release"} : pc' = [pc EXCEPT ![r] = p]
    BY <1>2 DEF Handle, Publish, PublishFails, MarkPublished, MarkPublishedFails,
                WriteFailure, WriteFailureFails, Advance, DropBatch
  <2>3. QED
    BY <2>1, <2>2 DEF BatchStep
<1>3. ASSUME (\E m \in Message : Insert(m)) \/ ClaimsGetStale \/ UNCHANGED vars
      PROVE  Elsewhere
  BY <1>3 DEF Insert, ClaimsGetStale, Elsewhere, vars, runVars
<1>4. QED
  BY <1>1, <1>2, <1>3 DEF Next, RunStep, ShutdownStep, Exit, Crash, LockStep

\* The variables of the lock and the shutdown keep their types.
LEMMA NextLockType ==
  ASSUME LockTypeOK, LockStep
  PROVE  LockTypeOK'
<1> USE RunHasProcess DEF LockTypeOK, Pc, InBatchPc, HandlingPc, Life, shutdownVars
<1>1. CASE Elsewhere
  BY <1>1 DEF Elsewhere, lockVars, processVars
<1>2. ASSUME NEW r \in Run, BatchStep(r) PROVE LockTypeOK'
  BY <1>2 DEF BatchStep, lockVars, processVars
<1>3. ASSUME NEW r \in Run, Tick(r) PROVE LockTypeOK'
  BY <1>3 DEF Tick, lockVars
<1>4. ASSUME NEW r \in Run, LockExpires(r) PROVE LockTypeOK'
  BY <1>4 DEF LockExpires, runVars, processVars
<1>5. ASSUME NEW r \in Run, Acquire(r) PROVE LockTypeOK'
  BY <1>5 DEF Acquire, processVars
<1>6. ASSUME NEW r \in Run, AcquireRefused(r) PROVE LockTypeOK'
  BY <1>6 DEF AcquireRefused, EndRun, Leaves, lockVars
<1>7. ASSUME NEW r \in Run, AcquireFails(r) PROVE LockTypeOK'
  <2>1. lock' \in Run \cup {NoRun} /\ lease' \in [Run -> BOOLEAN]
    BY <1>7 DEF AcquireFails
  <2>2. QED
    BY <1>7, <2>1 DEF AcquireFails, EndRun, Leaves
<1>8. ASSUME NEW r \in Run, Release(r) PROVE LockTypeOK'
  BY <1>8 DEF Release, EndRun, Leaves
<1>9. ASSUME NEW r \in Run, ReleaseFails(r) PROVE LockTypeOK'
  BY <1>9 DEF ReleaseFails, Leaves
<1>10. ASSUME NEW i \in Instance,
              QuitRedis(i) \/ MarkShuttingDown(i) \/ ClosePool(i)
       PROVE  LockTypeOK'
  BY <1>10 DEF QuitRedis, MarkShuttingDown, ClosePool, runVars, lockVars
<1>11. ASSUME NEW i \in Instance, StartAfresh(i) PROVE LockTypeOK'
  BY <1>11 DEF StartAfresh
<1>12. QED
  BY <1>1, <1>2, <1>3, <1>4, <1>5, <1>6, <1>7, <1>8, <1>9, <1>10, <1>11 DEF LockStep

\* A tick sees whether another run of its process is in progress, and the
\* last of them to end takes the mark away.
LEMMA NextOverlapInv ==
  ASSUME LockTypeOK, OverlapInv, LockStep
  PROVE  OverlapInv'
<1> USE RunHasProcess DEF LockTypeOK, OverlapInv, Holding, InBatchPc, HandlingPc
<1>1. ASSUME NEW r \in Run, Leaves(r) PROVE OverlapInv'
  BY <1>1 DEF Leaves, Siblings
<1>2. ASSUME overlapped' = overlapped, \A q \in Run : pc'[q] # "idle" => pc[q] # "idle"
      PROVE  OverlapInv'
  BY <1>2
<1>3. CASE Elsewhere
  BY <1>2, <1>3 DEF Elsewhere, processVars
<1>4. ASSUME NEW r \in Run, BatchStep(r) PROVE OverlapInv'
  BY <1>2, <1>4 DEF BatchStep, processVars
<1>5. ASSUME NEW r \in Run, Tick(r) PROVE OverlapInv'
  BY <1>5 DEF Tick, Siblings
<1>6. ASSUME NEW r \in Run, LockExpires(r) \/ Acquire(r) PROVE OverlapInv'
  BY <1>2, <1>6 DEF LockExpires, Acquire, runVars, processVars
<1>7. ASSUME NEW i \in Instance,
             QuitRedis(i) \/ MarkShuttingDown(i) \/ ClosePool(i)
      PROVE  OverlapInv'
  BY <1>2, <1>7 DEF QuitRedis, MarkShuttingDown, ClosePool, runVars
<1>8. ASSUME NEW i \in Instance, StartAfresh(i) PROVE OverlapInv'
  BY <1>8 DEF StartAfresh
<1>9. QED
  BY <1>1, <1>3, <1>4, <1>5, <1>6, <1>7, <1>8
     DEF LockStep, AcquireRefused, AcquireFails, Release, ReleaseFails, EndRun

(***************************************************************************)
(* The memory lock                                                         *)
(***************************************************************************)

\* The key is added when it was not there and removed by its holder.
LEMMA NextGuardInv ==
  ASSUME ~UseRedis, LockTypeOK, GuardInv, LockStep
  PROVE  GuardInv'
<1> USE RunHasProcess DEF LockTypeOK, GuardInv, Holding, InBatchPc, HandlingPc
<1>1. CASE Elsewhere
  BY <1>1 DEF Elsewhere, lockVars
<1>2. ASSUME NEW r \in Run, BatchStep(r) PROVE GuardInv'
  BY <1>2 DEF BatchStep, lockVars
<1>3. ASSUME NEW r \in Run, Tick(r) PROVE GuardInv'
  BY <1>3 DEF Tick, lockVars
<1>4. ASSUME NEW r \in Run, LockExpires(r) PROVE GuardInv'
  BY <1>4 DEF LockExpires, runVars
<1>5. ASSUME NEW r \in Run, Acquire(r) PROVE GuardInv'
  BY <1>5 DEF Acquire, LockFree
<1>6. ASSUME NEW r \in Run, AcquireRefused(r) PROVE GuardInv'
  BY <1>6 DEF AcquireRefused, EndRun, Leaves, lockVars
<1>7. ASSUME NEW r \in Run, Release(r) PROVE GuardInv'
  BY <1>7 DEF Release, EndRun, Leaves
<1>8. ASSUME NEW i \in Instance,
             QuitRedis(i) \/ MarkShuttingDown(i) \/ ClosePool(i)
      PROVE  GuardInv'
  BY <1>8 DEF QuitRedis, MarkShuttingDown, ClosePool, runVars, lockVars
<1>9. ASSUME NEW i \in Instance, StartAfresh(i) PROVE GuardInv'
  BY <1>9 DEF StartAfresh
<1>10. QED
  BY <1>1, <1>2, <1>3, <1>4, <1>5, <1>6, <1>7, <1>8, <1>9
     DEF LockStep, AcquireFails, ReleaseFails

\* A run that ends leaves behind it, in its own process, only runs that have
\* overlapped.
LEMMA LastToLeave ==
  ASSUME LockTypeOK, OverlapInv,
         NEW r \in Run, pc[r] # "idle", Leaves(r),
         NEW q \in Run, pc'[q] # "idle", process(q) \notin overlapped'
  PROVE  /\ q # r /\ pc'[q] = pc[q]
         /\ process(q) # process(r) /\ process(q) \notin overlapped
<1> USE DEF LockTypeOK
<1>1. q # r /\ pc'[q] = pc[q]
  BY DEF Leaves
<1>2. ASSUME process(q) = process(r) PROVE FALSE
  <2>1. q \in Siblings(r)
    BY <1>1, <1>2 DEF Siblings
  <2>2. overlapped' = overlapped
    BY <2>1 DEF Leaves
  <2>3. process(q) \in overlapped
    BY <1>1, <1>2 DEF OverlapInv
  <2>4. QED
    BY <2>2, <2>3
<1>3. process(q) \notin overlapped
  BY <1>2 DEF Leaves
<1>4. QED
  BY <1>1, <1>2, <1>3

(***************************************************************************)
(* The Redis lock                                                          *)
(***************************************************************************)

\* The script compares processes, so only a sibling deletes a key whose TTL
\* has not passed; and then the process has overlapped.
LEMMA NextLeaseInv ==
  ASSUME UseRedis, LockTypeOK, OverlapInv, LeaseInv, LockStep
  PROVE  LeaseInv'
<1> USE RunHasProcess DEF LockTypeOK, LeaseInv, Holding, InBatchPc, HandlingPc
<1>1. CASE Elsewhere
  BY <1>1 DEF Elsewhere, lockVars, processVars
<1>2. ASSUME NEW r \in Run, BatchStep(r) PROVE LeaseInv'
  BY <1>2 DEF BatchStep, lockVars, processVars
<1>3. ASSUME NEW r \in Run, Tick(r) PROVE LeaseInv'
  BY <1>3 DEF Tick, lockVars
<1>4. ASSUME NEW r \in Run, LockExpires(r) PROVE LeaseInv'
  BY <1>4 DEF LockExpires, runVars, processVars
<1>5. ASSUME NEW r \in Run, Acquire(r) PROVE LeaseInv'
  BY <1>5 DEF Acquire, LockFree, processVars
<1>6. ASSUME NEW r \in Run, pc[r] # "idle", Leaves(r),
             NEW q \in Run, Holding(q)', process(q) \notin overlapped'
      PROVE  q # r /\ process(q) # process(r) /\ (lease[q] => lock = q)
  <2>1. pc'[q] # "idle"
    BY <1>6
  <2>2. q # r /\ pc'[q] = pc[q] /\ process(q) # process(r) /\ process(q) \notin overlapped
    BY <1>6, <2>1, LastToLeave
  <2>3. Holding(q)
    BY <1>6, <2>2
  <2>4. QED
    BY <2>2, <2>3
<1>7. ASSUME NEW r \in Run, AcquireRefused(r) PROVE LeaseInv'
  BY <1>6, <1>7 DEF AcquireRefused, EndRun, lockVars
<1>8. ASSUME NEW r \in Run, AcquireFails(r) PROVE LeaseInv'
  <2>1. pc[r] # "idle" /\ Leaves(r)
    BY <1>8 DEF AcquireFails, EndRun
  <2>2. CASE UNCHANGED <<lock, lease>>
    BY <1>6, <2>1, <2>2
  <2>3. CASE lock = NoRun /\ lock' = r /\ lease' = [lease EXCEPT ![r] = TRUE]
    BY <1>6, <2>1, <2>3
  <2>4. QED
    BY <1>8, <2>2, <2>3 DEF AcquireFails
<1>9. ASSUME NEW r \in Run, Release(r) PROVE LeaseInv'
  <2>1. pc[r] # "idle" /\ Leaves(r)
    BY <1>9 DEF Release, EndRun
  <2>2. \A q \in Run \ {r} : lease'[q] = lease[q]
    BY <1>9 DEF Release
  <2>3. \A q \in Run : lock = q /\ process(q) # process(r) => lock' = q
    BY <1>9 DEF Release, DeletesKey
  <2>4. QED
    BY <1>6, <2>1, <2>2, <2>3
<1>10. ASSUME NEW r \in Run, ReleaseFails(r) PROVE LeaseInv'
  <2>1. pc[r] # "idle" /\ Leaves(r) /\ lease' = lease
    BY <1>10 DEF ReleaseFails
  <2>2. \A q \in Run : lock = q /\ process(q) # process(r) => lock' = q
    BY <1>10 DEF ReleaseFails, DeletesKey
  <2>3. QED
    BY <1>6, <2>1, <2>2
<1>11. ASSUME NEW i \in Instance,
              QuitRedis(i) \/ MarkShuttingDown(i) \/ ClosePool(i)
       PROVE  LeaseInv'
  BY <1>11 DEF QuitRedis, MarkShuttingDown, ClosePool, runVars, lockVars
<1>12. ASSUME NEW i \in Instance, StartAfresh(i) PROVE LeaseInv'
  BY <1>12 DEF StartAfresh
<1>13. QED
  BY <1>1, <1>2, <1>3, <1>4, <1>5, <1>7, <1>8, <1>9, <1>10, <1>11, <1>12 DEF LockStep

(***************************************************************************)
(* The drain                                                               *)
(***************************************************************************)

\* Only the end of a run of the same process lowers the flag, and a closed
\* process starts no run.
LEMMA NextDrainInv ==
  ASSUME LockTypeOK, OverlapInv, DrainInv, LockStep
  PROVE  DrainInv'
<1> USE RunHasProcess DEF LockTypeOK, DrainInv, Holding, InBatchPc, HandlingPc, shutdownVars
<1>1. CASE Elsewhere
  BY <1>1 DEF Elsewhere, processVars
<1>2. ASSUME NEW r \in Run, BatchStep(r) PROVE DrainInv'
  BY <1>2 DEF BatchStep, processVars
<1>3. ASSUME NEW r \in Run, Tick(r) PROVE DrainInv'
  BY <1>3 DEF Tick, Siblings
<1>4. ASSUME NEW r \in Run, LockExpires(r) PROVE DrainInv'
  BY <1>4 DEF LockExpires, runVars, processVars
<1>5. ASSUME NEW r \in Run, Acquire(r) PROVE DrainInv'
  BY <1>5 DEF Acquire, processVars
<1>6. ASSUME NEW r \in Run, pc[r] # "idle", Leaves(r), UNCHANGED shutdownVars,
             \A i \in Instance \ {process(r)} : isProcessing'[i] = isProcessing[i]
      PROVE  DrainInv'
  BY <1>6, LastToLeave
<1>7. ASSUME NEW r \in Run,
             AcquireRefused(r) \/ AcquireFails(r) \/ Release(r) \/ ReleaseFails(r)
      PROVE  DrainInv'
  BY <1>6, <1>7 DEF AcquireRefused, AcquireFails, Release, ReleaseFails, EndRun
<1>8. ASSUME NEW i \in Instance, QuitRedis(i) \/ MarkShuttingDown(i) PROVE DrainInv'
  BY <1>8 DEF QuitRedis, MarkShuttingDown, runVars
<1>9. ASSUME NEW i \in Instance, ClosePool(i) PROVE DrainInv'
  BY <1>9 DEF ClosePool, runVars
<1>10. ASSUME NEW i \in Instance, StartAfresh(i) PROVE DrainInv'
  BY <1>10 DEF StartAfresh
<1>11. QED
  BY <1>1, <1>2, <1>3, <1>4, <1>5, <1>7, <1>8, <1>9, <1>10 DEF LockStep

(***************************************************************************)
(* Theorems                                                                *)
(***************************************************************************)

\* The types hold from the start.
LEMMA LockType == Spec => []LockTypeOK
<1>1. Init => LockTypeOK
  BY DEF Init, LockTypeOK, Pc, Life
<1>2. LockTypeOK /\ [Next]_vars => LockTypeOK'
  BY StepIsLockStep, NextLockType
<1>3. QED
  BY <1>1, <1>2, PTL DEF Spec

\* Memory lock: one process is never in two batches at once, however its
\* ticks overlap.
THEOREM RelayGuardPerProcess == Spec => []GuardPerProcess
<1>1. CASE UseRedis
  <2>1. GuardPerProcess
    BY <1>1 DEF GuardPerProcess
  <2>2. QED
    BY <2>1, PTL
<1>2. CASE ~UseRedis
  <2>1. Init => GuardInv
    BY DEF Init, GuardInv, Holding, InBatchPc, HandlingPc
  <2>2. LockTypeOK /\ GuardInv /\ [Next]_vars => GuardInv'
    BY <1>2, StepIsLockStep, NextGuardInv
  <2>3. GuardInv => GuardPerProcess
    BY DEF GuardInv, GuardPerProcess, Holding, InBatch
  <2>4. QED
    BY <2>1, <2>2, <2>3, LockType, PTL DEF Spec
<1>3. QED
  BY <1>1, <1>2

\* Two runs of one process in progress have overlapped.
LEMMA Overlap == Spec => []OverlapInv
<1>1. Init => OverlapInv
  BY DEF Init, OverlapInv
<1>2. LockTypeOK /\ OverlapInv /\ [Next]_vars => OverlapInv'
  BY StepIsLockStep, NextOverlapInv
<1>3. QED
  BY <1>1, <1>2, LockType, PTL DEF Spec

\* Redis lock, on all instances together: a run whose key has not expired is
\* alone in its batch, unless ticks of its process or of the other's overlap.
THEOREM RelayLeaseLostByOverlap == Spec => []LeaseLostByOverlap
<1>1. CASE ~UseRedis
  <2>1. LeaseLostByOverlap
    BY <1>1 DEF LeaseLostByOverlap
  <2>2. QED
    BY <2>1, PTL
<1>2. CASE UseRedis
  <2>1. Init => LeaseInv
    BY DEF Init, LeaseInv
  <2>2. LockTypeOK /\ OverlapInv /\ LeaseInv /\ [Next]_vars => LeaseInv'
    BY <1>2, StepIsLockStep, NextLeaseInv
  <2>3. LeaseInv => LeaseLostByOverlap
    BY DEF LeaseInv, LeaseLostByOverlap, Holding, InBatch
  <2>4. QED
    BY <2>1, <2>2, <2>3, LockType, Overlap, PTL DEF Spec
<1>3. QED
  BY <1>1, <1>2

\* The pool is destroyed under a batch only after waitForIdle has used up its
\* time, or in a process whose ticks overlap.
THEOREM RelayPoolClosedByOverlap == Spec => []PoolClosedByOverlap
<1>1. Init => DrainInv
  BY DEF Init, DrainInv
<1>2. LockTypeOK /\ OverlapInv /\ DrainInv /\ [Next]_vars => DrainInv'
  BY StepIsLockStep, NextDrainInv
<1>3. DrainInv => PoolClosedByOverlap
  BY DEF DrainInv, PoolClosedByOverlap, InBatch, InBatchPc, HandlingPc
<1>4. QED
  BY <1>1, <1>2, <1>3, LockType, Overlap, PTL DEF Spec

=============================================================================
