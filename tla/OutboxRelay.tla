----------------------------- MODULE OutboxRelay -----------------------------
(***************************************************************************)
(* The outbox relay: cron ticks of OutboxRelayService.processPending on    *)
(* several instances, the outbox_messages table they share, the lock that  *)
(* is meant to serialise them (MemoryDistributedLock per process, or       *)
(* RedisDistributedLock across processes) and the shutdown of an instance  *)
(* while a tick is under way.                                              *)
(*                                                                         *)
(* A run is one call of processPending.  The cron fires on a fixed         *)
(* schedule and does not wait for the previous call, so one process may    *)
(* have several runs at once: Slot numbers them.  Each action is what a    *)
(* run does between two awaits.                                            *)
(***************************************************************************)
EXTENDS Naturals, FiniteSets

CONSTANTS
    Instance,        \* processes (replicas of the API)
    Slot,            \* runs one process may have in progress at once
    NoRun,           \* not a run
    Message,         \* outbox rows, numbered in the order of createdAt
    Poison,          \* rows whose payload deserializeDomainEventEnvelope rejects
    MaxAttempts,     \* OUTBOX_RELAY_MAX_ATTEMPTS
    BatchSize,       \* OUTBOX_RELAY_BATCH_SIZE
    ReclaimEnabled,  \* OUTBOX_RECLAIM_ENABLED
    UseRedis,        \* OUTBOX_RELAY_LOCK = redis (otherwise memory)
    MaxFaults        \* bound: crashes, shutdowns, failed statements and commands

Run == Instance \X Slot

ASSUME MessagesAreOrdered == Message \subseteq Nat /\ Poison \subseteq Message
ASSUME LimitsArePositive == MaxAttempts \in Nat \ {0} /\ BatchSize \in Nat \ {0}
ASSUME SwitchesAreBoolean == ReclaimEnabled \in BOOLEAN /\ UseRedis \in BOOLEAN
ASSUME NoRunIsNotARun == NoRun \notin Run
ASSUME FaultsAreBounded == MaxFaults \in Nat

VARIABLES
    status,        \* status[m]: column status ("absent": row not committed)
    attempts,      \* attempts[m]: column attempts
    claimedAt,     \* claimedAt[m]: column claimed_at against the stale threshold
    delivered,     \* messages the broker has received at least once
    tries,         \* history: offers of m so far, counted up to MaxAttempts
    pc,            \* pc[r]: where run r is in processPending
    batch,         \* batch[r]: rows run r has selected and not yet handled
    snapshot,      \* snapshot[r][m]: attempts of m as run r read it
    lock,          \* the Redis key: the run that set it, or NoRun
    lease,         \* lease[r]: the TTL of the key run r set has not passed
    heldKey,       \* heldKey[i]: heldKeys / lockTokens of process i has the key
    isProcessing,  \* isProcessing[i]: the flag of OutboxRelayService
    life,          \* life[i]: phase of the shutdown of process i
    gaveUpWaiting, \* history: waitForIdle returned because its time was up
    overlapped,    \* history: processes whose runs in progress began while
                   \* another one of theirs was in progress
    faults         \* faults so far

rowVars == <<status, attempts, claimedAt>>
brokerVars == <<delivered, tries>>
runVars == <<pc, batch, snapshot>>
lockVars == <<lock, lease, heldKey>>
shutdownVars == <<life, gaveUpWaiting>>
processVars == <<isProcessing, shutdownVars, overlapped>>
vars == <<rowVars, brokerVars, runVars, lockVars, processVars, faults>>

Status == {"absent", "pending", "processing", "published", "failed"}
Settled == {"published", "failed"}
HandlingPc == {"publish", "markPublished", "writeFailure"}
InBatchPc == HandlingPc \cup {"reclaim", "select", "claim"}
Pc == InBatchPc \cup {"idle", "acquire", "release"}
Life == {"up", "disconnected", "draining", "closed"}

process(r) == r[1]

NothingRead == [m \in Message |-> 0]

TypeOK ==
    /\ status \in [Message -> Status]
    /\ attempts \in [Message -> 0..MaxAttempts]
    /\ claimedAt \in [Message -> {"null", "fresh", "stale"}]
    /\ delivered \in SUBSET Message
    /\ tries \in [Message -> 0..MaxAttempts]
    /\ pc \in [Run -> Pc]
    /\ batch \in [Run -> SUBSET Message]
    /\ snapshot \in [Run -> [Message -> 0..MaxAttempts]]
    /\ lock \in Run \cup {NoRun}
    /\ lease \in [Run -> BOOLEAN]
    /\ heldKey \in [Instance -> BOOLEAN]
    /\ isProcessing \in [Instance -> BOOLEAN]
    /\ life \in [Instance -> Life]
    /\ gaveUpWaiting \in [Instance -> BOOLEAN]
    /\ overlapped \in SUBSET Instance
    /\ faults \in 0..MaxFaults

Init ==
    /\ status = [m \in Message |-> "absent"]
    /\ attempts = [m \in Message |-> 0]
    /\ claimedAt = [m \in Message |-> "null"]
    /\ delivered = {}
    /\ tries = [m \in Message |-> 0]
    /\ pc = [r \in Run |-> "idle"]
    /\ batch = [r \in Run |-> {}]
    /\ snapshot = [r \in Run |-> NothingRead]
    /\ lock = NoRun
    /\ lease = [r \in Run |-> FALSE]
    /\ heldKey = [i \in Instance |-> FALSE]
    /\ isProcessing = [i \in Instance |-> FALSE]
    /\ life = [i \in Instance |-> "up"]
    /\ gaveUpWaiting = [i \in Instance |-> FALSE]
    /\ overlapped = {}
    /\ faults = 0

(***************************************************************************)
(* Faults and time                                                         *)
(***************************************************************************)

\* A call fails because what it needs is already closed, or by a fault.
Fails(closed) ==
    IF closed THEN UNCHANGED faults ELSE faults < MaxFaults /\ faults' = faults + 1

DatabaseClosed(r) == life[process(r)] = "closed"
RedisClosed(r) == life[process(r)] # "up"

\* OUTBOX_STALE_PROCESSING_SECONDS pass: every claim made so far is now old.
\* (The age of a claim matters only while its row is processing.)
FreshClaims == {m \in Message : status[m] = "processing" /\ claimedAt[m] = "fresh"}

ClaimsGetStale ==
    /\ FreshClaims # {}
    /\ claimedAt' = [m \in Message |->
                        IF m \in FreshClaims THEN "stale" ELSE claimedAt[m]]
    /\ UNCHANGED <<status, attempts, brokerVars, runVars, lockVars, processVars, faults>>

\* OUTBOX_RELAY_LOCK_TTL_SECONDS pass since r set the key: Redis drops the
\* key if it is still the one r set.
LockExpires(r) ==
    /\ lease[r]
    /\ lease' = [lease EXCEPT ![r] = FALSE]
    /\ lock' = IF lock = r THEN NoRun ELSE lock
    /\ UNCHANGED <<heldKey, rowVars, brokerVars, runVars, processVars, faults>>

(***************************************************************************)
(* The transaction of a command commits with a new outbox row.             *)
(***************************************************************************)
Insert(m) ==
    /\ status[m] = "absent"
    /\ status' = [status EXCEPT ![m] = "pending"]
    /\ UNCHANGED <<attempts, claimedAt, brokerVars, runVars, lockVars, processVars, faults>>

(***************************************************************************)
(* processPending: the lock                                                *)
(***************************************************************************)
Siblings(r) == {q \in Run \ {r} : process(q) = process(r) /\ pc[q] # "idle"}

\* Run r is over; with the last run of a process its overlap is over too.
Leaves(r) ==
    /\ pc' = [pc EXCEPT ![r] = "idle"]
    /\ overlapped' = IF Siblings(r) = {} THEN overlapped \ {process(r)} ELSE overlapped

EndRun(r) ==
    /\ Leaves(r)
    /\ isProcessing' = [isProcessing EXCEPT ![process(r)] = FALSE]

\* The cron fires; the flag is raised before the lock is asked for, and
\* whether or not another run of this process has raised it.
Tick(r) ==
    /\ pc[r] = "idle"
    /\ life[process(r)] \in {"up", "disconnected"}
    /\ isProcessing' = [isProcessing EXCEPT ![process(r)] = TRUE]
    /\ pc' = [pc EXCEPT ![r] = "acquire"]
    /\ overlapped' = IF Siblings(r) = {} THEN overlapped ELSE overlapped \cup {process(r)}
    /\ UNCHANGED <<batch, snapshot, shutdownVars, rowVars, brokerVars, lockVars, faults>>

\* Wrong on purpose: the memory guard that forgets to look.
LockAlwaysFree(r) == UseRedis => lock = NoRun

LockFree(r) == IF UseRedis THEN lock = NoRun ELSE ~heldKey[process(r)]

Acquire(r) ==
    /\ pc[r] = "acquire"
    /\ UseRedis => ~RedisClosed(r)
    /\ LockFree(r)
    /\ heldKey' = [heldKey EXCEPT ![process(r)] = TRUE]
    /\ IF UseRedis
       THEN lock' = r /\ lease' = [lease EXCEPT ![r] = TRUE]
       ELSE UNCHANGED <<lock, lease>>
    /\ pc' = [pc EXCEPT ![r] = "reclaim"]
    /\ UNCHANGED <<batch, snapshot, rowVars, brokerVars, processVars, faults>>

\* Another run has the key: this run ends, and its finally block lowers the
\* flag that it shares with that other run.
AcquireRefused(r) ==
    /\ pc[r] = "acquire"
    /\ UseRedis => ~RedisClosed(r)
    /\ ~LockFree(r)
    /\ EndRun(r)
    /\ UNCHANGED <<batch, snapshot, shutdownVars, rowVars, brokerVars, lockVars, faults>>

\* SET fails; Redis may have set the key without this process hearing of it.
AcquireFails(r) ==
    /\ UseRedis
    /\ pc[r] = "acquire"
    /\ Fails(RedisClosed(r))
    /\ \/ UNCHANGED <<lock, lease>>
       \/ /\ ~RedisClosed(r)
          /\ lock = NoRun
          /\ lock' = r
          /\ lease' = [lease EXCEPT ![r] = TRUE]
    /\ EndRun(r)
    /\ UNCHANGED <<batch, snapshot, shutdownVars, heldKey, rowVars, brokerVars>>

\* Wrong on purpose: DEL without comparing.
DeletesAnyKey(r) == lock # NoRun

\* The compare-and-delete script compares process identities: any run of
\* this process deletes the key any run of this process has set.
DeletesKey(r) == lock # NoRun /\ process(lock) = process(r)

Release(r) ==
    /\ pc[r] = "release"
    /\ IF UseRedis /\ heldKey[process(r)]
       THEN /\ ~RedisClosed(r)
            /\ lock' = IF DeletesKey(r) THEN NoRun ELSE lock
       ELSE UNCHANGED lock
    /\ lease' = [lease EXCEPT ![r] = (lock' = r)]
    /\ heldKey' = [heldKey EXCEPT ![process(r)] = FALSE]
    /\ EndRun(r)
    /\ UNCHANGED <<batch, snapshot, shutdownVars, rowVars, brokerVars, faults>>

\* EVAL fails inside the finally block: the flag stays raised, the token is
\* kept, and the key is gone only if the script ran before the reply was lost.
ReleaseFails(r) ==
    /\ UseRedis
    /\ pc[r] = "release"
    /\ heldKey[process(r)]
    /\ Fails(RedisClosed(r))
    /\ \/ UNCHANGED lock
       \/ ~RedisClosed(r) /\ DeletesKey(r) /\ lock' = NoRun
    /\ Leaves(r)
    /\ UNCHANGED <<batch, snapshot, lease, heldKey, rowVars, brokerVars, isProcessing,
                   shutdownVars>>

(***************************************************************************)
(* processBatch                                                            *)
(***************************************************************************)
\* Wrong on purpose: the claimed_at filter the wrong way round.
ReclaimableUnclaimed(m) == status[m] = "processing" /\ claimedAt[m] = "null"

Reclaimable(m) == status[m] = "processing" /\ claimedAt[m] = "stale"

ReclaimRows ==
    IF ReclaimEnabled
    THEN /\ status' = [m \in Message |->
                         IF Reclaimable(m) THEN "pending" ELSE status[m]]
         /\ claimedAt' = [m \in Message |->
                         IF Reclaimable(m) THEN "null" ELSE claimedAt[m]]
    ELSE UNCHANGED <<status, claimedAt>>

Reclaim(r) ==
    /\ pc[r] = "reclaim"
    /\ ~DatabaseClosed(r)
    /\ ReclaimRows
    /\ pc' = [pc EXCEPT ![r] = "select"]
    /\ UNCHANGED <<attempts, batch, snapshot, brokerVars, lockVars, processVars, faults>>

\* Wrong on purpose: a claim that also takes failed rows.
PendingOrFailed == {m \in Message : status[m] \in {"pending", "failed"}}

Pending == {m \in Message : status[m] = "pending"}

\* The row locks of the transaction of run q: what SELECT ... FOR UPDATE
\* returned to it, until COMMIT or ROLLBACK.
RowLocks(q) == IF pc[q] = "claim" THEN batch[q] ELSE {}

\* An UPDATE of one row by its id waits while a claim has the row locked.
Writable(m) == \A q \in Run : m \notin RowLocks(q)

\* Wrong on purpose: a SELECT without FOR UPDATE SKIP LOCKED.
SelectableUnlocked(m) == m \in Pending

\* SKIP LOCKED passes over the rows that another claim has selected.
Selectable(m) == m \in Pending /\ Writable(m)

\* S is what ORDER BY created_at LIMIT BatchSize makes of the rows that can be
\* selected.
OldestSelectable(S) ==
    LET candidates == {m \in Message : Selectable(m)} IN
    /\ S \subseteq candidates
    /\ Cardinality(S) <= BatchSize
    /\ S = candidates \/ Cardinality(S) = BatchSize
    /\ \A m \in S, n \in candidates \ S : m < n

\* BEGIN; SELECT ... FOR UPDATE SKIP LOCKED.  The rows are locked and read; an
\* empty result is committed at once.
Select(r) ==
    /\ pc[r] = "select"
    /\ ~DatabaseClosed(r)
    /\ \E S \in SUBSET Message :
        /\ OldestSelectable(S)
        /\ batch' = [batch EXCEPT ![r] = S]
        /\ snapshot' = [snapshot EXCEPT ![r] =
                            [m \in Message |-> IF m \in S THEN attempts[m] ELSE 0]]
        /\ pc' = [pc EXCEPT ![r] = IF S = {} THEN "release" ELSE "claim"]
    /\ UNCHANGED <<rowVars, brokerVars, lockVars, processVars, faults>>

\* UPDATE ... whereInIds; what others see of it they see with COMMIT.
ClaimRows(r) ==
    /\ status' = [m \in Message |-> IF m \in batch[r] THEN "processing" ELSE status[m]]
    /\ claimedAt' = [m \in Message |-> IF m \in batch[r] THEN "fresh" ELSE claimedAt[m]]

Claim(r) ==
    /\ pc[r] = "claim"
    /\ ~DatabaseClosed(r)
    /\ ClaimRows(r)
    /\ pc' = [pc EXCEPT ![r] = "publish"]
    /\ UNCHANGED <<attempts, batch, snapshot, brokerVars, lockVars, processVars, faults>>

\* The rest of the batch is dropped: the rows stay as they are.
DropBatch(r) ==
    /\ batch' = [batch EXCEPT ![r] = {}]
    /\ snapshot' = [snapshot EXCEPT ![r] = NothingRead]
    /\ pc' = [pc EXCEPT ![r] = "release"]

\* A statement before the loop fails; the catch of processBatch logs it.  The
\* reclaiming UPDATE or the COMMIT of the claim may have taken effect all the
\* same, its reply lost: then the rows are processing and nobody has them.
BatchAborts(r) ==
    /\ pc[r] \in {"reclaim", "select", "claim"}
    /\ Fails(DatabaseClosed(r))
    /\ \/ UNCHANGED <<status, claimedAt>>
       \/ pc[r] = "reclaim" /\ ~DatabaseClosed(r) /\ ReclaimRows
       \/ pc[r] = "claim" /\ ~DatabaseClosed(r) /\ ClaimRows(r)
    /\ DropBatch(r)
    /\ UNCHANGED <<attempts, brokerVars, lockVars, processVars>>

\* The loop takes the rows in the order they were selected.
IsHead(r, m) == m \in batch[r] /\ \A n \in batch[r] : m <= n

CountTry(m) ==
    tries' = [tries EXCEPT ![m] = IF @ < MaxAttempts THEN @ + 1 ELSE @]

Publish(r, m) ==
    /\ pc[r] = "publish"
    /\ IsHead(r, m)
    /\ m \notin Poison
    /\ delivered' = delivered \cup {m}
    /\ CountTry(m)
    /\ pc' = [pc EXCEPT ![r] = "markPublished"]
    /\ UNCHANGED <<batch, snapshot, rowVars, lockVars, processVars, faults>>

\* Wrong on purpose: a rejected publish() is taken for a success.
SwallowPublishError(r, m) ==
    /\ pc[r] = "publish"
    /\ IsHead(r, m)
    /\ CountTry(m)
    /\ pc' = [pc EXCEPT ![r] = "markPublished"]
    /\ UNCHANGED <<delivered, batch, snapshot, rowVars, lockVars, processVars, faults>>

\* publish() rejects (the broker may have the message all the same), or the
\* payload cannot be deserialised and publish() is never called.
PublishFails(r, m) ==
    /\ pc[r] = "publish"
    /\ IsHead(r, m)
    /\ \/ UNCHANGED delivered
       \/ m \notin Poison /\ delivered' = delivered \cup {m}
    /\ CountTry(m)
    /\ pc' = [pc EXCEPT ![r] = "writeFailure"]
    /\ UNCHANGED <<batch, snapshot, rowVars, lockVars, processVars, faults>>

\* The loop goes on with the next row, or the batch is done.
Advance(r, m) ==
    /\ batch' = [batch EXCEPT ![r] = @ \ {m}]
    /\ snapshot' = [snapshot EXCEPT ![r] = [@ EXCEPT ![m] = 0]]
    /\ pc' = [pc EXCEPT ![r] = IF batch[r] = {m} THEN "release" ELSE "publish"]

\* UPDATE ... WHERE id = m: whatever the row has become since it was claimed.
MarkPublished(r, m) ==
    /\ pc[r] = "markPublished"
    /\ IsHead(r, m)
    /\ ~DatabaseClosed(r)
    /\ Writable(m)
    /\ status' = [status EXCEPT ![m] = "published"]
    /\ Advance(r, m)
    /\ UNCHANGED <<attempts, claimedAt, brokerVars, lockVars, processVars, faults>>

\* markPublished shares its try block with publish: its failure is taken for
\* a failed publish, even if the UPDATE took effect and its reply was lost.
MarkPublishedFails(r, m) ==
    /\ pc[r] = "markPublished"
    /\ IsHead(r, m)
    /\ Fails(DatabaseClosed(r))
    /\ \/ UNCHANGED status
       \/ ~DatabaseClosed(r) /\ Writable(m) /\ status' = [status EXCEPT ![m] = "published"]
    /\ pc' = [pc EXCEPT ![r] = "writeFailure"]
    /\ UNCHANGED <<attempts, claimedAt, batch, snapshot, brokerVars, lockVars, processVars>>

\* Wrong on purpose: giving up one try late, and one try early.
ExhaustedLate(n) == n > MaxAttempts
ExhaustedEarly(n) == n + 1 >= MaxAttempts

NextAttempts(r, m) == snapshot[r][m] + 1

Exhausted(n) == n >= MaxAttempts

\* markFailed or resetToPending, by the attempts read when the row was
\* claimed; again whatever the row has become since.
FailRow(r, m) ==
    /\ Writable(m)
    /\ attempts' = [attempts EXCEPT ![m] = NextAttempts(r, m)]
    /\ IF Exhausted(NextAttempts(r, m))
       THEN /\ status' = [status EXCEPT ![m] = "failed"]
            /\ UNCHANGED claimedAt
       ELSE /\ status' = [status EXCEPT ![m] = "pending"]
            /\ claimedAt' = [claimedAt EXCEPT ![m] = "null"]

WriteFailure(r, m) ==
    /\ pc[r] = "writeFailure"
    /\ IsHead(r, m)
    /\ ~DatabaseClosed(r)
    /\ FailRow(r, m)
    /\ Advance(r, m)
    /\ UNCHANGED <<brokerVars, lockVars, processVars, faults>>

\* The update fails inside the catch block, or takes effect without a reply:
\* the outer catch ends the batch and the rows left in it stay processing.
WriteFailureFails(r, m) ==
    /\ pc[r] = "writeFailure"
    /\ IsHead(r, m)
    /\ Fails(DatabaseClosed(r))
    /\ \/ UNCHANGED rowVars
       \/ ~DatabaseClosed(r) /\ FailRow(r, m)
    /\ DropBatch(r)
    /\ UNCHANGED <<brokerVars, lockVars, processVars>>

(***************************************************************************)
(* Shutdown and crash of a process                                         *)
(***************************************************************************)

\* SIGTERM: onModuleDestroy quits the Redis client; ticks still happen.
QuitRedis(i) ==
    /\ UseRedis
    /\ life[i] = "up"
    /\ Fails(FALSE)
    /\ life' = [life EXCEPT ![i] = "disconnected"]
    /\ UNCHANGED <<isProcessing, gaveUpWaiting, overlapped, rowVars, brokerVars, runVars,
                   lockVars>>

\* beforeApplicationShutdown: no tick starts any more.
MarkShuttingDown(i) ==
    /\ \/ UseRedis /\ life[i] = "disconnected" /\ UNCHANGED faults
       \/ ~UseRedis /\ life[i] = "up" /\ Fails(FALSE)
    /\ life' = [life EXCEPT ![i] = "draining"]
    /\ UNCHANGED <<isProcessing, gaveUpWaiting, overlapped, rowVars, brokerVars, runVars,
                   lockVars>>

\* Wrong on purpose: waitForIdle is called and not awaited.
ClosePoolAtOnce(i) ==
    /\ life[i] = "draining"
    /\ life' = [life EXCEPT ![i] = "closed"]
    /\ UNCHANGED <<isProcessing, gaveUpWaiting, overlapped, rowVars, brokerVars, runVars,
                   lockVars, faults>>

\* waitForIdle returned, because the flag was down or its time was up, and
\* onApplicationShutdown destroys the pool.  No tick can raise the flag in
\* between, so reading it here is reading it when waitForIdle returned.
ClosePool(i) ==
    /\ life[i] = "draining"
    /\ life' = [life EXCEPT ![i] = "closed"]
    /\ gaveUpWaiting' = [gaveUpWaiting EXCEPT ![i] = isProcessing[i]]
    /\ UNCHANGED <<isProcessing, overlapped, rowVars, brokerVars, runVars, lockVars, faults>>

\* The process is gone with all its memory and a new one takes its place;
\* the rows and the Redis key stay as they were, and the database rolls back
\* the transactions of the connections it has lost.
StartAfresh(i) ==
    /\ life' = [life EXCEPT ![i] = "up"]
    /\ pc' = [r \in Run |-> IF process(r) = i THEN "idle" ELSE pc[r]]
    /\ batch' = [r \in Run |-> IF process(r) = i THEN {} ELSE batch[r]]
    /\ snapshot' = [r \in Run |-> IF process(r) = i THEN NothingRead ELSE snapshot[r]]
    /\ heldKey' = [heldKey EXCEPT ![i] = FALSE]
    /\ isProcessing' = [isProcessing EXCEPT ![i] = FALSE]
    /\ gaveUpWaiting' = [gaveUpWaiting EXCEPT ![i] = FALSE]
    /\ overlapped' = overlapped \ {i}
    /\ UNCHANGED <<lock, lease, rowVars, brokerVars>>

Exit(i) ==
    /\ life[i] = "closed"
    /\ StartAfresh(i)
    /\ UNCHANGED faults

\* A crash, or the force-exit timer of gracefulShutdown.
Crash(i) ==
    /\ Fails(FALSE)
    /\ StartAfresh(i)

(***************************************************************************)
(* Specification                                                           *)
(***************************************************************************)
Handle(r) ==
    \E m \in batch[r] :
        \/ Publish(r, m) \/ PublishFails(r, m)
        \/ MarkPublished(r, m) \/ MarkPublishedFails(r, m)
        \/ WriteFailure(r, m) \/ WriteFailureFails(r, m)

RunStep(r) ==
    \/ Acquire(r) \/ AcquireRefused(r) \/ AcquireFails(r)
    \/ Reclaim(r) \/ Select(r) \/ Claim(r) \/ BatchAborts(r)
    \/ Handle(r)
    \/ Release(r) \/ ReleaseFails(r)

ShutdownStep(i) == MarkShuttingDown(i) \/ ClosePool(i) \/ Exit(i)

Next ==
    \/ \E m \in Message : Insert(m)
    \/ \E r \in Run : Tick(r) \/ RunStep(r) \/ LockExpires(r)
    \/ \E i \in Instance : QuitRedis(i) \/ ShutdownStep(i) \/ Crash(i)
    \/ ClaimsGetStale

Spec == Init /\ [][Next]_vars

\* The cron keeps firing, a call that was made returns or fails, the clock
\* goes on, and a process that shuts down is replaced by its orchestrator.
\* Faults, crashes and shutdowns are not owed: MaxFaults bounds them.
Fairness ==
    /\ \A r \in Run : WF_vars(Tick(r)) /\ WF_vars(RunStep(r)) /\ WF_vars(LockExpires(r))
    /\ \A i \in Instance : WF_vars(ShutdownStep(i))
    /\ WF_vars(ClaimsGetStale)

FairSpec == Spec /\ Fairness

(***************************************************************************)
(* Properties                                                              *)
(***************************************************************************)

InBatch(r) == pc[r] \in InBatchPc

\* A row is called published only if the broker has received its event, no
\* matter how many runs have handled it and in which order they wrote
\* (the try block around publish and markPublished).
PublishedWasDelivered ==
    \A m \in Message : status[m] = "published" => m \in delivered

\* A row is given up only after MaxAttempts offers were really made, although
\* the count is written back from a snapshot that may be long out of date
\* and a reclaimed row keeps its old count.
FailedAfterMaxTries ==
    \A m \in Message : status[m] = "failed" => tries[m] = MaxAttempts

\* The single global relay worker: a run whose key has not expired is the only
\* such run in its batch, on all instances together.  Not so: see RelayOverlap.
LeaseExclusive ==
    UseRedis =>
        \A r, q \in Run :
            /\ InBatch(r) /\ InBatch(q)
            /\ lease[r] /\ lease[q]
            => r = q

\* What the Redis lock does guarantee when the cron does not wait: of two runs
\* in their batches whose keys have not expired, one belongs to a process
\* whose ticks overlap, so that a sibling deleted its key.
LeaseLostByOverlap ==
    UseRedis =>
        \A r, q \in Run :
            /\ InBatch(r) /\ InBatch(q)
            /\ lease[r] /\ lease[q]
            /\ r # q
            => {process(r), process(q)} \cap overlapped # {}

\* The memory lock: one process is never in two batches at once.
GuardPerProcess ==
    ~UseRedis =>
        \A r, q \in Run :
            InBatch(r) /\ InBatch(q) /\ process(r) = process(q) => r = q

\* The shutdown waits for the relay (waitForIdle), and the pool is destroyed
\* under a batch only after its time was up, or when another tick of the
\* process that came to its end has lowered the flag.
PoolClosedByOverlap ==
    \A r \in Run :
        life[process(r)] = "closed" /\ InBatch(r) =>
            gaveUpWaiting[process(r)] \/ process(r) \in overlapped

\* The rows a run is handling.
Handled(r) == IF pc[r] \in HandlingPc THEN batch[r] ELSE {}

\* No row is handled by two runs, however their transactions interleave
\* (SKIP LOCKED and the status filter), in a deployment that does not reclaim.
ExclusiveClaim ==
    \A r, q \in Run : r # q => Handled(r) \cap Handled(q) = {}

\* A run has taken the update that published m, or the offer, for a failure.
TakenForFailure(m) == \E r \in Run : pc[r] = "writeFailure" /\ IsHead(r, m)

\* In such a deployment failed is final, and published is left only by the
\* run that published the row and got no reply.
SettledIsFinal ==
    [][\A m \in Message :
        /\ status[m] = "failed" => status'[m] = "failed"
        /\ status[m] = "published" /\ status'[m] # "published" => TakenForFailure(m)]_vars

\* What a reader of the table sees of a row, whoever is working on it.  Where
\* nothing is reclaimed, a row that its run takes for a failure is still open.
Outcome ==
    [m \in Message |->
        IF \/ status[m] \in {"pending", "processing"}
           \/ status[m] = "published" /\ ~ReclaimEnabled /\ TakenForFailure(m)
        THEN "open" ELSE status[m]]

Delivery == INSTANCE OutboxDelivery
                WITH outcome <- Outcome, MayReopen <- ReclaimEnabled

\* The relay keeps the promise of the outbox.  Reclaiming is what allows a
\* settled event to be taken up again, by the late write of a stale run.
DeliveryPromise == Delivery!Spec

\* Every committed event is published or given up, once faults stop.
EveryEventSettles ==
    \A m \in Message :
        status[m] \in {"pending", "processing"} ~> status[m] \in Settled

=============================================================================
