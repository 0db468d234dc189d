# A verification project for api-nestjs-template

The repository is a NestJS API (TypeScript, PostgreSQL through TypeORM, Redis
optional): users and authentication on top of a kit of reliability features:
a transactional outbox with a relay, distributed locks, inbound idempotency,
an audit log, caching, graceful shutdown. Most requests are a few statements
on one row. What is hard is what several of them, several replicas and several
cron ticks do to the same row, and what a crash or a failed statement leaves
behind. Around every handler stands the same pipeline of guards, interceptors
and a filter, whose parts have to agree about each route. Both are modelled
here; formatting, paging, logging and metrics are not.

Paths below are relative to `src/src/`; `shared/` is `modules/shared/`.

## 1. Inventory

| Component | State | Operations | What is hard | What makes it correct |
|---|---|---|---|---|
| Outbox relay (`shared/infrastructure/outbox`) | `outbox_messages` rows (status, attempts, claimed_at), the flag `isProcessing` | `processPending` on a cron: lock, reclaim, claim a batch, publish and write each row, release | overlapping ticks, replicas, claims that interleave, stale runs that write late, a failed or unanswered write after a publish, crashes with rows in progress | published means delivered, failed means all attempts made, rows are not handled twice without reclaiming, every event settles |
| Distributed lock (`shared/infrastructure/locking`) | a set of keys in memory, or a Redis key with a TTL and a token per process | `tryAcquire`, `release` | expiry under a running batch, lost replies, one token for all runs of a process | exclusion while the key lives |
| Graceful shutdown (`configuration/shutdown`, `main.ts`) | the shutdown flag, the Redis client, the pool | quit Redis, mark, wait for idle, destroy the pool, exit or force-exit | its order against a batch under way, and whose flag it waits for | the pool outlives a batch that can be waited for, unless ticks overlap |
| Inbound idempotency (`shared/infrastructure/idempotency`) | one `idempotency_keys` row per scope and key | `claim`, `complete`, `deleteInProgress`, `deleteExpired`, the interceptor | races of claims, timeouts that leave the handler running, failures after the commit, expiry | one handler at a time, no second execution in a window, replays are original, keys are freed |
| Request timeout (`shared/infrastructure/interceptors`) | - | answers 408, unsubscribes | what is awaited goes on | see idempotency |
| User profile (`modules/users`) | the `users` row with its version | update, delete, get-me, list | check-then-save, a save that selects again and writes a version back, several reads per request | as long as versions grow, a lost update is caught and what is read belongs together |
| Profile cache (`shared/infrastructure/cache`) | one key per user, a TTL | get, set, delete on `UserUpdatedEvent` | a fill that races a commit, an event that is never staged | no older profile after an update |
| Audit log (`shared/application/audit`) | `audit_logs` | before state, execute, save in the transaction | the two reads of one command | the before state is the row the command was checked against |
| Command use case (`shared/application/use-cases`) | a transaction, the events staged in the request's context | run, commit or roll back, persist to the outbox, dispatch | a `DomainError` commits, dispatch is not awaited, lost acknowledgements | all or nothing, an outbox row for each event |
| Sessions (`modules/auth`) | `refresh_tokens` | login, refresh with rotation and reuse detection, logout, revoke all | rotation against revocation, and what the driver answers about a row that did not match | one live token per login and an ended session stays ended unless a consume slipped, rotation is all or nothing |
| One-time tokens | `auth_tokens` | forgot, reset, verify | find and consume are two statements | one use each |
| Registration and domain events | `users`, the outbox, tokens, the staged events of a request | register, dispatch, verification e-mail | the address checked and inserted by two statements, events of failed transactions, dispatch lost on exit | one user per address; user, session and event together; who is verified was mailed |
| External login | `user_identities` | callback | find, create and link without a transaction | one account per person |
| Second factor | the TOTP columns | setup, verify, challenge | a pending secret read and enabled by two statements | what is enabled was proven, and is asked for |
| Password reset against updates | the hash in `users` | forgot, reset, `save()` of an update | `save()` reads the row twice and writes what differs | a reset stands |
| Access control | decorators, roles, scopes, allowlists | five guards, two middlewares, checks in use cases | they are read at different awaits, and must agree about every route | whoever gets through was entitled |
| HTTP pipeline | the request: its user, its idempotency scope, its answer | middlewares, guards, interceptors, pipes, filter | an answer may come from any of them, in several shapes, after a timeout or from a record | the answer fits what was done and asked |
| Configuration | the environment, read once | validation at the start | variables that depend on each other | what is needed is given |
| Health checks, files | the shutdown flag; a storage driver | three probes; upload | their place in the pipeline | see HTTP pipeline |
| Outbound HTTP client | policies per service and retry flag | request | nothing in `src/` calls it | - |
| E-mail, metrics, tracing, logging, schema | - | I/O and declarations | - | - |

How they meet:

* An HTTP request passes the middlewares (`app.module.ts:110-127`), the guards
  for the token, roles, permissions, throttling and API keys, then tracing, the
  request timeout, idempotency and the response wrapper, in this order
  (`app.module.ts:66-108`); what is thrown anywhere ends in the exception
  filter. The timeout unsubscribes from the pipe; it stops nothing that is
  already awaited.
* The roles a guard looks at are those the JWT strategy read for this request;
  the use case looks at the same copy later.
* A command runs in one transaction. Its statements, the audit row and the
  outbox rows commit together; the events are then dispatched in the process,
  without waiting.
* The relay reads what those transactions wrote. It shares the table with the
  relays of the other replicas and is kept apart from them, or only from
  itself, by the lock.
* Shutdown takes Redis from under the relay first and the pool last.

PROJECT.json lists the components with their status and every hazard at its
line.

## 2. Modules

| Module | What it is |
|---|---|
| `OutboxDelivery` | what the outbox promises about an event, without the relay |
| `OutboxRelay` | the relay, its two locks, the table, shutdown and crashes |
| `OutboxRelayProofs` | its safety for any number of runs: deliveries, attempts, claims, what the two locks and the drain leave; it implements `OutboxDelivery` |
| `Idempotency` | the claim protocol on one key, with timeouts, crashes and the TTL |
| `IdempotencyProofs` | its safety, for any number of requests |
| `UserProfile` | one user: updates, a deletion, the audit log, the cached profile |
| `UserProfileProofs` | the version, its check, the audit log and the profile, for any number of requests |
| `Sessions` | the refresh tokens of several users: login, refresh, logout, password reset, deletion |
| `SessionsProofs` | all its invariants, for any number of requests |
| `UserTable` | the table `users`, its unique index and the transactions that write to it |
| `Registration` | what creates and verifies users: register, verify-email, the external login |
| `Credentials` | what changes or relies on the columns of a user: updates, resets, the second factor |
| `Accounts` | `Registration` and `Credentials` on one `UserTable`, with crashes |
| `AccountsProofs` | one user per address, for any requests, workloads and faults |
| `AccountsRequestsProofs` | what each request has found, holds and has written; types and whole registrations |
| `AccountsHistoryProofs` | what accounts owe to earlier mails, logins, resets and codes |
| `HttpErrors` | the errors of the API and what the exception filter makes of them |
| `AccessControl` | the routes, their decorators, and every check of a caller |
| `Configuration` | which environments the process starts in, and the settings it reads |
| `HttpPipeline` | a request from the first middleware to its answer; composes the three above |
| `HttpPipelineProofs` | all its invariants, for any requests, calls, roles and settings |
| `MC...` | the instances TLC checks: model values and their symmetry |

Names are the code's where it has one. Variables called *history* in their
declaration exist for the properties only; no action looks at them.

### OutboxRelay

A *run* is one call of `processPending`, `<<instance, slot>>`: the cron does
not wait for the previous call, so a process may have several. `pc[r]` is where
the run awaits. One action is what it does between two awaits: `Tick` raises
the flag, `Acquire*` is the lock, `Reclaim`, `Select`, `Claim`, `Publish*`,
`MarkPublished*` and `WriteFailure*` are `processBatch`, `Release*` is the
finally block. An action ending in `Fails` is the same call rejecting, for a
fault or because Redis or the pool is closed already; a statement or command
whose reply is lost has taken effect in one of its alternatives: the reclaim,
the COMMIT of a claim, `markPublished`, `incrementFailure`, `markFailed`, and
the commands of the Redis lock.

* A claim is two steps. `Select` is BEGIN and `SELECT ... FOR UPDATE SKIP
  LOCKED`: it reads rows, locks them (`RowLocks`) and passes over those another
  claim has locked. `Claim` is the UPDATE and the COMMIT. In between other runs
  select, and an UPDATE of one of the rows waits (`Writable`).
* A `markPublished` that took effect without a reply is taken for a failure by
  the catch (`outbox-relay.service.ts:163-202`), which writes `pending` or
  `failed` over the published row.
* Writes of a run are by id, without a condition on what the row has become
  (`typeorm-outbox.repository.ts:83-128`): `MarkPublished` and `WriteFailure`
  therefore overwrite. The attempts they write come from the snapshot taken at
  the claim (`snapshot`).
* Time is in two actions: `ClaimsGetStale` lets the stale threshold pass,
  `LockExpires(r)` the TTL of the key that `r` set. They may happen at any
  time, also under a batch.
* `life[i]` is the shutdown of a process: `up`, Redis quit (`disconnected`),
  flag set (`draining`), pool destroyed (`closed`). `waitForIdle` looks at the
  flag `isProcessing` only, and every run of the process lowers it when it
  ends, one that was refused the lock included: `overlapped` is the history of
  the processes that had two runs at once. `Exit` and `Crash` put a
  fresh process in its place; rows and the Redis key stay.
* Not modelled: the pending gauge, logging, the content of payloads (a row is
  readable or in `Poison`).

### Idempotency

Rows of different keys never meet, so one key stands for all. `record` is its
row. `pc[q]` is the statement request `q` awaits: `Purge`, `Insert`, `Read`,
`Drop` are `claim`, with its recursion; `Handle` is everything inside the
interceptor; `Complete`, `RecordRefusal` and `Forget` are the writes after it.
`TimeOut` answers 408 and sets `cut[q]`: the statement under way still takes
effect, and `GoOn` ends the request instead of passing to the next one.
`record.expired` is `expires_at` against the clock; a new window begins with
it, and the histories start anew.

### UserProfile

One user. Each action is one statement of a READ COMMITTED transaction: a read
sees `row`, the row as last committed; a write waits for `lock`, the
transaction that holds the row, and becomes visible at the commit. A row is a
version and the update that wrote it, which stands for its content: every update
changes the same columns, and `update()` always sets `updatedAt`, so that there
is always something to write. `Find`, `SelectAgain` and `Save`, `SaveMisses`,
`Insert` or `InsertConflicts` are the three statements of `save()`: the
repository's own SELECT, TypeORM's SELECT by id, and the UPDATE or, without a
row, the INSERT. The entity carries the version that the command has loaded
(`user.mapper.ts:27`). TypeORM counts the version up only if it is not among the
columns that differ from the row it has just selected; if another update has
committed since the load, it is, and the old version is written back
(`NextVersion`). `fellBack` and `raced` are the history of that. `EventsOfResult` is empty
because `save()` returns a model built from the row, while the event was added
to the model passed in. A profile is the pair of what two reads returned.

### Sessions

Refresh tokens of several users; a token is named after the request that issues
it. Each action is one statement. `row` is what is committed; `lock[t]` is the
transaction that has revoked `t` and not committed, and whoever wants to write
the row waits for it. `Consume` is the conditional UPDATE of
`consumeValidByHash`, the one place where two refreshes of one token are told
apart. The code takes what `query()` answers for the rows; of an UPDATE the
pinned TypeORM answers the rows and their number on Postgres
(`typeorm-refresh-token.repository.ts:72-83`, `package.json:88`). Two things
follow, and are what the model does:

* the first element is an array, never missing: `Consumes` goes on whether a
  row matched or not, and `slipped` is the history of those that matched none;
* an array has no `userId`: `LoadUser` looks for a user with an undefined id,
  TypeORM leaves that condition out, and it finds the first user of the table.
  Users are therefore numbered in the order of their ids.

`FindAll` and `RevokeAll` are the one UPDATE of `revokeAllForUser`: it
fixes its rows from the snapshot it starts with, waits for those that are held
and looks at each again. `Committed` makes the rows a request holds revoked and
the token it issues live, together. A `DomainError` (a refresh that presents a
revoked token, or finds no user at all) ends in a commit too, as `CommandUseCase`
has it. Logout has no transaction: its `Revoke` is committed at once.

What the model shows that no property forbids: a refresh that has consumed its
token when reuse is detected issues a successor that survives the revocation,
since the successor's row is not there yet when the UPDATE looks.

### UserTable, Registration, Credentials, Accounts

`rows` is the table as committed, `work[q]` the row that request `q` has
written and not committed. `Write` is a statement in a transaction, `WriteNow`
the same statement without one; both wait (are not enabled) while another
transaction holds the row or has to do with the address, as a unique index makes
them, and `Conflicts` is the index violated. The user that a request creates
has the request's name, so do the hash and the secret it writes.

* `Registration`: `RegisterStarts` to `Flush` are `RegisterUserUseCase` inside
  `CommandUseCase`. `unsaved` is what the transaction has written to
  `refresh_tokens` and `outbox_messages`, `staged` the events in the request's
  context, `job` the handler that `dispatch` starts without waiting for it.
  `LookUpSubject` to `SignIn` are `OidcAuthService.handleCallback`, whose
  statements are committed one by one.
* `Credentials`: `FindExisting`, `SelectAgain` and `UpdateColumns` are the three
  statements of `save()`. The repository reads the hash into the entity;
  TypeORM selects the row again and updates the columns that differ: an update
  thus writes the old hash back if a reset commits between the two reads.
  `CheckPending` and `EnableMfa` are the read and the write of `mfa/verify`,
  `CheckPassword`, `CheckCode` and `IssueTokens` a login with a second factor.
* `Accounts`: a behaviour has the requests of one element of `Workloads`, the
  others are `absent`. `Crash` rolls back what is open and forgets what was
  staged and the handlers that were started. One process is modelled: requests
  of two replicas differ only in what a crash takes with it.
* Left out: roles and names of a user, the content of e-mails, the expiry of
  tokens as a time (nothing obliges a token to be found), the rest of `users`,
  which `UserProfile` has, and of `refresh_tokens`, which `Sessions` has.

### HttpErrors, AccessControl, Configuration, HttpPipeline

`AccessControl` is the table of the routes, as their decorators make it, and
one operator per guard, middleware and check. `HttpErrors` has each error with
its status and code, and what distinguishes exceptions for `instanceof` and for
the filter. `Configuration` says which environments pass the validation.

A step of `HttpPipeline` ends where the code awaits: `Receive` is everything up
to the first guard, `Authenticate` the token's user, read once, and the two
guards that only look at it, `Throttle` and `CheckApiKey` the next guards,
`Claim` the idempotency interceptor, `Succeed` and `Fail` the handler, `Record`
and `Settle` what is written of its outcome, `TimeOut` the 408. Meanwhile roles
change, keys expire, users are deleted and the process begins to stop. An
answer is a status, a code, a shape and two request ids (in the body and in
the header); `produced` is what the handler came to, also when its client had
been told 408 before.

* The claim is one step here: its statements, their races, the TTL and crashes
  are in `Idempotency`, and one key is used by all keyed requests.
* The throttler's counter is a library's: it may have been reached at any
  request that counts. A use case may end in any of the errors it returns,
  those aside that depend on rights, on users and on the shutdown.
* `IpAllowlistMiddleware` is mounted on a wildcard, and Express takes the part of
  the path that the mount has matched off `req.path`: its exemption of the probes
  never applies, and `IpAllowed` has none. `MetricsIpAllowlistMiddleware` is
  registered for GET of one path, which leaves `req.path` as it is.
* Left out: errors before the first middleware (the body parser, CORS), the
  documentation pages, messages and the details of validation errors,
  compression, `Retry-After`, the metrics middleware.

### What is assumed of code outside src/

* PostgreSQL at READ COMMITTED: statements are atomic, row locks are held to
  the end of the transaction, a unique index lets one of two inserts through.
* TypeORM's `save` selects by id, then updates by id the columns that differ and
  counts the version up unless it is one of them, or inserts the entity as it
  is; it does not compare the version. `query()` of an UPDATE answers `[rows,
  count]` on Postgres, and a condition on `undefined` is left out (0.3.30).
* A claim that begins after the stale threshold has passed can find any row in
  progress stale: `NOW()` is the time its transaction began, and
  `ClaimsGetStale` may come at any moment before.
* PostgreSQL rolls back, and lets go of the rows of, a connection it has lost.
* An UPDATE of several rows takes their locks at once: two of them do not
  deadlock with each other (in PostgreSQL one would be aborted, which is `Fail`).
* Redis: `SET NX PX`, a script that runs atomically, expiry at the TTL.
* The cron fires on schedule, whether or not the previous call has returned.

## 3. Runs

| Run | Bounds | Shows |
|---|---|---|
| `relay_redis` | 2 replicas, one run each, one row, 2 attempts, 2 faults, reclaiming, fair | `TypeOK`, `PublishedWasDelivered`, `FailedAfterMaxTries`, `LeaseLostByOverlap`, `EveryEventSettles`, and the refinement `DeliveryPromise` |
| `relay_memory` | 2 replicas, 2 runs each, 2 rows, one of them unreadable, batch of 2, 1 fault, no reclaiming | `GuardPerProcess`, `ExclusiveClaim`, `SettledIsFinal`, `PoolClosedByOverlap` |
| `relay_overlap` | 2 replicas under Redis, 2 runs each | `LeaseExclusive` is violated: see Findings |
| `idempotency` | a request, a retry, another body, 1 fault, fair | `TypeOK`, `OneHandlerAtATime`, `AtMostOnceUnlessForgotten`, `ReplayIsOriginal`, `RecordedIsFinal`, `KeyIsFreed`, `RequestEnds` |
| `idem_exactly_once` | the same | `ExactlyOnce` is violated: see Findings |
| `user_profile` | 3 updates, a deletion, 2 readers, 1 fault | `TypeOK`, `VersionFallsOnlyByOverlap`, `LostOnlyWhenOverlapping`, `AuditBeforeIsLoaded`, `ProfileVersionNotOlder` |
| `user_lost_update` | 2 updates | `NoLostUpdate` is violated: see Findings |
| `sessions` | 2 users that may be deleted, a login, 2 refreshes, a logout, 2 resets with one token, 1 fault | `TypeOK`, `OneLiveUnlessSlipped`, `RotationIsAtomic`, `LogoutEndsUnlessSlipped`, `RevokeAllMissesNone`, `OneUseUnlessOverlapping` |
| `sessions_two_live` | a login, 2 refreshes | `OneLivePerLogin` is violated: see Findings |
| `accounts` | 9 workloads of 3 to 6 requests, 5 users, 3 addresses, 1 fault, fair | `TypeOK`, `OneUserPerAddress`, `RegisteredWhole`, `VerifiedWasMailed`, `OneAccountPerPerson`, `ResetStands`, `SecondFactorIsProven`, `RegistrationIsMailed` |
| `requests` | every route alone with every kind of caller in 3 environments, and 11 pairs of calls; 2 users, 1 fault, 1 change | `TypeOK`, `HandlerIsEntitled`, `AnswerFits`, `ReplayTellsTheSame` |
| `requests_upload` | 2 uploads with one key | `OtherBodyIsRefused` is violated: see Findings |

Why the bounds are enough. Two replicas are all a lock or a claim can tell
apart. Under the Redis lock one row meets everything that is hard in the relay
(the stale writer, the reclaim, another process), and the second fault is what
liveness needs to be more than one recovery; a batch with a head and a rest,
a row that cannot be read, claims that interleave and ticks of one process that
overlap are in `relay_memory`. Ticks that overlap under Redis are in
`relay_overlap`, which stops at the lease they lose; that nothing else loses it is
`LeaseLostByOverlap`, in `relay_redis` where no ticks overlap and as a theorem
where they do. The theorems are about batches of any size. Two attempts have a first and a last. `MaxFaults` bounds
failed calls, crashes and shutdowns together; everything a closed client or pool
makes fail afterwards is not counted, and a publish may fail at any time. One
request, its retry and a request with another body are all a row can be met by;
three updates are one more than a lost update or an old version written back
needs. Two refreshes race for one token, or
the second rotates what the first one issued; two resets race for one reset
token, and sweep what the refreshes issue meanwhile. Two users are a first one
and one that is not. The history `tries` stops at the limit, where no
property tells more of them apart.

The workloads of `accounts` bring together the requests that can meet in one
row or over one address, two of a kind where they race with each other; a
seeded user is there for what needs one that is old. The pairs of `requests` are
two keyed calls (same and other body, caller, route) and two calls about one
user (a deletion against each use of the deleted user's rights). The pairs with
a key run in the development environment and those about a user in the
production one, where profiles are cached (`MCInit`); single calls run in all
three.

In the safety runs replicas, or requests of one kind, are interchangeable and
TLC uses that; the runs with liveness do without symmetry.

Deadlock is checked for the relay, whose cron always has a next tick. It is
off for the other modules, where all requests may be served.

Fairness. `OutboxRelay!Fairness`: a tick that can fire fires, what a run
awaits returns or fails, time passes, and a process that began to shut down
goes on and is replaced (the orchestrator restarts it). `Idempotency!Fairness`:
what is awaited returns or fails, the TTL passes and the cleanup cron fires.
`Accounts!Fairness`: the statements of a registration, its dispatch and its
handler go on; each may still fail. It is weak fairness throughout, and never of a fault, a crash, a timeout, a
shutdown or the arrival of a request: `MaxFaults` says that faults stop.

Every property has a mutant in PROJECT.json: an operator of the model changed
the way a bug in that code would change it, kept beside the original under a
comment "Wrong on purpose", with which TLC finds the property violated.

## 4. Findings

* **`relay_overlap`** - the token in the Redis key names the process
  (`redis-distributed-lock.service.ts:26`), and ticks of a process overlap. An
  older run whose key has expired deletes the key of a newer run of the same
  process when it releases, and another replica enters a batch while that key
  should still keep it out. `docs/features/operations/multi-instance.md:21`
  calls the Redis lock a "single global relay worker". What does hold is
  `LeaseLostByOverlap`.
* **`idem_exactly_once`** - `catchError` stands after `complete()`
  (`idempotency.interceptor.ts:154`): when the response of a committed command
  cannot be stored, or the acknowledgement of its commit is lost, the row is
  removed and a retry executes the command again.
  `docs/features/reliability/idempotency.md:118` says "Exactly-once per key".
* **`user_lost_update`** - the version is compared with a row read earlier and
  not by the write (`update-user.use-case.ts:78`): two updates that overlap
  both commit. `docs/features/data/persistence-patterns.md:32` says TypeORM
  detects it. What does hold is `LostOnlyWhenOverlapping`.
* **`sessions_two_live`** - `consumeValidByHash` never answers null
  (`typeorm-refresh-token.repository.ts:82`, see Sessions in section 2): of two
  refreshes that have found one token valid, the one that consumes nothing goes on
  and the login has two live tokens, or a live one after a logout. The unit test
  'fails when concurrent consume loses the race'
  (`test/unit/auth/refresh-token.use-case.test.ts:141`) has it refused, on a mock
  that answers null. What does hold is `OneLiveUnlessSlipped` and
  `LogoutEndsUnlessSlipped`.
* **`requests_upload`** - the idempotency hash is taken by a global interceptor
  (`idempotency.interceptor.ts:87`), before the route's `FileInterceptor` has
  parsed the parts of an upload: two files under one key have one hash, and the
  second is answered with the first one's result and not stored.
  `docs/features/reliability/idempotency.md:63` says 422.

These were met while translating. The models contain each of them, and no run is
set aside to show it:

* **First user** - every refresh issues its tokens for the first user of the
  table, whoever presented the old one (`refresh-token.use-case.ts:82`), because
  the condition on the user is `undefined`. `docs/features/auth.md:32` says that
  the refresh token is rotated. An integration test of a refresh against
  PostgreSQL would show this one and `sessions_two_live`.
* **Version written back** - an update that commits while another one is between
  its load and its save makes that one write back the version it had loaded
  (`user.mapper.ts:27`). `docs/features/data/persistence-patterns.md:30` says
  that an update returns version + 1. A client with the old version then passes
  the check over an update it has not seen, which is why the properties that
  compare versions hold only as long as versions grow (`VersionsGrow`). What does
  hold of every behaviour is `VersionFallsOnlyByOverlap`.
* **Drain cut short** - a tick that is refused the lock lowers `isProcessing` in
  its finally block (`outbox-relay.service.ts:68-96`) although another tick of
  the process is in its batch: `waitForIdle` returns at once and the pool is
  destroyed under the batch. `test/unit/shared/shutdown.service.test.ts:78`
  (of the repository's tests) expects the shutdown to wait up to five seconds.
  `relay_memory` meets this; what does hold is `PoolClosedByOverlap`.
* **Cache not invalidated** - the update returns a model without the event, so
  the cache is never invalidated by an update (`typeorm-user.repository.ts:227`,
  `docs/features/data/caching.md:43`).
* `mfa-verify.use-case.ts:34` throws its `DomainError` where the other use cases
  return it, so that the interceptor sees no `HttpException` and removes the row:
  this 4xx is not cached, though `idempotency.md:65` says that 4xx are.
* `docs/features/security.md:7` exempts health probes and metrics from IP
  filtering. `IpAllowlistMiddleware` has an exemption for probes only, and it
  compares `req.path`, which its mount has emptied, so that it applies to no
  request. The model has the code's reading, and `HandlerIsEntitled` states it.

## 5. Proofs

TLAPS checks the following for every set of replicas, runs, rows and requests,
every limit and every number of faults, from the named assumptions of the
modules (`MessagesAreOrdered`, `LimitsArePositive`, and so on).

**The relay.** None of the properties is inductive: a published row may be
written late by a run that read it long ago. `OutboxRelayProofs!IInv` adds what
ties a run to its rows. `BatchInv`: a run outside the loop has no rows, and the
rows of a batch exist. `LockedInv`: what a claim has selected stays pending until
it commits, because it is locked, and no other claim has selected it. `CountInv`:
neither the column nor any snapshot of it is ahead of the offers made, a run that
has just offered its head is behind by at least one, and an open row has an offer
left. `DeliveredInv`: a run about to mark its head published has seen it
delivered. `OwnerInv`: without reclaiming, batches are disjoint and their rows are
processing, or published by an update that the run itself takes for a failure.
Most actions touch none of this, so lemma `QuietOrLoud` divides the steps once: a
quiet step leaves rows, batches and offers alone, and only the others are treated
one by one. It follows that published rows were delivered and failed rows used up
their attempts under any overlap of stale runs (`RelayPublishedWasDelivered`,
`RelayFailedAfterMaxTries`); and, without reclaiming, that claims are exclusive
however their transactions interleave (`RelayExclusiveClaim`: the step that needs
`LockedInv` is the commit of a claim), that failed is final, and that published
is left only by the run that published the row and got no reply
(`RelaySettledIsFinal`).

**The locks.** The theorems are about ticks that overlap as they like.
`RelayGuardPerProcess`: the memory lock keeps the runs of a process apart. Of the
Redis lock and of the drain less is left, and the theorems say exactly what:
`LeaseInv` and `DrainInv` are about runs of processes that are not in
`overlapped`, `OverlapInv` is what brings a process into it, and with them two
unexpired holders, or a pool closed under a batch before its time was up, need a
process whose ticks have overlapped (`RelayLeaseLostByOverlap`,
`RelayPoolClosedByOverlap`).

**The refinement.** `RelayKeepsPromise`: every step of the relay is one step of
`OutboxDelivery` or none, under either lock and any overlap, by cases on the
step with `IInv` at hand. A reclaim, a claim and every lock or shutdown step
leaves the outcome of a row as it was. Where nothing is reclaimed the promise does
not let a settled row open again; a published row whose reply was lost counts as
open there until its run has decided (`Outcome`), and otherwise as what its column
says. The runs check the promise with reclaiming; without it the theorem does, and
`SettledIsFinal` in `relay_memory`.

**Idempotency.** The theorems assume `TTLOutlivesRequests`, that no handler is
running when its row expires (a day by default, against a request timeout of
seconds). The invariant says who may be past the claim: the owner of the row,
which is in progress as long as its owner works, and nobody else. The rest
relates a recorded response to the outcome of the owner's handler, and the
committed requests that are not forgotten to the row that is there.

**The user and its profile.** The code compares the version when it has loaded
the row and not when it writes it, and may write an old version back, so the
argument goes through what the row has been. `Held`: who has written the row
holds it, and what is written has the next version of what is committed, or the
version it has loaded before another update committed; this gives
`UserVersionFallsOnlyByOverlap`. `Counted`: an update commits once, so that the
version is bounded by their number. `Versions`: as long as no version has been
put back and no update has inserted the row again after its deletion, versions
only grow and a version belongs to one content. `Reading` then says that a
command past its check has loaded the row its client saw, that the row read for
the audit log in between is the same one (its version is between two equal
ones), and that an update whose result it has seen can be the present row only
if it is the loaded one. `Profiles` is the same for the two reads of a reader.

**The sessions.** That a login has one live token is not inductive: a commit
makes a second one live. What is carried from the consume of a refresh to its
commit is that it holds a token that is live and belongs to the same login, or
has slipped (`Rotating`, `HeldIsLive`), and that a token is not there before its
request is done (`Unborn`, `Origins`). `Presented` ties what a request presents
to what was answered, `Sweeping` what `revokeAllForUser` found to what it has
revoked or holds. The other claims follow with it: a logout waits for the refresh
that holds its token, so that the one it ends has no successor on the way, unless
a refresh of that login slips.

**One user per address.** The unique index is checked when a row is written and
shown at the commit. `AccountsProofs!Reserved` carries the check: nobody else
writes a row, or an address, that an open transaction has to do with.
`OpenWork`: a request that writes without a transaction has none open, and who
ends has none either. It follows (`AccountsOneUserPerAddress`) for registrations,
external logins and updates together, under crashes and for any workloads.

**The requests of `Accounts`.** `AccountsRequestsProofs!Base` adds what each
request has found and holds: a request past its first statement has found a user
who is there (`FoundOK`); a registration has its user, its token and its outbox
row in one transaction, nothing before and all after (`RegisterOK`); a callback
that has not created its user yet has no row (`CallbackOK`); and what another
transaction has written differs from the committed row in the columns of its
statement only, because it holds the row (`WorkOK`). Rows never go and a row that
a transaction has written stays until that ends (`RowsGrow`, `OthersKeep`), so a
step is looked at for the request that takes it alone. Types and
`RegisteredWhole` follow. The proofs need that a request is for one route
(`RouteAssumption`) and that the mark for no row is not a row
(`NoneAssumption`).

**What accounts owe to the past.** `AccountsHistoryProofs!RowChanges` lists the
six ways in which a step changes a row: created, verified, updated, reset, and
given a pending or an enabled secret. Each of four invariants is then about a
few columns. `Mailing`: who is about to verify has found a token that was
mailed. `Linked`: every user a callback has found, linked or signed in to has
the person's address unless an update changed it, so that with one user per
address two such accounts are one. `ResetHeld`: after a reset that no update has
straddled, an update before its SELECT holds the hash of that reset, and one
behind it does not write the column. `Proven`: the secret that a verification
is about to enable, or a challenge about to end with, was proven already when
it was checked.

**The HTTP pipeline.** `HttpPipelineProofs!IInv` is mostly about one request.
`Admitted` says how far middlewares and guards have let it: which checks have
passed, and that the roles a guard saw are among those its user has had since it
came, although they may be gone by now. At the handler this and the use case's
own check make the caller entitled, and being entitled lasts. `Handled`: the
handler runs once, what it threw is what the interceptor will record, and an
operation that was performed can fail only when its outcome is written. `Waiting`:
who is not done has no answer but that of a timeout. `Fitting` is what an error
must be for the filter to tell it as documented; one lemma per source of errors
shows it (`GuardErrorsFit`, `UseCaseErrorsFit`, `RefusalsFit`, ...), and
`ErrorAnswerFits` carries it through the filter, so that `AnswerFits` needs no
case per route and error. `Beside` is what a step leaves of the other requests.
What two requests share is the row of the key: `Claimed` (it belongs to the
request that is on its way, so that nobody else writes it) and `Recorded` (it
tells the hash, the scope and the outcome of that request); a replay reads
nothing else. `SentinelAssumption` keeps the mark for nothing apart from calls,
users, errors, answers and rows, and "anonymous" from the ids of users.

The proof modules hold one lemma per part of an invariant and one step per
action in it; the temporal theorems at the end combine them. Each inductive
invariant was checked by TLC on the instance of its module's run before it was
proved.

Every safety invariant and every action property that a passing run checks is
stated by a theorem. Out of the prover's reach and only model-checked is
liveness (`EveryEventSettles`, `KeyIsFreed`, `RequestEnds`,
`RegistrationIsMailed`), since neither fairness nor ENABLED is supported. The
properties of the runs that expect a violation are false of the code and have no
theorem; section 4 says what they show.

## 6. What is not modelled

* The outbound HTTP client: timeout, retry and breaker are a library's, and
  nothing in `src/` calls it.
* The drivers behind files, e-mail and the broker: one call each, which succeeds
  or fails.
* Metrics, tracing and logging, which observe and change nothing.
* Paging, filters and `delete`, `softDelete` with a version in
  `typeorm-base.repository.ts`: the first only read, the others have no caller.
* The diff and the sanitizing of the audit log, the text of validation errors,
  formats of numbers and dates: pure, and no property is about them.
* The drain of the HTTP server and the teardown of telemetry at shutdown.
* What PostgreSQL does about deadlocks between transactions that write several
  rows; it aborts one, which is a failing statement here.

PROJECT.json has the status of each component. What is left out inside a
modelled part is said with its module in section 2.

A handler that outlives the TTL of its row is in the model (set
`TTLOutlivesRequests` to FALSE) and is not claimed to be safe: `complete` and
`deleteInProgress` do not name the claim they belong to.

A deletion that commits while an update is between its reads and its write is
in the model too. The update then matches no row and is audited all the same,
or inserts the user again, with the version that was loaded; the properties that
compare versions set the second case aside (`revived`), because nothing says what
it should be.

## 7. Plan

1. The path of an event from the registration to the broker: a registration's
   commit is an `Insert` of `OutboxRelay`, and `RegisteredWhole` with
   `DeliveryPromise` says that each committed one is delivered or given up.
2. An abstract specification of a session (who is logged in, and until when) that
   `Sessions` implements, as `OutboxDelivery` is for the relay, and of an
   idempotent operation that `Idempotency` implements; `Claim`, `Record` and
   `Settle` of `HttpPipeline` should be steps of the latter.
3. The lemmas that several proof modules repeat (a step leaves the other
   requests alone; a row that is held does not change) in a form they share.
