----------------------------- MODULE UserProfile -----------------------------
(***************************************************************************)
(* One user: the row of users that PATCH /users/:id and DELETE /users/:id  *)
(* change, the audit log written with each update, and the cached profile  *)
(* that GET /users/me reads through.                                       *)
(*                                                                         *)
(* Commands run in a READ COMMITTED transaction of CommandUseCase.  Each   *)
(* action is one statement: a read sees the row as last committed, a write *)
(* waits for the transaction that holds the row.  TypeORM and the cache    *)
(* store are modelled from how the repository calls them.                  *)
(***************************************************************************)
EXTENDS Naturals, FiniteSets

CONSTANTS
    Update,      \* requests PATCH /users/:id of this user
    Delete,      \* requests DELETE /users/:id of this user
    Get,         \* requests GET /users/me of this user
    Nobody,      \* not a request
    Gone,        \* no row
    NoProfile,   \* nothing in the cache, nothing answered
    MaxFaults    \* bound: statements and commits that fail

Command == Update \cup Delete
Request == Command \cup Get

ASSUME UpdatesAreFinite == IsFiniteSet(Update)
ASSUME RequestsAreDistinct ==
    /\ Update \cap Delete = {} /\ Command \cap Get = {}
    /\ Nobody \notin Request
ASSUME FaultsAreBounded == MaxFaults \in Nat

VARIABLES
    row,        \* the row as last committed, or Gone
    lock,       \* the transaction that holds the row, or Nobody
    cache,      \* the profile under userCacheKey, or NoProfile
    audit,      \* the updates that have inserted a row into audit_logs
    pc,         \* pc[q]: the statement request q is at
    asked,      \* asked[u]: the row whose version the body of u has
    before,     \* before[u]: the row getBeforeState read for the audit log
    loaded,     \* loaded[u]: the row findById read for the command
    picked,     \* picked[u]: the row TypeORM compares the entity of u with
    written,    \* written[u]: the row as u leaves it, if it commits
    first,      \* first[g]: the row behind the name and roles of the profile
    second,     \* second[g]: the row behind its dates and version
    answer,     \* answer[g]: the profile g was answered with
    shown,      \* history: what the row has been
    committed,  \* history: updates that committed, in the order of basis
    basis,      \* history: basis[u]: updates committed when u loaded the row
    lost,       \* history: pairs of updates, the second overwrote the first
    revived,    \* history: updates that inserted the row after its deletion
    raced,      \* history: updates another one committed during, from Load on
    fellBack,   \* history: updates that have not raised the version
    faults

rowVars == <<row, lock>>
commandVars == <<asked, before, loaded, picked, written>>
profileVars == <<cache, first, second, answer>>
historyVars == <<shown, committed, basis, lost, revived, raced, fellBack>>
vars == <<rowVars, audit, pc, commandVars, profileVars, historyVars, faults>>

\* The content of a row is named after the update that wrote it.
Version == 1..(Cardinality(Update) + 1)
Row == [version : Version, name : Update \cup {Nobody}]
Profile == [user : Row, version : Version]

ASSUME SentinelsAreDistinct == Gone \notin Row /\ NoProfile \notin Profile

UpdatePc == {"new", "before", "load", "find", "select", "save",
             "audit", "commit", "done"}
DeletePc == {"new", "load", "delete", "commit", "done"}
GetPc == {"new", "cache", "auth", "model", "set", "done"}

TypeOK ==
    /\ row \in Row \cup {Gone}
    /\ lock \in Command \cup {Nobody}
    /\ cache \in Profile \cup {NoProfile}
    /\ audit \in SUBSET Update
    /\ \A u \in Update : pc[u] \in UpdatePc
    /\ \A d \in Delete : pc[d] \in DeletePc
    /\ \A g \in Get : pc[g] \in GetPc
    /\ asked \in [Update -> Row]
    /\ before \in [Update -> Row \cup {Gone}]
    /\ loaded \in [Update -> Row \cup {Gone}]
    /\ picked \in [Update -> Row \cup {Gone}]
    /\ written \in [Update -> Row \cup {Gone}]
    /\ first \in [Get -> Row \cup {Gone}]
    /\ second \in [Get -> Row \cup {Gone}]
    /\ answer \in [Get -> Profile \cup {NoProfile}]
    /\ shown \in SUBSET Row
    /\ committed \in SUBSET Update
    /\ basis \in [Update -> SUBSET Update]
    /\ lost \in SUBSET (Update \X Update)
    /\ revived \in SUBSET Update
    /\ raced \in SUBSET Update
    /\ fellBack \in SUBSET Update
    /\ faults \in 0..MaxFaults

Init ==
    /\ row = [version |-> 1, name |-> Nobody]
    /\ lock = Nobody
    /\ cache = NoProfile
    /\ audit = {}
    /\ pc = [q \in Request |-> "new"]
    /\ asked = [u \in Update |-> row]
    /\ before = [u \in Update |-> Gone]
    /\ loaded = [u \in Update |-> Gone]
    /\ picked = [u \in Update |-> Gone]
    /\ written = [u \in Update |-> Gone]
    /\ first = [g \in Get |-> Gone]
    /\ second = [g \in Get |-> Gone]
    /\ answer = [g \in Get |-> NoProfile]
    /\ shown = {row}
    /\ committed = {}
    /\ basis = [u \in Update |-> {}]
    /\ lost = {}
    /\ revived = {}
    /\ raced = {}
    /\ fellBack = {}
    /\ faults = 0

Goto(q, p) == pc' = [pc EXCEPT ![q] = p]
Fault == faults < MaxFaults /\ faults' = faults + 1

\* A write waits for the transaction that holds the row.
RowFree == lock = Nobody

(***************************************************************************)
(* UpdateUserUseCase, inside CommandUseCase and AuditLogService.wrap       *)
(***************************************************************************)

\* The client sends the version of a row it has once been shown.
Receive(u) ==
    /\ pc[u] = "new"
    /\ \E x \in shown : asked' = [asked EXCEPT ![u] = x]
    /\ Goto(u, "before")
    /\ UNCHANGED <<rowVars, audit, before, loaded, picked, written, profileVars, historyVars, faults>>

\* getBeforeState: findByIdForAudit.
ReadBefore(u) ==
    /\ pc[u] = "before"
    /\ before' = [before EXCEPT ![u] = row]
    /\ Goto(u, "load")
    /\ UNCHANGED <<rowVars, audit, asked, loaded, picked, written, profileVars, historyVars, faults>>

\* Wrong on purpose: the version of the command is not looked at.
AnyVersion(u) == row # Gone

VersionMatches(u) == row.version = asked[u].version

\* findById, and the version it must have.
Load(u) ==
    /\ pc[u] = "load"
    /\ row # Gone
    /\ VersionMatches(u)
    /\ loaded' = [loaded EXCEPT ![u] = row]
    /\ basis' = [basis EXCEPT ![u] = committed]
    /\ Goto(u, "find")
    /\ UNCHANGED <<rowVars, audit, asked, before, picked, written, profileVars, shown,
                   committed, lost, revived, raced, fellBack, faults>>

\* A DomainError: no permission, no row, another version, an e-mail address
\* of another user.  The transaction commits, with nothing written.
Refuse(u) ==
    /\ pc[u] = "load"
    /\ Goto(u, "done")
    /\ UNCHANGED <<rowVars, audit, commandVars, profileVars, historyVars, faults>>

\* save() looks for the row, for its password hash and roles.  Without them
\* the INSERT it would come to violates a NOT NULL column.
Find(u) ==
    /\ pc[u] = "find"
    /\ Goto(u, IF row # Gone THEN "select" ELSE "done")
    /\ UNCHANGED <<rowVars, audit, commandVars, profileVars, historyVars, faults>>

\* repo.save(entity) begins with a SELECT of its own: the columns that differ
\* from the row it finds are the ones to write.
SelectAgain(u) ==
    /\ pc[u] = "select"
    /\ picked' = [picked EXCEPT ![u] = row]
    /\ Goto(u, "save")
    /\ UNCHANGED <<rowVars, audit, asked, before, loaded, written, profileVars,
                   historyVars, faults>>

\* Wrong on purpose: the version column counted up twice.
SkipsVersion(u) == row.version + 2

\* Wrong on purpose: version an ordinary column.
OrdinaryColumn(u) == loaded[u].version

\* toPersistence() gives the entity the version that was loaded.  It is among
\* the columns to write if the row picked has another; if it is not, the
\* database counts up the version the row has by now.
NextVersion(u) ==
    IF picked[u].version # loaded[u].version THEN loaded[u].version ELSE row.version + 1

\* UPDATE ... WHERE id, whatever version the row has by now.  There is one
\* always, because update() sets updatedAt.
Save(u) ==
    /\ pc[u] = "save"
    /\ RowFree
    /\ row # Gone /\ picked[u] # Gone
    /\ lock' = u
    /\ written' = [written EXCEPT ![u] = [version |-> NextVersion(u), name |-> u]]
    /\ Goto(u, "audit")
    /\ UNCHANGED <<row, audit, asked, before, loaded, picked, profileVars, historyVars, faults>>

\* The row was deleted after TypeORM had found it: the UPDATE matches no row,
\* and the command goes on.
SaveMisses(u) ==
    /\ pc[u] = "save"
    /\ row = Gone /\ picked[u] # Gone
    /\ Goto(u, "audit")
    /\ UNCHANGED <<rowVars, audit, commandVars, profileVars, historyVars, faults>>

\* TypeORM found no row: INSERT of the entity, its version included.
Insert(u) ==
    /\ pc[u] = "save"
    /\ RowFree
    /\ row = Gone /\ picked[u] = Gone
    /\ lock' = u
    /\ written' = [written EXCEPT ![u] = [version |-> loaded[u].version, name |-> u]]
    /\ Goto(u, "audit")
    /\ UNCHANGED <<row, audit, asked, before, loaded, picked, profileVars, historyVars, faults>>

\* By the time of the INSERT another update has inserted the row: the primary
\* key is taken, and the transaction is rolled back.
InsertConflicts(u) ==
    /\ pc[u] = "save"
    /\ RowFree
    /\ row # Gone /\ picked[u] = Gone
    /\ Goto(u, "done")
    /\ UNCHANGED <<rowVars, audit, commandVars, profileVars, historyVars, faults>>

\* auditLogRepository.save(entry, trx).
SaveAudit(u) ==
    /\ pc[u] = "audit"
    /\ audit' = audit \cup {u}
    /\ Goto(u, "commit")
    /\ UNCHANGED <<rowVars, commandVars, profileVars, historyVars, faults>>

\* The events stageFrom() collects from the result of the command: save()
\* returns a new model, built from the row, and UserUpdatedEvent has stayed
\* on the model that was passed to it.
EventsOfResult == {}

\* What the commit of u makes visible.
Committed(u) ==
    /\ committed' = committed \cup {u}
    /\ IF written[u] = Gone
       THEN UNCHANGED <<rowVars, shown, lost, revived, raced, fellBack>>
       ELSE /\ row' = written[u]
            /\ lock' = Nobody
            /\ shown' = shown \cup {written[u]}
            /\ lost' = IF row # Gone /\ row.name \in Update /\ row # asked[u]
                       THEN lost \cup {<<row.name, u>>} ELSE lost
            /\ revived' = IF row = Gone THEN revived \cup {u} ELSE revived
            /\ raced' = IF committed # basis[u] THEN raced \cup {u} ELSE raced
            /\ fellBack' = IF row # Gone /\ written[u].version <= row.version
                           THEN fellBack \cup {u} ELSE fellBack

\* COMMIT, and flushDomainEvents, whose only effect on this state would be
\* that of InvalidateUserCacheHandler.
Commit(u) ==
    /\ pc[u] = "commit"
    /\ Committed(u)
    /\ cache' = IF "user.updated" \in EventsOfResult THEN NoProfile ELSE cache
    /\ Goto(u, "done")
    /\ UNCHANGED <<audit, commandVars, first, second, answer, basis, faults>>

\* The acknowledgement of the COMMIT is lost: nothing is flushed.
CommitUnacknowledged(u) ==
    /\ pc[u] = "commit"
    /\ Fault
    /\ Committed(u)
    /\ Goto(u, "done")
    /\ UNCHANGED <<audit, commandVars, profileVars, basis>>

(***************************************************************************)
(* DeleteUserUseCase                                                       *)
(***************************************************************************)
LoadToDelete(d) ==
    /\ pc[d] \in {"new", "load"}
    /\ Goto(d, IF row # Gone THEN "delete" ELSE "done")
    /\ UNCHANGED <<rowVars, audit, commandVars, profileVars, historyVars, faults>>

DeleteRow(d) ==
    /\ pc[d] = "delete"
    /\ RowFree
    /\ lock' = d
    /\ Goto(d, "commit")
    /\ UNCHANGED <<row, audit, commandVars, profileVars, historyVars, faults>>

CommitDelete(d) ==
    /\ pc[d] = "commit"
    /\ row' = Gone
    /\ lock' = Nobody
    /\ Goto(d, "done")
    /\ UNCHANGED <<audit, commandVars, profileVars, historyVars, faults>>

\* A statement fails, or the COMMIT: the transaction, if any, is rolled back,
\* the row it held is as it was, and its audit row is gone.
Fail(q) ==
    /\ pc[q] \notin {"new", "done"}
    /\ Fault
    /\ lock' = IF lock = q THEN Nobody ELSE lock
    /\ audit' = audit \ {q}
    /\ Goto(q, "done")
    /\ UNCHANGED <<row, commandVars, profileVars, historyVars>>

(***************************************************************************)
(* GetCurrentUserUseCase, with CACHE_ENABLED, after JwtStrategy.validate   *)
(***************************************************************************)
Validate(g) ==
    /\ pc[g] = "new"
    /\ Goto(g, IF row # Gone THEN "cache" ELSE "done")
    /\ UNCHANGED <<rowVars, audit, commandVars, profileVars, historyVars, faults>>

CacheHit(g) ==
    /\ pc[g] = "cache"
    /\ cache # NoProfile
    /\ answer' = [answer EXCEPT ![g] = cache]
    /\ Goto(g, "done")
    /\ UNCHANGED <<rowVars, audit, commandVars, cache, first, second, historyVars, faults>>

CacheMiss(g) ==
    /\ pc[g] = "cache"
    /\ cache = NoProfile
    /\ Goto(g, "auth")
    /\ UNCHANGED <<rowVars, audit, commandVars, profileVars, historyVars, faults>>

\* findByIdWithRolesAndPermissions.
LoadAuthUser(g) ==
    /\ pc[g] = "auth"
    /\ first' = [first EXCEPT ![g] = row]
    /\ Goto(g, IF row # Gone THEN "model" ELSE "done")
    /\ UNCHANGED <<rowVars, audit, commandVars, cache, second, answer, historyVars, faults>>

\* findById.
LoadModel(g) ==
    /\ pc[g] = "model"
    /\ second' = [second EXCEPT ![g] = row]
    /\ Goto(g, IF row # Gone THEN "set" ELSE "done")
    /\ UNCHANGED <<rowVars, audit, commandVars, cache, first, answer, historyVars, faults>>

\* Wrong on purpose: the version from the first read, the rest from the second.
ProfileBackwards(g) == [user |-> second[g], version |-> first[g].version]

ProfileOf(g) == [user |-> first[g], version |-> second[g].version]

SetCache(g) ==
    /\ pc[g] = "set"
    /\ cache' = ProfileOf(g)
    /\ answer' = [answer EXCEPT ![g] = ProfileOf(g)]
    /\ Goto(g, "done")
    /\ UNCHANGED <<rowVars, audit, commandVars, first, second, historyVars, faults>>

\* CACHE_TTL_SECONDS have passed since the profile was set.
CacheExpires ==
    /\ cache # NoProfile
    /\ cache' = NoProfile
    /\ UNCHANGED <<rowVars, audit, pc, commandVars, first, second, answer, historyVars, faults>>

(***************************************************************************)
(* Specification                                                           *)
(***************************************************************************)
UpdateStep(u) ==
    \/ Receive(u) \/ ReadBefore(u) \/ Load(u) \/ Refuse(u) \/ Find(u)
    \/ SelectAgain(u) \/ Save(u) \/ SaveMisses(u) \/ Insert(u) \/ InsertConflicts(u)
    \/ SaveAudit(u) \/ Commit(u) \/ CommitUnacknowledged(u)

DeleteStep(d) == LoadToDelete(d) \/ DeleteRow(d) \/ CommitDelete(d)

GetStep(g) ==
    \/ Validate(g) \/ CacheHit(g) \/ CacheMiss(g)
    \/ LoadAuthUser(g) \/ LoadModel(g) \/ SetCache(g)

Next ==
    \/ \E u \in Update : UpdateStep(u)
    \/ \E d \in Delete : DeleteStep(d)
    \/ \E g \in Get : GetStep(g)
    \/ \E q \in Request : Fail(q)
    \/ CacheExpires

Spec == Init /\ [][Next]_vars

(***************************************************************************)
(* Properties                                                              *)
(***************************************************************************)

\* Versions count the updates: nobody has inserted the row again, and no
\* update has put the version back.
VersionsGrow == revived = {} /\ fellBack = {}

\* save() puts an old version back only if another update has committed since
\* it loaded the row: one after the other, updates count the version up.
VersionFallsOnlyByOverlap == fellBack \subseteq raced

\* As long as versions grow, the version check catches every update that was
\* sent with an old version: one that is overwritten unseen had not committed
\* when the other loaded.
LostOnlyWhenOverlapping ==
    VersionsGrow => \A p \in lost : p[1] \notin basis[p[2]]

\* The before state of an audit row is the row the command was checked
\* against, although the two are read by different statements, as long as a
\* version stands for one content.
AuditBeforeIsLoaded ==
    VersionsGrow => \A u \in audit : before[u] = loaded[u]

\* Name and version of a profile are read by two statements: the version may
\* be newer than the name, and is older only after a version was put back.
ProfileVersionNotOlder ==
    VersionsGrow =>
        \A p \in {cache} \cup {answer[g] : g \in Get} :
            p # NoProfile => p.version >= p.user.version

\* What the documentation says of optimistic locking: of two updates that
\* run concurrently the second is refused.
NoLostUpdate == lost = {}

=============================================================================
