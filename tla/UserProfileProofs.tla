--------------------------- MODULE UserProfileProofs ---------------------------
(***************************************************************************)
(* The invariants of UserProfile, for any number of updates, deletions,    *)
(* readers and faults.                                                     *)
(*                                                                         *)
(* Nothing in the code compares the version at the moment it writes, and   *)
(* save() may put an old one back, so the argument goes through what the   *)
(* row has been: an update that puts a version back has picked a row that  *)
(* another update has left since (Held, Reading); as long as none has, and *)
(* none has inserted the row again, versions only grow, and a version      *)
(* belongs to one content (Versions).  What a command or a reader has read *)
(* is then old, but never from another history (Reading, Profiles).        *)
(***************************************************************************)
EXTENDS UserProfile, FiniteSetTheorems, TLAPS

Types == TypeOK /\ pc = [q \in Request |-> pc[q]]

\* Who has written the row holds it.  The version it leaves is the next one,
\* or the one it has loaded before another update committed.
Held ==
    /\ \A u \in Update :
          /\ pc[u] \notin {"audit", "commit", "done"} => written[u] = Gone
          /\ pc[u] \in {"audit", "commit"} /\ written[u] # Gone => lock = u
          /\ lock = u =>
                /\ pc[u] \in {"audit", "commit"}
                /\ written[u] # Gone /\ written[u].name = u
                /\ \/ row # Gone /\ written[u].version = row.version + 1
                   \/ /\ written[u].version = loaded[u].version
                      /\ row # Gone => committed # basis[u]
    /\ \A d \in Delete : (pc[d] = "commit") <=> (lock = d)
    /\ \A u \in audit : pc[u] \in {"commit", "done"}

\* An update commits once, and no version is above the number of those that did.
Counted ==
    /\ \A u \in committed : pc[u] = "done"
    /\ \A p \in lost : p[2] \in committed
    /\ \A x \in shown : x.version <= Cardinality(committed) + 1

Versions ==
    /\ row # Gone => row \in shown
    /\ VersionsGrow => \A x \in shown :
          /\ row # Gone => x.version <= row.version
          /\ \A y \in shown : x.version = y.version => x = y

\* The reads of an update, and the updates it had seen the result of.
Reading ==
    /\ \A u \in Update :
          /\ asked[u] \in shown
          /\ before[u] \in shown \cup {Gone}
          /\ basis[u] \subseteq committed
          /\ pc[u] \in {"find", "select", "save", "audit", "commit"} => loaded[u] \in shown
          /\ pc[u] \in {"find", "select", "save"} /\ basis[u] = committed =>
                row \in {loaded[u], Gone}
          /\ pc[u] = "save" /\ basis[u] = committed => picked[u] \in {loaded[u], Gone}
    /\ VersionsGrow => \A u \in Update :
          /\ pc[u] = "load" =>
                /\ before[u] = Gone => row = Gone
                /\ before[u] # Gone => asked[u].version <= before[u].version
          /\ pc[u] \in {"find", "select", "save", "audit", "commit"} =>
                /\ before[u] = loaded[u]
                /\ row # Gone /\ row.name \in basis[u] => row = asked[u]

\* The two reads of a reader.
Profiles ==
    /\ \A g \in Get : /\ pc[g] = "model" => first[g] \in shown
                      /\ pc[g] = "set" => first[g] # Gone /\ second[g] # Gone
    /\ VersionsGrow => \A g \in Get :
          pc[g] = "set" => first[g].version <= second[g].version

Claims ==
    /\ VersionFallsOnlyByOverlap
    /\ LostOnlyWhenOverlapping
    /\ AuditBeforeIsLoaded
    /\ ProfileVersionNotOlder

IInv == Types /\ Held /\ Counted /\ Versions /\ Reading /\ Profiles /\ Claims

USE DEF VersionsGrow

(***************************************************************************)
(* The statements of a request                                             *)
(***************************************************************************)

PcOK ==
    /\ pc = [q \in Request |-> pc[q]]
    /\ \A u \in Update : pc[u] \in UpdatePc
    /\ \A d \in Delete : pc[d] \in DeletePc
    /\ \A g \in Get : pc[g] \in GetPc

\* Request q may be at statement p.
MayBeAt(q, p) ==
    /\ q \in Update => p \in UpdatePc
    /\ q \in Delete => p \in DeletePc
    /\ q \in Get => p \in GetPc

\* A request goes to a statement of its own, and the others stay.
LEMMA Moves ==
    ASSUME Types, NEW q \in Request, NEW p, Goto(q, p), MayBeAt(q, p)
    PROVE  /\ pc'[q] = p
           /\ \A x \in Request \ {q} : pc'[x] = pc[x]
           /\ PcOK'
<1>1. pc' = [pc EXCEPT ![q] = p] /\ pc = [x \in Request |-> pc[x]]
    BY DEF Goto, Types
<1>2. pc'[q] = p /\ \A x \in Request \ {q} : pc'[x] = pc[x]
    BY <1>1
<1>3. pc' = [x \in Request |-> pc'[x]]
    BY <1>1
<1>4. (\A u \in Update : pc'[u] \in UpdatePc) /\ (\A d \in Delete : pc'[d] \in DeletePc)
    BY <1>2 DEF MayBeAt, Types, TypeOK, Request, Command
<1>5. \A g \in Get : pc'[g] \in GetPc
    BY <1>2 DEF MayBeAt, Types, TypeOK, Request, Command
<1>6. QED
    BY <1>2, <1>3, <1>4, <1>5 DEF PcOK

\* How many updates have committed.
LEMMA CommittedCount ==
    ASSUME Types
    PROVE  /\ IsFiniteSet(committed)
           /\ Cardinality(committed) \in Nat
           /\ Cardinality(Update) \in Nat
           /\ Cardinality(committed) <= Cardinality(Update)
           /\ \A u \in Update \ committed :
                 /\ Cardinality(committed \cup {u}) = Cardinality(committed) + 1
                 /\ Cardinality(committed) < Cardinality(Update)
<1>1. committed \subseteq Update
    BY DEF Types, TypeOK
<1>2. IsFiniteSet(committed) /\ Cardinality(committed) <= Cardinality(Update)
    BY <1>1, UpdatesAreFinite, FS_Subset
<1>3. Cardinality(committed) \in Nat /\ Cardinality(Update) \in Nat
    BY <1>2, UpdatesAreFinite, FS_CardinalityType
<1>4. ASSUME NEW u \in Update \ committed
      PROVE  /\ Cardinality(committed \cup {u}) = Cardinality(committed) + 1
             /\ Cardinality(committed) < Cardinality(Update)
    <2>1. Cardinality(committed \cup {u}) = Cardinality(committed) + 1
        BY <1>2, <1>4, FS_AddElement
    <2>2. committed \cup {u} \subseteq Update
        BY <1>1
    <2>3. Cardinality(committed \cup {u}) <= Cardinality(Update)
        BY <2>2, UpdatesAreFinite, FS_Subset
    <2>4. QED
        BY <1>3, <2>1, <2>3
<1>5. QED
    BY <1>2, <1>3, <1>4

\* What a row is.
LEMMA RowFacts ==
    /\ Gone \notin Row
    /\ \A x \in Row : x.version \in Version /\ x.version \in Nat /\ x.version >= 1
    /\ \A x \in Row : x.name \in Update \cup {Nobody}
    /\ \A x \in Profile : x.user \in Row /\ x.version \in Version /\ x.version \in Nat
<1>1. Cardinality(Update) \in Nat
    BY UpdatesAreFinite, FS_CardinalityType
<1>2. \A v \in Version : v \in Nat /\ v >= 1
    BY <1>1 DEF Version
<1>3. QED
    BY <1>2, SentinelsAreDistinct DEF Row, Profile

(***************************************************************************)
(* Steps that only move a request                                          *)
(***************************************************************************)

\* An update, deletion or reader goes on, and what it holds stays.
LEMMA MoveKeeps ==
    ASSUME IInv, NEW q \in Request, NEW p, Goto(q, p), MayBeAt(q, p),
           UNCHANGED <<row, lock, cache, audit, asked, before, loaded, picked, written, first,
                       second, answer, shown, committed, basis, lost, revived, raced, fellBack, faults>>,
           pc[q] # "done",
           q \in Update =>
               <<pc[q], p>> \in {<<"load", "done">>, <<"find", "select">>, <<"find", "done">>,
                                 <<"save", "audit">>, <<"save", "done">>},
           q \in Delete => pc[q] # "commit" /\ p # "commit",
           q \in Get => p \notin {"model", "set"}
    PROVE  IInv'
<1>1. /\ pc'[q] = p
      /\ \A x \in Request \ {q} : pc'[x] = pc[x]
      /\ PcOK'
    BY Moves DEF IInv
<1>2. /\ \A u \in Update : u # q => pc'[u] = pc[u]
      /\ \A d \in Delete : d # q => pc'[d] = pc[d]
      /\ \A g \in Get : g # q => pc'[g] = pc[g]
    BY <1>1 DEF Request, Command
<1>3. Types'
    BY <1>1 DEF IInv, Types, TypeOK, PcOK
<1>4. Held'
    <2>1. \A u \in Update : u = q => pc[u] \in {"load", "find", "save"}
        OBVIOUS
    <2>2. \A u \in Update : lock = u => (pc'[u] \in {"audit", "commit"})
        BY <1>1, <1>2 DEF IInv, Held
    <2>3. \A u \in Update : pc'[u] \notin {"audit", "commit", "done"} => written[u] = Gone
        BY <1>1, <1>2 DEF IInv, Held
    <2>4. \A u \in Update : pc'[u] \in {"audit", "commit"} /\ written[u] # Gone => lock = u
        BY <1>1, <1>2 DEF IInv, Held
    <2>5. \A d \in Delete : (pc'[d] = "commit") <=> (lock = d)
        BY <1>1, <1>2 DEF IInv, Held
    <2>6. \A u \in audit : u \in Update
        BY DEF IInv, Types, TypeOK
    <2>7. \A u \in audit : pc'[u] \in {"commit", "done"}
        BY <1>1, <1>2, <2>1, <2>6 DEF IInv, Held
    <2>8. \A u \in Update : lock = u =>
             /\ written[u] # Gone /\ written[u].name = u
             /\ \/ row # Gone /\ written[u].version = row.version + 1
                \/ /\ written[u].version = loaded[u].version
                   /\ row # Gone => committed # basis[u]
        BY DEF IInv, Held
    <2>9. QED
        BY <2>2, <2>3, <2>4, <2>5, <2>7, <2>8 DEF IInv, Held
<1>5. Counted' /\ Versions'
    <2>1. \A u \in committed : u \in Update
        BY DEF IInv, Types, TypeOK
    <2>2. \A u \in committed : pc'[u] = "done"
        BY <1>2, <2>1 DEF IInv, Counted
    <2>3. QED
        BY <2>2 DEF IInv, Counted, Versions
<1>6. Reading'
    <2>1. \A u \in Update : pc'[u] = "load" => pc[u] = "load"
        BY <1>1, <1>2
    <2>2. \A u \in Update : pc'[u] \in {"find", "select", "save", "audit", "commit"} =>
                            pc[u] \in {"find", "select", "save", "audit", "commit"}
        BY <1>1, <1>2
    <2>3. \A u \in Update : /\ pc'[u] \in {"find", "select", "save"} =>
                               pc[u] \in {"find", "select", "save"}
                            /\ pc'[u] = "save" => pc[u] = "save"
        BY <1>1, <1>2
    <2>4. QED
        BY <2>1, <2>2, <2>3 DEF IInv, Reading
<1>7. Profiles'
    <2>1. \A g \in Get : /\ pc'[g] = "model" => pc[g] = "model"
                         /\ pc'[g] = "set" => pc[g] = "set"
        BY <1>1, <1>2
    <2>2. QED
        BY <2>1 DEF IInv, Profiles
<1>8. Claims'
    BY DEF IInv, Claims, LostOnlyWhenOverlapping, VersionFallsOnlyByOverlap, AuditBeforeIsLoaded,
           ProfileVersionNotOlder
<1>9. QED
    BY <1>3, <1>4, <1>5, <1>6, <1>7, <1>8 DEF IInv

\* The steps of the code that are such.
LEMMA MovesKeep ==
    ASSUME IInv
    PROVE  /\ \A u \in Update : Refuse(u) \/ Find(u) \/ SaveMisses(u) \/ InsertConflicts(u) => IInv'
           /\ \A d \in Delete : LoadToDelete(d) => IInv'
           /\ \A g \in Get : Validate(g) \/ CacheMiss(g) => IInv'
<1>1. ASSUME NEW u \in Update, Refuse(u) \/ Find(u) \/ SaveMisses(u) \/ InsertConflicts(u)
      PROVE  IInv'
    <2>1. PICK p : /\ Goto(u, p)
                   /\ <<pc[u], p>> \in {<<"load", "done">>, <<"find", "select">>,
                          <<"find", "done">>, <<"save", "audit">>, <<"save", "done">>}
        BY <1>1 DEF Refuse, Find, SaveMisses, InsertConflicts
    <2>2. UNCHANGED <<row, lock, cache, audit, asked, before, loaded, picked, written, first, second,
                      answer, shown, committed, basis, lost, revived, raced, fellBack, faults>>
        BY <1>1 DEF Refuse, Find, SaveMisses, InsertConflicts, rowVars, commandVars, profileVars,
                    historyVars
    <2>3. u \in Request /\ u \notin Delete /\ u \notin Get /\ pc[u] # "done"
        BY <2>1, RequestsAreDistinct DEF Request, Command
    <2>4. MayBeAt(u, p)
        BY <2>1, <2>3 DEF MayBeAt, UpdatePc
    <2>5. QED
        BY <2>1, <2>2, <2>3, <2>4, MoveKeeps
<1>2. ASSUME NEW d \in Delete, LoadToDelete(d) PROVE IInv'
    <2>1. PICK p \in {"delete", "done"} : Goto(d, p)
        BY <1>2 DEF LoadToDelete
    <2>2. UNCHANGED <<row, lock, cache, audit, asked, before, loaded, picked, written, first, second,
                      answer, shown, committed, basis, lost, revived, raced, fellBack, faults>>
        BY <1>2 DEF LoadToDelete, rowVars, commandVars, profileVars, historyVars
    <2>3. d \in Request /\ d \notin Update /\ d \notin Get /\ pc[d] \in {"new", "load"}
        BY <1>2, RequestsAreDistinct DEF LoadToDelete, Request, Command
    <2>4. MayBeAt(d, p)
        BY <2>1, <2>3 DEF MayBeAt, DeletePc
    <2>5. QED
        BY <2>1, <2>2, <2>3, <2>4, MoveKeeps
<1>3. ASSUME NEW g \in Get, Validate(g) \/ CacheMiss(g) PROVE IInv'
    <2>1. PICK p \in {"cache", "done", "auth"} : Goto(g, p)
        BY <1>3 DEF Validate, CacheMiss
    <2>2. UNCHANGED <<row, lock, cache, audit, asked, before, loaded, picked, written, first, second,
                      answer, shown, committed, basis, lost, revived, raced, fellBack, faults>>
        BY <1>3 DEF Validate, CacheMiss, rowVars, commandVars, profileVars, historyVars
    <2>3. g \in Request /\ g \notin Update /\ g \notin Delete /\ pc[g] # "done"
        BY <1>3, RequestsAreDistinct DEF Validate, CacheMiss, Request, Command
    <2>4. MayBeAt(g, p)
        BY <2>1, <2>3 DEF MayBeAt, GetPc
    <2>5. QED
        BY <2>1, <2>2, <2>3, <2>4, MoveKeeps
<1>4. QED
    BY <1>1, <1>2, <1>3

(***************************************************************************)
(* The reads of an update                                                  *)
(***************************************************************************)

\* The client has been shown the version that it sends.
LEMMA ReceiveKeeps == ASSUME IInv, NEW u \in Update, Receive(u) PROVE IInv'
<1>1. PICK x \in shown : asked' = [asked EXCEPT ![u] = x]
    BY DEF Receive
<1>2. UNCHANGED <<row, lock, cache, audit, before, loaded, picked, written, first, second, answer,
                  shown, committed, basis, lost, revived, raced, fellBack, faults>> /\ pc[u] = "new"
    BY DEF Receive, rowVars, profileVars, historyVars
<1>3. u \in Request /\ MayBeAt(u, "before")
    BY RequestsAreDistinct DEF Request, Command, MayBeAt, UpdatePc
<1>4. /\ pc'[u] = "before"
      /\ \A y \in Request \ {u} : pc'[y] = pc[y]
      /\ PcOK'
    BY <1>3, Moves DEF IInv, Receive
<1>5. /\ \A w \in Update : w # u => pc'[w] = pc[w] /\ asked'[w] = asked[w]
      /\ \A d \in Delete : pc'[d] = pc[d]
      /\ \A g \in Get : pc'[g] = pc[g]
      /\ asked'[u] = x /\ asked' \in [Update -> Row]
    BY <1>1, <1>4, RequestsAreDistinct DEF Request, Command, IInv, Types, TypeOK
<1>6. Types'
    BY <1>2, <1>4, <1>5 DEF IInv, Types, TypeOK, PcOK
<1>7. Held'
    <2>1. \A w \in audit : w \in Update /\ w # u
        BY <1>2 DEF IInv, Held, Types, TypeOK
    <2>2. QED
        BY <1>2, <1>4, <1>5, <2>1 DEF IInv, Held
<1>8. Counted' /\ Versions'
    BY <1>2, <1>4, <1>5 DEF IInv, Counted, Versions, Types, TypeOK
<1>9. Reading'
    BY <1>2, <1>4, <1>5 DEF IInv, Reading
<1>10. Profiles' /\ Claims'
    BY <1>2, <1>5 DEF IInv, Profiles, Claims, LostOnlyWhenOverlapping, VersionFallsOnlyByOverlap,
        AuditBeforeIsLoaded, ProfileVersionNotOlder
<1>11. QED
    BY <1>6, <1>7, <1>8, <1>9, <1>10 DEF IInv

\* The row read for the audit log is not older than the one the client saw.
LEMMA ReadBeforeKeeps == ASSUME IInv, NEW u \in Update, ReadBefore(u) PROVE IInv'
<1>1. UNCHANGED <<row, lock, cache, audit, asked, loaded, picked, written, first, second, answer,
                  shown, committed, basis, lost, revived, raced, fellBack, faults>> /\ pc[u] = "before"
    BY DEF ReadBefore, rowVars, profileVars, historyVars
<1>2. u \in Request /\ MayBeAt(u, "load")
    BY RequestsAreDistinct DEF Request, Command, MayBeAt, UpdatePc
<1>3. /\ pc'[u] = "load"
      /\ \A y \in Request \ {u} : pc'[y] = pc[y]
      /\ PcOK'
    BY <1>2, Moves DEF IInv, ReadBefore
<1>4. /\ \A w \in Update : w # u => pc'[w] = pc[w] /\ before'[w] = before[w]
      /\ \A d \in Delete : pc'[d] = pc[d]
      /\ \A g \in Get : pc'[g] = pc[g]
      /\ before'[u] = row /\ before' \in [Update -> Row \cup {Gone}]
    BY <1>3, RequestsAreDistinct DEF Request, Command, IInv, Types, TypeOK, ReadBefore
<1>5. Types'
    BY <1>1, <1>3, <1>4 DEF IInv, Types, TypeOK, PcOK
<1>6. Held'
    <2>1. \A w \in audit : w \in Update /\ w # u
        BY <1>1 DEF IInv, Held, Types, TypeOK
    <2>2. lock # u
        BY <1>1 DEF IInv, Held
    <2>3. QED
        BY <1>1, <1>3, <1>4, <2>1, <2>2 DEF IInv, Held
<1>7. u \notin committed
    BY <1>1 DEF IInv, Counted
<1>8. Counted' /\ Versions'
    BY <1>1, <1>4, <1>7 DEF IInv, Counted, Versions, Types, TypeOK
<1>9. Reading'
    BY <1>1, <1>3, <1>4 DEF IInv, Reading, Versions
<1>10. Profiles' /\ Claims'
    <2>1. \A w \in audit : w \in Update /\ w # u
        BY <1>1 DEF IInv, Held, Types, TypeOK
    <2>2. AuditBeforeIsLoaded'
        BY <1>1, <1>4, <2>1 DEF IInv, Claims, AuditBeforeIsLoaded
    <2>3. LostOnlyWhenOverlapping' /\ VersionFallsOnlyByOverlap' /\ ProfileVersionNotOlder'
        BY <1>1 DEF IInv, Claims, LostOnlyWhenOverlapping, VersionFallsOnlyByOverlap,
                    ProfileVersionNotOlder
    <2>4. QED
        BY <1>1, <1>4, <2>2, <2>3 DEF IInv, Profiles, Claims
<1>11. QED
    BY <1>5, <1>6, <1>8, <1>9, <1>10 DEF IInv

\* A row of the version that the client sent is the row that it saw, and what
\* was read for the audit log in between is the same.
LEMMA LoadKeeps == ASSUME IInv, NEW u \in Update, Load(u) PROVE IInv'
<1>1. /\ UNCHANGED <<row, lock, cache, audit, asked, before, picked, written, first, second, answer,
                     shown, committed, lost, revived, raced, fellBack, faults>>
      /\ pc[u] = "load" /\ row # Gone /\ row.version = asked[u].version
    BY DEF Load, VersionMatches, rowVars, profileVars
<1>2. u \in Request /\ MayBeAt(u, "find")
    BY RequestsAreDistinct DEF Request, Command, MayBeAt, UpdatePc
<1>3. /\ pc'[u] = "find"
      /\ \A y \in Request \ {u} : pc'[y] = pc[y]
      /\ PcOK'
    BY <1>2, Moves DEF IInv, Load
<1>4. /\ \A w \in Update : w # u => pc'[w] = pc[w] /\ loaded'[w] = loaded[w]
                                    /\ basis'[w] = basis[w]
      /\ \A d \in Delete : pc'[d] = pc[d]
      /\ \A g \in Get : pc'[g] = pc[g]
      /\ loaded'[u] = row /\ loaded' \in [Update -> Row \cup {Gone}]
      /\ basis'[u] = committed /\ basis' \in [Update -> SUBSET Update]
    BY <1>3, RequestsAreDistinct DEF Request, Command, IInv, Types, TypeOK, Load
<1>5. Types'
    BY <1>1, <1>3, <1>4 DEF IInv, Types, TypeOK, PcOK
<1>6. Held'
    <2>1. \A w \in audit : w \in Update /\ w # u
        BY <1>1 DEF IInv, Held, Types, TypeOK
    <2>2. lock # u
        BY <1>1 DEF IInv, Held
    <2>3. QED
        BY <1>1, <1>3, <1>4, <2>1, <2>2 DEF IInv, Held
<1>7. u \notin committed
    BY <1>1 DEF IInv, Counted
<1>8. Counted' /\ Versions'
    BY <1>1, <1>4, <1>7 DEF IInv, Counted, Versions, Types, TypeOK
<1>9. VersionsGrow => row = asked[u] /\ before[u] = row
    <2>1. ASSUME VersionsGrow PROVE row = asked[u]
        BY <1>1, <2>1 DEF IInv, Versions, Reading
    <2>2. ASSUME VersionsGrow PROVE before[u] = row
        <3>1. /\ before[u] \in shown /\ row \in shown
              /\ asked[u].version <= before[u].version
              /\ before[u].version <= row.version
            BY <1>1, <2>2 DEF IInv, Versions, Reading
        <3>2. before[u] \in Row /\ row \in Row
            BY <3>1 DEF IInv, Types, TypeOK
        <3>3. before[u].version = row.version
            BY <1>1, <3>1, <3>2, RowFacts
        <3>4. QED
            BY <2>2, <3>1, <3>3 DEF IInv, Versions
    <2>3. QED
        BY <2>1, <2>2
<1>10. Reading'
    <2>1. row \in shown
        BY <1>1 DEF IInv, Versions
    <2>2. \A w \in Update :
             /\ asked[w] \in shown /\ before[w] \in shown \cup {Gone}
             /\ basis'[w] \subseteq committed
             /\ pc'[w] \in {"find", "select", "save", "audit", "commit"} => loaded'[w] \in shown
        BY <1>3, <1>4, <2>1 DEF IInv, Reading
    <2>3. \A w \in Update :
             /\ pc'[w] \in {"find", "select", "save"} /\ basis'[w] = committed =>
                   row \in {loaded'[w], Gone}
             /\ pc'[w] = "save" /\ basis'[w] = committed => picked[w] \in {loaded'[w], Gone}
        BY <1>3, <1>4 DEF IInv, Reading
    <2>4. ASSUME VersionsGrow, NEW w \in Update
          PROVE  /\ pc'[w] = "load" =>
                       /\ before[w] = Gone => row = Gone
                       /\ before[w] # Gone => asked[w].version <= before[w].version
                 /\ pc'[w] \in {"find", "select", "save", "audit", "commit"} =>
                       /\ before[w] = loaded'[w]
                       /\ row # Gone /\ row.name \in basis'[w] => row = asked[w]
        BY <1>3, <1>4, <1>9, <2>4 DEF IInv, Reading
    <2>5. QED
        BY <1>1, <2>2, <2>3, <2>4 DEF Reading
<1>11. Profiles' /\ LostOnlyWhenOverlapping'
    <2>1. \A p \in lost : p[2] \in committed /\ p[2] \in Update
        BY DEF IInv, Counted, Types, TypeOK
    <2>2. QED
        BY <1>1, <1>4, <1>7, <2>1 DEF IInv, Profiles, Claims, LostOnlyWhenOverlapping
<1>12. Claims'
    <2>1. \A w \in audit : w \in Update /\ w # u
        BY <1>1 DEF IInv, Held, Types, TypeOK
    <2>2. AuditBeforeIsLoaded'
        BY <1>1, <1>4, <2>1 DEF IInv, Claims, AuditBeforeIsLoaded
    <2>3. VersionFallsOnlyByOverlap' /\ ProfileVersionNotOlder'
        BY <1>1 DEF IInv, Claims, VersionFallsOnlyByOverlap, ProfileVersionNotOlder
    <2>4. QED
        BY <1>11, <2>2, <2>3 DEF Claims
<1>13. QED
    BY <1>5, <1>6, <1>8, <1>10, <1>11, <1>12 DEF IInv

(***************************************************************************)
(* The writes                                                              *)
(***************************************************************************)

\* An update picks the row it loaded, unless another update has committed.
LEMMA SelectAgainKeeps == ASSUME IInv, NEW u \in Update, SelectAgain(u) PROVE IInv'
<1>1. UNCHANGED <<row, lock, cache, audit, asked, before, loaded, written, first, second,
                  answer, shown, committed, basis, lost, revived, raced, fellBack, faults>>
      /\ pc[u] = "select"
    BY DEF SelectAgain, rowVars, profileVars, historyVars
<1>2. u \in Request /\ MayBeAt(u, "save")
    BY RequestsAreDistinct DEF Request, Command, MayBeAt, UpdatePc
<1>3. /\ pc'[u] = "save"
      /\ \A y \in Request \ {u} : pc'[y] = pc[y]
      /\ PcOK'
    BY <1>2, Moves DEF IInv, SelectAgain
<1>4. /\ \A w \in Update : w # u => pc'[w] = pc[w] /\ picked'[w] = picked[w]
      /\ \A d \in Delete : pc'[d] = pc[d]
      /\ \A g \in Get : pc'[g] = pc[g]
      /\ picked'[u] = row /\ picked' \in [Update -> Row \cup {Gone}]
    BY <1>3, RequestsAreDistinct DEF Request, Command, IInv, Types, TypeOK, SelectAgain
<1>5. Types'
    BY <1>1, <1>3, <1>4 DEF IInv, Types, TypeOK, PcOK
<1>6. Held'
    <2>1. \A w \in audit : w \in Update /\ w # u
        BY <1>1 DEF IInv, Held, Types, TypeOK
    <2>2. QED
        BY <1>1, <1>3, <1>4, <2>1 DEF IInv, Held
<1>7. u \notin committed
    BY <1>1 DEF IInv, Counted
<1>8. Counted' /\ Versions'
    BY <1>1, <1>4, <1>7 DEF IInv, Counted, Versions, Types, TypeOK
<1>9. Reading'
    BY <1>1, <1>3, <1>4 DEF IInv, Reading
<1>10. Profiles' /\ Claims'
    BY <1>1, <1>4 DEF IInv, Profiles, Claims, LostOnlyWhenOverlapping,
        VersionFallsOnlyByOverlap, AuditBeforeIsLoaded, ProfileVersionNotOlder
<1>11. QED
    BY <1>5, <1>6, <1>8, <1>9, <1>10 DEF IInv

\* The version an update writes: the next one, or the one it loaded, and then
\* the row is gone or another update has committed since.
LEMMA VersionToWrite ==
    ASSUME IInv, NEW u \in Update, Save(u) \/ Insert(u)
    PROVE  \E n \in Version :
              /\ written' = [written EXCEPT ![u] = [version |-> n, name |-> u]]
              /\ \/ row # Gone /\ n = row.version + 1
                 \/ n = loaded[u].version /\ (row # Gone => committed # basis[u])
<1>1. pc[u] = "save"
    BY DEF Save, Insert
<1>2. loaded[u] \in Row /\ loaded[u] # Gone /\ loaded[u].version \in Version
    BY <1>1, RowFacts DEF IInv, Reading, Types, TypeOK
<1>3. CASE Insert(u)
    BY <1>2, <1>3 DEF Insert
<1>4. CASE Save(u) /\ picked[u].version # loaded[u].version
    <2>1. committed # basis[u]
        BY <1>1, <1>4 DEF IInv, Reading, Save
    <2>2. QED
        BY <1>2, <1>4, <2>1 DEF Save, NextVersion
<1>5. CASE Save(u) /\ picked[u].version = loaded[u].version
    <2>1. row \in Row /\ row # Gone /\ row.version \in Nat /\ row.version >= 1
        BY <1>5, RowFacts DEF Save, IInv, Types, TypeOK
    <2>2. row.version <= Cardinality(committed) + 1
        BY <2>1 DEF IInv, Versions, Counted
    <2>3. u \in Update \ committed
        BY <1>1 DEF IInv, Counted
    <2>4. /\ Cardinality(committed) \in Nat /\ Cardinality(Update) \in Nat
          /\ Cardinality(committed) < Cardinality(Update)
        BY <2>3, CommittedCount DEF IInv
    <2>5. row.version + 1 \in Version
        BY <2>1, <2>2, <2>4 DEF Version
    <2>6. QED
        BY <1>5, <2>1, <2>5 DEF Save, NextVersion
<1>6. QED
    BY <1>3, <1>4, <1>5

\* The row of an update that has written is held from then on.
LEMMA SaveKeeps == ASSUME IInv, NEW u \in Update, Save(u) \/ Insert(u) PROVE IInv'
<1>1. /\ UNCHANGED <<row, cache, audit, asked, before, loaded, picked, first, second, answer,
                     shown, committed, basis, lost, revived, raced, fellBack, faults>>
      /\ pc[u] = "save" /\ lock = Nobody /\ lock' = u
    BY DEF Save, Insert, RowFree, profileVars, historyVars
<1>2. u \in Request /\ MayBeAt(u, "audit") /\ Goto(u, "audit")
    BY RequestsAreDistinct DEF Request, Command, MayBeAt, UpdatePc, Save, Insert
<1>3. /\ pc'[u] = "audit"
      /\ \A y \in Request \ {u} : pc'[y] = pc[y]
      /\ PcOK'
    BY <1>2, Moves DEF IInv
<1>4. u \notin committed /\ u # Nobody
    BY <1>1, RequestsAreDistinct DEF IInv, Counted, Request, Command
<1>5. PICK n \in Version :
              /\ written' = [written EXCEPT ![u] = [version |-> n, name |-> u]]
              /\ \/ row # Gone /\ n = row.version + 1
                 \/ n = loaded[u].version /\ (row # Gone => committed # basis[u])
    BY VersionToWrite
<1>6. PICK new : new = [version |-> n, name |-> u]
    OBVIOUS
<1>7. new \in Row /\ new # Gone /\ new.name = u /\ new.version = n
    <2>1. new \in Row
        BY <1>6 DEF Row
    <2>2. QED
        BY <1>6, <2>1, RowFacts
<1>8. /\ \A w \in Update : w # u => pc'[w] = pc[w] /\ written'[w] = written[w]
      /\ \A d \in Delete : pc'[d] = pc[d]
      /\ \A g \in Get : pc'[g] = pc[g]
      /\ written'[u] = new /\ written' \in [Update -> Row \cup {Gone}]
    <2>1. written' = [written EXCEPT ![u] = new]
        BY <1>5, <1>6
    <2>2. written' \in [Update -> Row \cup {Gone}] /\ written'[u] = new
          /\ \A w \in Update : w # u => written'[w] = written[w]
        BY <1>7, <2>1 DEF IInv, Types, TypeOK
    <2>3. QED
        BY <1>3, <2>2, RequestsAreDistinct DEF Request, Command
<1>9. Types'
    BY <1>1, <1>3, <1>8 DEF IInv, Types, TypeOK, PcOK, Command
<1>10. Held'
    <2>1. \A w \in Update : w # u =>
             /\ pc'[w] \notin {"audit", "commit", "done"} => written'[w] = Gone
             /\ ~(pc'[w] \in {"audit", "commit"} /\ written'[w] # Gone)
        BY <1>1, <1>8, RequestsAreDistinct DEF IInv, Held, Request, Command
    <2>2. \A d \in Delete : pc'[d] # "commit" /\ lock' # d
        BY <1>1, <1>8, RequestsAreDistinct DEF IInv, Held, Request, Command
    <2>3. \A w \in audit' : pc'[w] \in {"commit", "done"}
        <3>1. \A w \in audit : w \in Update /\ w # u
            BY <1>1 DEF IInv, Held, Types, TypeOK
        <3>2. QED
            BY <1>1, <1>8, <3>1 DEF IInv, Held
    <2>4. /\ written'[u] # Gone /\ written'[u].name = u
          /\ \/ row' # Gone /\ written'[u].version = row'.version + 1
             \/ /\ written'[u].version = loaded'[u].version
                /\ row' # Gone => committed' # basis'[u]
        BY <1>1, <1>5, <1>7, <1>8
    <2>5. QED
        BY <1>1, <1>3, <2>1, <2>2, <2>3, <2>4 DEF Held
<1>11. Counted' /\ Versions'
    BY <1>1, <1>4, <1>8 DEF IInv, Counted, Versions, Types, TypeOK
<1>12. Reading'
    BY <1>1, <1>3, <1>8 DEF IInv, Reading
<1>13. Profiles' /\ Claims'
    BY <1>1, <1>8 DEF IInv, Profiles, Claims, LostOnlyWhenOverlapping,
        VersionFallsOnlyByOverlap, AuditBeforeIsLoaded, ProfileVersionNotOlder
<1>14. QED
    BY <1>9, <1>10, <1>11, <1>12, <1>13 DEF IInv

\* What the audit log has of an update is what the update was checked against.
LEMMA SaveAuditKeeps == ASSUME IInv, NEW u \in Update, SaveAudit(u) PROVE IInv'
<1>1. UNCHANGED <<row, lock, cache, asked, before, loaded, picked, written, first, second,
                  answer, shown, committed, basis, lost, revived, raced, fellBack, faults>>
      /\ pc[u] = "audit" /\ audit' = audit \cup {u}
    BY DEF SaveAudit, rowVars, commandVars, profileVars, historyVars
<1>2. u \in Request /\ MayBeAt(u, "commit")
    BY RequestsAreDistinct DEF Request, Command, MayBeAt, UpdatePc
<1>3. /\ pc'[u] = "commit"
      /\ \A y \in Request \ {u} : pc'[y] = pc[y]
      /\ PcOK'
    BY <1>2, Moves DEF IInv, SaveAudit
<1>4. /\ \A w \in Update : w # u => pc'[w] = pc[w]
      /\ \A d \in Delete : pc'[d] = pc[d]
      /\ \A g \in Get : pc'[g] = pc[g]
    BY <1>3, RequestsAreDistinct DEF Request, Command
<1>5. Types'
    BY <1>1, <1>3 DEF IInv, Types, TypeOK, PcOK
<1>6. Held'
    <2>1. \A w \in audit' : pc'[w] \in {"commit", "done"}
        BY <1>1, <1>3, <1>4 DEF IInv, Held, Types, TypeOK
    <2>2. QED
        BY <1>1, <1>3, <1>4, <2>1 DEF IInv, Held
<1>7. u \notin committed
    BY <1>1 DEF IInv, Counted
<1>8. Counted' /\ Versions'
    BY <1>1, <1>4, <1>7 DEF IInv, Counted, Versions, Types, TypeOK
<1>9. Reading'
    BY <1>1, <1>3, <1>4 DEF IInv, Reading
<1>10. AuditBeforeIsLoaded'
    <2>1. VersionsGrow => before[u] = loaded[u]
        BY <1>1 DEF IInv, Reading
    <2>2. QED
        BY <1>1, <2>1 DEF IInv, Claims, AuditBeforeIsLoaded
<1>11. Profiles' /\ Claims'
    BY <1>1, <1>4, <1>10 DEF IInv, Profiles, Claims, LostOnlyWhenOverlapping,
        VersionFallsOnlyByOverlap, ProfileVersionNotOlder
<1>12. QED
    BY <1>5, <1>6, <1>8, <1>9, <1>11 DEF IInv

\* A commit that changes the row raises its version or has been raced, and nobody who
\* loaded the row before counts the update among those it has seen.
LEMMA CommittedKeeps ==
    ASSUME IInv, NEW u \in Update, pc[u] = "commit", Committed(u), Goto(u, "done"),
           UNCHANGED <<cache, audit, asked, before, loaded, picked, written, first, second, answer, basis>>,
           faults' \in 0..MaxFaults
    PROVE  IInv'
<1>1. u \in Request /\ MayBeAt(u, "done")
    BY RequestsAreDistinct DEF Request, Command, MayBeAt, UpdatePc
<1>2. /\ pc'[u] = "done"
      /\ \A y \in Request \ {u} : pc'[y] = pc[y]
      /\ PcOK'
    BY <1>1, Moves DEF IInv
<1>3. /\ \A w \in Update : w # u => pc'[w] = pc[w]
      /\ \A d \in Delete : pc'[d] = pc[d]
      /\ \A g \in Get : pc'[g] = pc[g]
    BY <1>2, RequestsAreDistinct DEF Request, Command
<1>4. u \notin committed /\ u \in Update \ committed
    BY DEF IInv, Counted
<1>5. /\ Cardinality(committed) \in Nat
      /\ Cardinality(committed \cup {u}) = Cardinality(committed) + 1
    BY <1>4, CommittedCount DEF IInv
<1>6. committed' = committed \cup {u}
    BY DEF Committed
<1>7. VersionsGrow' => VersionsGrow
    BY DEF Committed
<1>8. \A w \in audit : pc'[w] \in {"commit", "done"}
    BY <1>2, <1>3 DEF IInv, Held, Types, TypeOK
<1>9. AuditBeforeIsLoaded'
    BY <1>7 DEF IInv, Claims, AuditBeforeIsLoaded
<1>10. ProfileVersionNotOlder'
    BY <1>7 DEF IInv, Claims, ProfileVersionNotOlder
<1>11. Profiles'
    <2>1. shown \subseteq shown'
        BY DEF Committed
    <2>2. QED
        BY <1>3, <1>7, <2>1 DEF IInv, Profiles
<1>12. CASE written[u] = Gone
    <2>1. UNCHANGED <<row, lock, shown, lost, revived, raced, fellBack>>
        BY <1>12 DEF Committed, rowVars
    <2>2. Types'
        BY <1>2, <1>6, <2>1 DEF IInv, Types, TypeOK, PcOK
    <2>3. Held'
        <3>1. \A w \in Update : lock = w => w # u /\ committed' # basis[w] 
            BY <1>4, <1>6, <1>12 DEF IInv, Held, Reading
        <3>2. QED
            BY <1>2, <1>3, <1>8, <1>12, <2>1, <3>1 DEF IInv, Held
    <2>4. Counted'
        <3>1. \A w \in committed' : pc'[w] = "done"
            BY <1>2, <1>3, <1>6 DEF IInv, Counted, Types, TypeOK
        <3>2. \A x \in shown : x.version \in Nat
            BY RowFacts DEF IInv, Types, TypeOK
        <3>3. QED
            BY <1>5, <1>6, <2>1, <3>1, <3>2 DEF IInv, Counted
    <2>5. Versions'
        BY <2>1 DEF IInv, Versions
    <2>6. Reading'
        <3>1. \A w \in Update : basis[w] # committed'
            BY <1>4, <1>6 DEF IInv, Reading
        <3>2. QED
            BY <1>2, <1>3, <1>6, <2>1, <3>1 DEF IInv, Reading
    <2>7. LostOnlyWhenOverlapping' /\ VersionFallsOnlyByOverlap'
        BY <2>1 DEF IInv, Claims, LostOnlyWhenOverlapping, VersionFallsOnlyByOverlap
    <2>8. QED
        BY <1>9, <1>10, <1>11, <2>2, <2>3, <2>4, <2>5, <2>6, <2>7 DEF IInv, Claims
<1>13. CASE written[u] # Gone
    <2>1. /\ row' = written[u] /\ lock' = Nobody /\ shown' = shown \cup {written[u]}
          /\ lost' = IF row # Gone /\ row.name \in Update /\ row # asked[u]
                     THEN lost \cup {<<row.name, u>>} ELSE lost
          /\ revived' = IF row = Gone THEN revived \cup {u} ELSE revived
          /\ raced' = IF committed # basis[u] THEN raced \cup {u} ELSE raced
          /\ fellBack' = IF row # Gone /\ written[u].version <= row.version
                         THEN fellBack \cup {u} ELSE fellBack
        BY <1>13 DEF Committed
    <2>2. /\ lock = u /\ written[u] \in Row /\ written[u].name = u
          /\ \/ row # Gone /\ written[u].version = row.version + 1
             \/ /\ written[u].version = loaded[u].version
                /\ row # Gone => committed # basis[u]
        BY <1>13 DEF IInv, Held, Types, TypeOK
    <2>3. u # Nobody /\ \A d \in Delete : d # u /\ d # Nobody
        BY RequestsAreDistinct DEF Request, Command
    <2>4. Types'
        <3>1. lost' \in SUBSET (Update \X Update)
            BY <2>1 DEF IInv, Types, TypeOK
        <3>2. /\ revived' \in SUBSET Update /\ shown' \in SUBSET Row
              /\ raced' \in SUBSET Update /\ fellBack' \in SUBSET Update
            BY <2>1, <2>2 DEF IInv, Types, TypeOK
        <3>3. QED
            BY <1>2, <1>6, <2>1, <2>2, <3>1, <3>2 DEF IInv, Types, TypeOK, PcOK
    <2>5. Held'
        <3>1. \A w \in Update : w # u =>
                 /\ pc'[w] \notin {"audit", "commit", "done"} => written[w] = Gone
                 /\ ~(pc'[w] \in {"audit", "commit"} /\ written[w] # Gone)
            BY <1>3, <2>2 DEF IInv, Held
        <3>2. \A w \in Update : w # lock'
            BY <2>1, RequestsAreDistinct DEF Request, Command
        <3>3. \A d \in Delete : pc'[d] # "commit" /\ lock' # d
            BY <1>3, <2>1, <2>2, <2>3 DEF IInv, Held
        <3>4. QED
            BY <1>2, <1>8, <3>1, <3>2, <3>3 DEF Held
    <2>6. Counted'
        <3>1. \A w \in committed' : pc'[w] = "done"
            BY <1>2, <1>3, <1>6 DEF IInv, Counted, Types, TypeOK
        <3>2. \A p \in lost' : p[2] \in committed'
            BY <1>6, <2>1 DEF IInv, Counted
        <3>3. \A x \in shown : x.version \in Nat /\ x.version <= Cardinality(committed) + 1
            BY RowFacts DEF IInv, Counted, Types, TypeOK
        <3>4. loaded[u] \in shown /\ (row # Gone => row \in shown)
            BY DEF IInv, Versions, Reading
        <3>5. written[u].version <= Cardinality(committed) + 2
            BY <1>5, <2>2, <3>3, <3>4
        <3>6. \A x \in shown' : x.version <= Cardinality(committed') + 1
            BY <1>5, <1>6, <2>1, <3>3, <3>5
        <3>7. QED
            BY <3>1, <3>2, <3>6 DEF Counted
    <2>7. ASSUME VersionsGrow'
          PROVE  VersionsGrow /\ row # Gone /\ ~(written[u].version <= row.version)
        BY <2>1, <2>7
    <2>8. Versions'
        <3>1. row' \in shown'
            BY <2>1
        <3>2. ASSUME VersionsGrow', NEW x \in shown
              PROVE  x.version < row'.version
            <4>1. /\ x.version <= row.version /\ row.version \in Nat /\ x.version \in Nat
                  /\ written[u].version \in Nat
                BY <2>2,  <2>7, <3>2, RowFacts DEF IInv, Versions, Types, TypeOK
            <4>2. QED
                BY <2>1, <2>2, <2>7, <3>2, <4>1
        <3>3. written[u].version \in Nat /\ \A x \in shown : x.version \in Nat
            BY <2>2, RowFacts DEF IInv, Types, TypeOK
        <3>4. ASSUME VersionsGrow', NEW x \in shown'
              PROVE  /\ x.version <= row'.version
                     /\ \A y \in shown' : x.version = y.version => x = y
            BY <2>1, <2>7, <3>2, <3>3, <3>4 DEF IInv, Versions
        <3>5. QED
            BY <3>1, <3>4 DEF Versions
    <2>9. Reading'
        <3>1. \A w \in Update : /\ asked[w] \in shown' /\ before[w] \in shown' \cup {Gone}
                                /\ basis[w] \subseteq committed' /\ basis[w] # committed'
                                /\ pc'[w] \in {"find", "select", "save", "audit", "commit"} =>
                                       loaded[w] \in shown'
            BY <1>2, <1>3, <1>4, <1>6, <2>1 DEF IInv, Reading
        <3>2. ASSUME VersionsGrow', NEW w \in Update
              PROVE  /\ pc'[w] = "load" =>
                           /\ before[w] = Gone => row' = Gone
                           /\ before[w] # Gone => asked[w].version <= before[w].version
                     /\ pc'[w] \in {"find", "select", "save", "audit", "commit"} =>
                           before[w] = loaded[w] /\ row'.name \notin basis[w]
            <4>1. u \notin basis[w]
                BY <1>4 DEF IInv, Reading
            <4>2. QED
                BY <1>2, <1>3, <2>1, <2>2, <2>7, <3>2, <4>1 DEF IInv, Reading
        <3>3. QED
            BY <3>1, <3>2 DEF Reading
    <2>10. LostOnlyWhenOverlapping'
        <3>1. ASSUME VersionsGrow', row.name \in basis[u], row # asked[u] PROVE FALSE
            BY <2>7, <3>1 DEF IInv, Reading
        <3>2. QED
            BY <2>1, <2>7, <3>1 DEF IInv, Claims, LostOnlyWhenOverlapping
    <2>11. VersionFallsOnlyByOverlap'
        <3>1. row # Gone => row \in Row /\ row.version \in Nat
            BY RowFacts DEF IInv, Types, TypeOK
        <3>2. row # Gone /\ written[u].version <= row.version => committed # basis[u]
            BY <2>2, <3>1
        <3>3. QED
            BY <2>1, <3>2 DEF IInv, Claims, VersionFallsOnlyByOverlap
    <2>12. QED
        BY <1>9, <1>10, <1>11, <2>4, <2>5, <2>6, <2>8, <2>9, <2>10, <2>11 DEF IInv, Claims
<1>14. QED
    BY <1>12, <1>13

\* The two ways a commit may be answered.
LEMMA CommitKeeps ==
    ASSUME IInv, NEW u \in Update, Commit(u) \/ CommitUnacknowledged(u)
    PROVE  IInv'
<1>1. CASE Commit(u)
    <2>1. faults' = faults /\ faults' \in 0..MaxFaults
        BY <1>1 DEF Commit, IInv, Types, TypeOK
    <2>2. UNCHANGED <<cache, audit, asked, before, loaded, picked, written, first, second, answer, basis>>
        BY <1>1 DEF Commit, EventsOfResult, commandVars
    <2>3. QED
        BY <1>1, <2>1, <2>2, CommittedKeeps DEF Commit
<1>2. CASE CommitUnacknowledged(u)
    <2>1. faults' \in 0..MaxFaults
        BY <1>2, FaultsAreBounded DEF CommitUnacknowledged, Fault, IInv, Types, TypeOK
    <2>2. QED
        BY <1>2, <2>1, CommittedKeeps DEF CommitUnacknowledged, commandVars, profileVars
<1>3. QED
    BY <1>1, <1>2

\* A deletion holds the row until it commits.
LEMMA DeleteRowKeeps == ASSUME IInv, NEW d \in Delete, DeleteRow(d) PROVE IInv'
<1>1. /\ UNCHANGED <<row, cache, audit, asked, before, loaded, picked, written, first, second,
                     answer, shown, committed, basis, lost, revived, raced, fellBack, faults>>
      /\ lock = Nobody /\ lock' = d
    BY DEF DeleteRow, RowFree, commandVars, profileVars, historyVars
<1>2. d \in Request /\ MayBeAt(d, "commit")
    BY RequestsAreDistinct DEF Request, Command, MayBeAt, DeletePc
<1>3. /\ pc'[d] = "commit"
      /\ \A y \in Request \ {d} : pc'[y] = pc[y]
      /\ PcOK'
    BY <1>2, Moves DEF IInv, DeleteRow
<1>4. /\ \A w \in Update : pc'[w] = pc[w]
      /\ \A x \in Delete : x # d => pc'[x] = pc[x]
      /\ \A g \in Get : pc'[g] = pc[g]
    BY <1>3, RequestsAreDistinct DEF Request, Command
<1>5. Types'
    BY <1>1, <1>3 DEF IInv, Types, TypeOK, PcOK, Command
<1>6. Held'
    <2>1. Nobody \notin Update /\ Nobody \notin Delete /\ d \notin Update
        BY RequestsAreDistinct DEF Request, Command
    <2>2. \A w \in Update : ~(pc[w] \in {"audit", "commit"} /\ written[w] # Gone)
        BY <1>1, <2>1 DEF IInv, Held
    <2>3. \A x \in Delete : pc[x] # "commit"
        BY <1>1, <2>1 DEF IInv, Held
    <2>4. \A w \in audit : pc'[w] \in {"commit", "done"}
        BY <1>4 DEF IInv, Held, Types, TypeOK
    <2>5. QED
        BY <1>1, <1>3, <1>4, <2>1, <2>2, <2>3, <2>4 DEF IInv, Held
<1>7. Counted' /\ Versions'
    BY <1>1, <1>4 DEF IInv, Counted, Versions, Types, TypeOK
<1>8. Reading'
    BY <1>1, <1>4 DEF IInv, Reading
<1>9. Profiles' /\ Claims'
    BY <1>1, <1>4 DEF IInv, Profiles, Claims, LostOnlyWhenOverlapping,
        VersionFallsOnlyByOverlap, AuditBeforeIsLoaded, ProfileVersionNotOlder
<1>10. QED
    BY <1>5, <1>6, <1>7, <1>8, <1>9 DEF IInv

\* Without a row nothing that was read of it is wrong.
LEMMA CommitDeleteKeeps == ASSUME IInv, NEW d \in Delete, CommitDelete(d) PROVE IInv'
<1>1. /\ UNCHANGED <<cache, audit, asked, before, loaded, picked, written, first, second,
                     answer, shown, committed, basis, lost, revived, raced, fellBack, faults>>
      /\ pc[d] = "commit" /\ row' = Gone /\ lock' = Nobody
    BY DEF CommitDelete, commandVars, profileVars, historyVars
<1>2. d \in Request /\ MayBeAt(d, "done")
    BY RequestsAreDistinct DEF Request, Command, MayBeAt, DeletePc
<1>3. /\ pc'[d] = "done"
      /\ \A y \in Request \ {d} : pc'[y] = pc[y]
      /\ PcOK'
    BY <1>2, Moves DEF IInv, CommitDelete
<1>4. /\ \A w \in Update : pc'[w] = pc[w]
      /\ \A x \in Delete : x # d => pc'[x] = pc[x]
      /\ \A g \in Get : pc'[g] = pc[g]
    BY <1>3, RequestsAreDistinct DEF Request, Command
<1>5. Types'
    BY <1>1, <1>3 DEF IInv, Types, TypeOK, PcOK, Command
<1>6. Held'
    <2>1. Nobody \notin Update /\ Nobody \notin Delete /\ d \notin Update /\ lock = d
        BY <1>1, RequestsAreDistinct DEF Request, Command, IInv, Held
    <2>2. \A w \in Update : ~(pc[w] \in {"audit", "commit"} /\ written[w] # Gone)
        BY <2>1 DEF IInv, Held
    <2>3. \A x \in Delete : x # d => pc[x] # "commit"
        BY <2>1 DEF IInv, Held
    <2>4. \A w \in audit : pc'[w] \in {"commit", "done"}
        BY <1>4 DEF IInv, Held, Types, TypeOK
    <2>5. QED
        BY <1>1, <1>3, <1>4, <2>1, <2>2, <2>3, <2>4 DEF IInv, Held
<1>7. Counted' /\ Versions'
    BY <1>1, <1>4 DEF IInv, Counted, Versions, Types, TypeOK
<1>8. Reading'
    BY <1>1, <1>4 DEF IInv, Reading
<1>9. Profiles' /\ Claims'
    BY <1>1, <1>4 DEF IInv, Profiles, Claims, LostOnlyWhenOverlapping,
        VersionFallsOnlyByOverlap, AuditBeforeIsLoaded, ProfileVersionNotOlder
<1>10. QED
    BY <1>5, <1>6, <1>7, <1>8, <1>9 DEF IInv

\* A statement that fails gives the row back as it was.
LEMMA FailKeeps == ASSUME IInv, NEW q \in Request, Fail(q) PROVE IInv'
<1>1. /\ UNCHANGED <<row, cache, asked, before, loaded, picked, written, first, second,
                     answer, shown, committed, basis, lost, revived, raced, fellBack>>
      /\ pc[q] # "done" /\ lock' = IF lock = q THEN Nobody ELSE lock
      /\ audit' = audit \ {q}
    BY DEF Fail, commandVars, profileVars, historyVars
<1>2. MayBeAt(q, "done")
    BY DEF MayBeAt, UpdatePc, DeletePc, GetPc
<1>3. /\ pc'[q] = "done"
      /\ \A y \in Request \ {q} : pc'[y] = pc[y]
      /\ PcOK'
    BY <1>2, Moves DEF IInv, Fail
<1>4. /\ \A w \in Update : w # q => pc'[w] = pc[w]
      /\ \A d \in Delete : d # q => pc'[d] = pc[d]
      /\ \A g \in Get : g # q => pc'[g] = pc[g]
    BY <1>3 DEF Request, Command
<1>5. Types'
    <2>1. faults' \in 0..MaxFaults
        BY FaultsAreBounded DEF Fail, Fault, IInv, Types, TypeOK
    <2>2. QED
        BY <1>1, <1>3, <2>1 DEF IInv, Types, TypeOK, PcOK
<1>6. Held'
    <2>1. q # Nobody /\ Nobody \notin Update /\ Nobody \notin Delete
        BY RequestsAreDistinct DEF Request, Command
    <2>2. \A w \in Update : w # q =>
             /\ pc'[w] = pc[w] /\ (lock' = w <=> lock = w)
        BY <1>1, <1>4, <2>1
    <2>3. \A d \in Delete : d # q =>
             /\ pc'[d] = pc[d] /\ (lock' = d <=> lock = d)
        BY <1>1, <1>4, <2>1
    <2>4. lock' # q
        BY <1>1, <2>1
    <2>5. \A w \in audit' : w \in Update /\ w # q /\ w \in audit
        BY <1>1 DEF IInv, Types, TypeOK
    <2>6. \A w \in audit' : pc'[w] \in {"commit", "done"}
        BY <1>4, <2>5 DEF IInv, Held
    <2>7. QED
        BY <1>1, <1>3, <2>2, <2>3, <2>4, <2>6 DEF IInv, Held
<1>7. Counted' /\ Versions'
    BY <1>1, <1>4 DEF IInv, Counted, Versions, Types, TypeOK
<1>8. Reading'
    <2>1. \A u \in Update : pc'[u] # "done" => pc'[u] = pc[u]
        BY <1>3, <1>4
    <2>2. QED
        BY <1>1, <2>1 DEF IInv, Reading
<1>9. Profiles'
    <2>1. \A g \in Get : pc'[g] # "done" => pc'[g] = pc[g]
        BY <1>3, <1>4
    <2>2. QED
        BY <1>1, <2>1 DEF IInv, Profiles
<1>10. Claims'
    BY <1>1 DEF IInv, Claims, LostOnlyWhenOverlapping, VersionFallsOnlyByOverlap,
                AuditBeforeIsLoaded, ProfileVersionNotOlder
<1>11. QED
    BY <1>5, <1>6, <1>7, <1>8, <1>9, <1>10 DEF IInv

(***************************************************************************)
(* The readers                                                             *)
(***************************************************************************)

\* What a step of a reader leaves alone.
LEMMA ReaderKeeps ==
    ASSUME IInv, NEW g \in Get, NEW p \in GetPc, Goto(g, p),
           UNCHANGED <<row, lock, audit, asked, before, loaded, picked, written, shown, committed,
                       basis, lost, revived, raced, fellBack, faults>>,
           first' \in [Get -> Row \cup {Gone}],
           second' \in [Get -> Row \cup {Gone}],
           answer' \in [Get -> Profile \cup {NoProfile}],
           cache' \in Profile \cup {NoProfile},
           Profiles', ProfileVersionNotOlder'
    PROVE  IInv'
<1>1. g \in Request /\ MayBeAt(g, p)
    BY RequestsAreDistinct DEF Request, Command, MayBeAt
<1>2. /\ \A y \in Request \ {g} : pc'[y] = pc[y]
      /\ PcOK'
    BY <1>1, Moves DEF IInv
<1>3. /\ \A w \in Update : pc'[w] = pc[w]
      /\ \A d \in Delete : pc'[d] = pc[d]
    BY <1>2, RequestsAreDistinct DEF Request, Command
<1>4. Types'
    BY <1>2 DEF IInv, Types, TypeOK, PcOK
<1>5. Held'
    <2>1. \A w \in audit : pc'[w] \in {"commit", "done"}
        BY <1>3 DEF IInv, Held, Types, TypeOK
    <2>2. QED
        BY <1>3, <2>1 DEF IInv, Held
<1>6. Counted' /\ Versions'
    BY <1>3 DEF IInv, Counted, Versions, Types, TypeOK
<1>7. Reading'
    BY <1>3 DEF IInv, Reading
<1>8. Claims'
    BY DEF IInv, Claims, LostOnlyWhenOverlapping, VersionFallsOnlyByOverlap, AuditBeforeIsLoaded
<1>9. QED
    BY <1>4, <1>5, <1>6, <1>7, <1>8 DEF IInv

\* The statements of the other readers when one of them moves.
LEMMA OtherReaders ==
    ASSUME IInv, NEW g \in Get, NEW p \in GetPc, Goto(g, p)
    PROVE  pc'[g] = p /\ \A x \in Get : x # g => pc'[x] = pc[x]
<1>1. g \in Request /\ MayBeAt(g, p)
    BY RequestsAreDistinct DEF Request, Command, MayBeAt
<1>2. QED
    BY <1>1, Moves DEF IInv, Request

\* An answer from the cache.
LEMMA CacheHitKeeps == ASSUME IInv, NEW g \in Get, CacheHit(g) PROVE IInv'
<1>1. /\ UNCHANGED <<row, lock, audit, asked, before, loaded, picked, written, shown, committed,
                     basis, lost, revived, raced, fellBack, faults, cache, first, second>>
      /\ answer' = [answer EXCEPT ![g] = cache] /\ Goto(g, "done") /\ "done" \in GetPc
    BY DEF CacheHit, rowVars, commandVars, historyVars, GetPc
<1>2. /\ answer' \in [Get -> Profile \cup {NoProfile}]
      /\ \A x \in Get : answer'[x] = cache \/ answer'[x] = answer[x]
    BY <1>1 DEF IInv, Types, TypeOK
<1>3. Profiles'
    BY <1>1, OtherReaders DEF IInv, Profiles
<1>4. ProfileVersionNotOlder'
    BY <1>1, <1>2 DEF IInv, Claims, ProfileVersionNotOlder
<1>5. QED
    BY <1>1, <1>2, <1>3, <1>4, ReaderKeeps DEF IInv, Types, TypeOK

\* The first read is a row that has been shown.
LEMMA LoadAuthUserKeeps == ASSUME IInv, NEW g \in Get, LoadAuthUser(g) PROVE IInv'
<1>1. /\ UNCHANGED <<row, lock, audit, asked, before, loaded, picked, written, shown, committed,
                     basis, lost, revived, raced, fellBack, faults, cache, second, answer>>
      /\ first' = [first EXCEPT ![g] = row]
    BY DEF LoadAuthUser, rowVars, commandVars, historyVars
<1>2. PICK p \in {"model", "done"} : Goto(g, p) /\ (p = "model" => row # Gone)
    BY DEF LoadAuthUser
<1>3. /\ first' \in [Get -> Row \cup {Gone}] /\ first'[g] = row
      /\ \A x \in Get : x # g => first'[x] = first[x]
    BY <1>1 DEF IInv, Types, TypeOK
<1>4. p \in GetPc
    BY DEF GetPc
<1>5. Profiles'
    BY <1>1, <1>2, <1>3, <1>4, OtherReaders DEF IInv, Profiles, Versions
<1>6. ProfileVersionNotOlder'
    BY <1>1 DEF IInv, Claims, ProfileVersionNotOlder
<1>7. QED
    BY <1>1, <1>2, <1>3, <1>4, <1>5, <1>6, ReaderKeeps DEF IInv, Types, TypeOK

\* The second read is not older than the first.
LEMMA LoadModelKeeps == ASSUME IInv, NEW g \in Get, LoadModel(g) PROVE IInv'
<1>1. /\ UNCHANGED <<row, lock, audit, asked, before, loaded, picked, written, shown, committed,
                     basis, lost, revived, raced, fellBack, faults, cache, first, answer>>
      /\ second' = [second EXCEPT ![g] = row] /\ pc[g] = "model"
    BY DEF LoadModel, rowVars, commandVars, historyVars
<1>2. PICK p \in {"set", "done"} : Goto(g, p) /\ (p = "set" => row # Gone)
    BY DEF LoadModel
<1>3. /\ second' \in [Get -> Row \cup {Gone}] /\ second'[g] = row
      /\ \A x \in Get : x # g => second'[x] = second[x]
    BY <1>1 DEF IInv, Types, TypeOK
<1>4. p \in GetPc
    BY DEF GetPc
<1>5. first[g] \in shown /\ first[g] # Gone
    BY <1>1, RowFacts DEF IInv, Profiles, Types, TypeOK
<1>6. VersionsGrow /\ row # Gone => first[g].version <= row.version
    BY <1>5 DEF IInv, Versions
<1>7. Profiles'
    BY <1>1, <1>2, <1>3, <1>4, <1>5, <1>6, OtherReaders DEF IInv, Profiles
<1>8. ProfileVersionNotOlder'
    BY <1>1 DEF IInv, Claims, ProfileVersionNotOlder
<1>9. QED
    BY <1>1, <1>2, <1>3, <1>4, <1>7, <1>8, ReaderKeeps DEF IInv, Types, TypeOK

\* A profile is put together of the two.
LEMMA SetCacheKeeps == ASSUME IInv, NEW g \in Get, SetCache(g) PROVE IInv'
<1>1. /\ UNCHANGED <<row, lock, audit, asked, before, loaded, picked, written, shown, committed,
                     basis, lost, revived, raced, fellBack, faults, first, second>>
      /\ pc[g] = "set" /\ cache' = ProfileOf(g)
      /\ answer' = [answer EXCEPT ![g] = ProfileOf(g)]
      /\ Goto(g, "done") /\ "done" \in GetPc
    BY DEF SetCache, rowVars, commandVars, historyVars, GetPc
<1>2. first[g] \in Row /\ second[g] \in Row
    BY <1>1 DEF IInv, Profiles, Types, TypeOK
<1>3. ProfileOf(g) \in Profile
    BY <1>2, RowFacts DEF ProfileOf, Profile
<1>4. VersionsGrow => ProfileOf(g).version >= ProfileOf(g).user.version
    <2>1. first[g].version \in Nat /\ second[g].version \in Nat
        BY <1>2, RowFacts
    <2>2. QED
        BY <1>1, <2>1 DEF IInv, Profiles, ProfileOf
<1>5. /\ answer' \in [Get -> Profile \cup {NoProfile}]
      /\ \A x \in Get : answer'[x] = ProfileOf(g) \/ answer'[x] = answer[x]
    BY <1>1, <1>3 DEF IInv, Types, TypeOK
<1>6. Profiles'
    BY <1>1, OtherReaders DEF IInv, Profiles
<1>7. ProfileVersionNotOlder'
    BY <1>1, <1>4, <1>5 DEF IInv, Claims, ProfileVersionNotOlder
<1>8. QED
    BY <1>1, <1>3, <1>5, <1>6, <1>7, ReaderKeeps DEF IInv, Types, TypeOK

\* An entry of the cache expires.
LEMMA CacheExpiresKeeps == ASSUME IInv, CacheExpires PROVE IInv'
<1>1. /\ UNCHANGED <<row, lock, audit, pc, asked, before, loaded, picked, written, shown, committed,
                     basis, lost, revived, raced, fellBack, faults, first, second, answer>>
      /\ cache' = NoProfile
    BY DEF CacheExpires, rowVars, commandVars, historyVars
<1>2. Types' /\ Held' /\ Counted' /\ Versions' /\ Reading' /\ Profiles'
    BY <1>1 DEF IInv, Types, TypeOK, Held, Counted, Versions, Reading, Profiles
<1>3. Claims'
    BY <1>1 DEF IInv, Claims, LostOnlyWhenOverlapping, VersionFallsOnlyByOverlap,
                AuditBeforeIsLoaded, ProfileVersionNotOlder
<1>4. QED
    BY <1>2, <1>3 DEF IInv

(***************************************************************************)
(* The theorems                                                            *)
(***************************************************************************)

\* At first there is the row the user was created with.
LEMMA InitHolds == Init => IInv
<1> SUFFICES ASSUME Init PROVE IInv
    OBVIOUS
<1>1. Cardinality(Update) \in Nat
    BY UpdatesAreFinite, FS_CardinalityType
<1>2. row \in Row /\ row # Gone /\ row.version = 1
    <2>1. [version |-> 1, name |-> Nobody] \in Row
        BY <1>1 DEF Row, Version
    <2>2. QED
        BY <2>1, RowFacts DEF Init
<1>3. PcOK
    BY DEF Init, PcOK, UpdatePc, DeletePc, GetPc, Request, Command
<1>4. faults \in 0..MaxFaults
    BY FaultsAreBounded DEF Init
<1>5. Types
    BY <1>2, <1>3, <1>4 DEF Init, Types, TypeOK, PcOK
<1>6. Held
    BY RequestsAreDistinct DEF Init, Held, Request, Command
<1>7. Counted
    <2>1. Cardinality(committed) = 0
        BY FS_EmptySet DEF Init
    <2>2. QED
        BY <1>2, <2>1 DEF Init, Counted
<1>8. Versions
    BY <1>2 DEF Init, Versions
<1>9. Reading
    BY DEF Init, Reading, Request, Command
<1>10. Profiles
    BY DEF Init, Profiles, Request
<1>11. Claims
    BY DEF Init, Claims, LostOnlyWhenOverlapping, VersionFallsOnlyByOverlap, AuditBeforeIsLoaded,
           ProfileVersionNotOlder
<1>12. QED
    BY <1>5, <1>6, <1>7, <1>8, <1>9, <1>10, <1>11 DEF IInv

\* Every step keeps the invariant.
LEMMA StepKeeps == IInv /\ [Next]_vars => IInv'
<1> SUFFICES ASSUME IInv, [Next]_vars PROVE IInv'
    OBVIOUS
<1>1. ASSUME NEW u \in Update, UpdateStep(u) PROVE IInv'
    BY <1>1, ReceiveKeeps, ReadBeforeKeeps, LoadKeeps, MovesKeep,
       SelectAgainKeeps, SaveKeeps, SaveAuditKeeps, CommitKeeps
    DEF UpdateStep
<1>2. ASSUME NEW d \in Delete, DeleteStep(d) PROVE IInv'
    BY <1>2, MovesKeep, DeleteRowKeeps, CommitDeleteKeeps DEF DeleteStep
<1>3. ASSUME NEW g \in Get, GetStep(g) PROVE IInv'
    BY <1>3, MovesKeep, CacheHitKeeps, LoadAuthUserKeeps, LoadModelKeeps, SetCacheKeeps
    DEF GetStep
<1>4. CASE UNCHANGED vars
    <2>1. UNCHANGED <<row, lock, cache, audit, pc, asked, before, loaded, picked, written, first,
                      second, answer, shown, committed, basis, lost, revived, raced, fellBack, faults>>
        BY <1>4 DEF vars, rowVars, commandVars, profileVars, historyVars
    <2>2. Types' /\ Held' /\ Counted' /\ Versions' /\ Reading' /\ Profiles'
        BY <2>1 DEF IInv, Types, TypeOK, Held, Counted, Versions, Reading, Profiles
    <2>3. Claims'
        BY <2>1 DEF IInv, Claims, LostOnlyWhenOverlapping, VersionFallsOnlyByOverlap,
                    AuditBeforeIsLoaded, ProfileVersionNotOlder
    <2>4. QED
        BY <2>2, <2>3 DEF IInv
<1>5. QED
    BY <1>1, <1>2, <1>3, <1>4, FailKeeps, CacheExpiresKeeps DEF Next

\* The invariant holds in every behaviour.
LEMMA Invariant == Spec => []IInv
BY InitHolds, StepKeeps, PTL DEF Spec

\* Every variable has its type: a version is at most one more than there are
\* updates.
THEOREM UserTypeOK == Spec => []TypeOK
<1>1. IInv => TypeOK
    BY DEF IInv, Types
<1>2. QED
    BY <1>1, Invariant, PTL

\* An update lowers the version, or leaves it, only if another one committed
\* after it had loaded the row.
THEOREM UserVersionFallsOnlyByOverlap == Spec => []VersionFallsOnlyByOverlap
<1>1. IInv => VersionFallsOnlyByOverlap
    BY DEF IInv, Claims
<1>2. QED
    BY <1>1, Invariant, PTL

\* The version check lets no update overwrite one that had committed when it
\* loaded the row.
THEOREM UserLostOnlyWhenOverlapping == Spec => []LostOnlyWhenOverlapping
<1>1. IInv => LostOnlyWhenOverlapping
    BY DEF IInv, Claims
<1>2. QED
    BY <1>1, Invariant, PTL

\* What the audit log has as the state before an update is what the update
\* was checked against.
THEOREM UserAuditBeforeIsLoaded == Spec => []AuditBeforeIsLoaded
<1>1. IInv => AuditBeforeIsLoaded
    BY DEF IInv, Claims
<1>2. QED
    BY <1>1, Invariant, PTL

\* The version of a profile is not older than the rest of it.
THEOREM UserProfileVersionNotOlder == Spec => []ProfileVersionNotOlder
<1>1. IInv => ProfileVersionNotOlder
    BY DEF IInv, Claims
<1>2. QED
    BY <1>1, Invariant, PTL

===============================================================================
