---------------------------- MODULE SessionsProofs ----------------------------
(***************************************************************************)
(* The invariants of Sessions, for any number of logins, refreshes,        *)
(* logouts, resets and faults.                                             *)
(*                                                                         *)
(* That a login has one live token is not inductive: a refresh that        *)
(* commits makes a second one live and has to take the first away.  What   *)
(* is carried from its consume to its commit is that it holds a live token *)
(* of the login it will belong to, or has slipped (Rotating), and that the *)
(* row of a held token stays live until its holder ends (HeldIsLive).      *)
(***************************************************************************)
EXTENDS Sessions, TLAPS

Types == TypeOK /\ pc = [q \in Request |-> pc[q]]

HeldIsLive == \A t \in Token : lock[t] # Nobody => row[t] = "live"

\* A token is not there before its request is done, and ends nothing.
Unborn ==
    /\ \A t \in Token : pc[t] # "done" => row[t] = "none"
    /\ \A r \in Refresh : pc[r] # "done" => \A t \in Token : revokedBy[t] # r

\* Where a token comes from: a login that has been committed.
Origins ==
    /\ \A l \in Login : origin[l] = l
    /\ \A r \in Refresh : origin[r] # Nobody =>
          origin[r] \in Login /\ row[origin[r]] # "none"
    /\ \A r \in Refresh : row[r] # "none" => origin[r] # Nobody
    /\ \A r \in slipped : pc[r] \notin {"new", "consume"}

Presented ==
    /\ \A t \in shown : row[t] # "none"
    /\ \A r \in Refresh : pc[r] \notin {"new", "done"} =>
          asked[r] \in shown /\ origin[r] = origin[asked[r]]
    /\ \A o \in Logout : pc[o] = "revoke" => asked[o] \in shown

\* A refresh between its consume and its commit holds the token it replaces;
\* one that revokes everything has found its own token revoked.
Rotating ==
    \A r \in Refresh :
        /\ pc[r] \in {"load", "save", "commit"} => lock[asked[r]] = r \/ r \in slipped
        /\ pc[r] \in {"findAll", "revokeAll"} => row[asked[r]] = "revoked"
        /\ pc[r] = "end" => gone = User \/ row[asked[r]] = "revoked"

\* What was live when a request looked is revoked, or held by it, when it ends.
Sweeping ==
    \A q \in Refresh \cup Reset :
        /\ q \in swept => pc[q] = "done"
        /\ pc[q] \in {"new", "consume", "load", "save", "commit", "password", "use"} =>
              found[q] = {}
        /\ pc[q] = "revokeAll" => \A t \in found[q] : row[t] # "none"
        /\ pc[q] = "end" => \A t \in found[q] : row[t] = "revoked" \/ lock[t] = q

ResetInv ==
    /\ resets # {} => consumed
    /\ \A k \in Reset : before[k] = {}

Claims ==
    /\ OneLiveUnlessSlipped
    /\ RotationIsAtomic
    /\ LogoutEndsUnlessSlipped
    /\ RevokeAllMissesNone

IInv == Types /\ HeldIsLive /\ Unborn /\ Origins /\ Presented /\ Rotating /\ Sweeping
        /\ ResetInv /\ Claims

USE DEF Slipped

(***************************************************************************)
(* The statements of a request                                             *)
(***************************************************************************)

PcOK ==
    /\ pc = [q \in Request |-> pc[q]]
    /\ \A l \in Login : pc[l] \in {"new", "save", "commit", "done"}
    /\ \A r \in Refresh : pc[r] \in RefreshPc
    /\ \A o \in Logout : pc[o] \in {"new", "revoke", "done"}
    /\ \A k \in Reset : pc[k] \in ResetPc

\* Request q may be at statement p.
MayBeAt(q, p) ==
    /\ q \in Login => p \in {"new", "save", "commit", "done"}
    /\ q \in Refresh => p \in RefreshPc
    /\ q \in Logout => p \in {"new", "revoke", "done"}
    /\ q \in Reset => p \in ResetPc

\* A request goes to a statement of its own, and the others stay.
LEMMA Moves ==
    ASSUME Types, NEW q \in Request, NEW p, Goto(q, p)
    PROVE  /\ pc'[q] = p
           /\ \A x \in Request \ {q} : pc'[x] = pc[x]
           /\ MayBeAt(q, p) => PcOK'
<1>1. pc' = [pc EXCEPT ![q] = p] /\ pc = [x \in Request |-> pc[x]]
    BY DEF Goto, Types
<1>2. pc'[q] = p /\ \A x \in Request \ {q} : pc'[x] = pc[x]
    BY <1>1
<1>3. pc' = [x \in Request |-> pc'[x]]
    BY <1>1
<1>4. ASSUME MayBeAt(q, p) PROVE PcOK'
    <2>1. \A l \in Login : pc'[l] \in {"new", "save", "commit", "done"}
        BY <1>2, <1>4 DEF MayBeAt, Types, TypeOK, Request, Token
    <2>2. \A r \in Refresh : pc'[r] \in RefreshPc
        BY <1>2, <1>4 DEF MayBeAt, Types, TypeOK, Request, Token
    <2>3. \A o \in Logout : pc'[o] \in {"new", "revoke", "done"}
        BY <1>2, <1>4 DEF MayBeAt, Types, TypeOK, Request, Token
    <2>4. \A k \in Reset : pc'[k] \in ResetPc
        BY <1>2, <1>4 DEF MayBeAt, Types, TypeOK, Request, Token
    <2>5. QED
        BY <1>3, <2>1, <2>2, <2>3, <2>4 DEF PcOK
<1>5. QED
    BY <1>2, <1>4

\* A refresh that has slipped is past its consume, and stays past it.
LEMMA SlippedStays ==
    ASSUME IInv, NEW q \in Request, NEW p, p \notin {"new", "consume"}, Goto(q, p),
           slipped' = slipped
    PROVE  \A x \in slipped' : pc'[x] \notin {"new", "consume"}
<1>1. SUFFICES ASSUME NEW x \in slipped PROVE pc'[x] \notin {"new", "consume"}
    OBVIOUS
<1>2. x \in Request /\ pc[x] \notin {"new", "consume"}
    BY DEF IInv, Origins, Types, TypeOK, Request, Token
<1>3. QED
    BY <1>2, Moves DEF IInv

(***************************************************************************)
(* Steps that leave every token as it is                                   *)
(***************************************************************************)

\* A login that checks its password.
LEMMA AuthenticateKeeps ==
    ASSUME IInv, NEW l \in Login, Authenticate(l)
    PROVE  IInv'
<1>1. /\ pc'[l] = "save"
      /\ \A x \in Request \ {l} : pc'[x] = pc[x]
      /\ PcOK'
    BY Moves, RequestsAreDistinct
    DEF IInv, MayBeAt, RefreshPc, ResetPc, Token, Request, Authenticate
<1>2. \A r \in Refresh : r \in Request \ {l}
    BY RequestsAreDistinct DEF Request, Token
<1>3. Types'
    <2>1. owner' \in [Token -> User \cup {Nobody}]
        BY DEF IInv, Types, TypeOK, Authenticate
    <2>2. UNCHANGED <<row, expired, lock, userVars, shown, requestVars, historyVars, faults>>
        BY DEF Authenticate
    <2>3. QED
        BY <1>1, <2>1, <2>2
        DEF IInv, PcOK, TypeOK, Types, userVars, requestVars, historyVars
<1>4. HeldIsLive' /\ Origins' /\ ResetInv'
    BY <1>1, <1>2, RequestsAreDistinct
    DEF IInv, HeldIsLive, Origins, ResetInv, Types, TypeOK, Authenticate,
        tokenVars, userVars, requestVars, historyVars
<1>5. Unborn'
    BY <1>1, <1>2, RequestsAreDistinct
    DEF IInv, Unborn, Token, Request, Authenticate, tokenVars, userVars,
        requestVars, historyVars
<1>6. Presented'
    BY <1>1, <1>2, RequestsAreDistinct
    DEF IInv, Presented, Types, TypeOK, Token, Request, Authenticate,
        tokenVars, userVars, requestVars, historyVars
<1>7. Rotating'
    BY <1>1, <1>2, RequestsAreDistinct
    DEF IInv, Rotating, Presented, Types, TypeOK, Token, Request,
        Authenticate, tokenVars, userVars, requestVars, historyVars
<1>8. Sweeping'
    <2>1. \A q \in Refresh \cup Reset : pc'[q] = pc[q]
        BY <1>1, RequestsAreDistinct DEF Request, Token
    <2>2. UNCHANGED <<row, lock, found, swept>>
        BY DEF Authenticate, requestVars, historyVars
    <2>3. QED
        BY <2>1, <2>2 DEF IInv, Sweeping
<1>9. Claims'
    BY <1>1, <1>2, RequestsAreDistinct
    DEF IInv, Claims, OneLiveUnlessSlipped, RotationIsAtomic, LogoutEndsUnlessSlipped,
        RevokeAllMissesNone, Types, TypeOK, Sweeping, Token, Request,
        Authenticate, tokenVars, userVars, requestVars, historyVars
<1>10. QED
    BY <1>3, <1>4, <1>5, <1>6, <1>7, <1>8, <1>9 DEF IInv

\* The insert of a token.
LEMMA SaveKeeps ==
    ASSUME IInv, NEW t \in Token, Save(t)
    PROVE  IInv'
<1>1. /\ pc'[t] = "commit"
      /\ \A x \in Request \ {t} : pc'[x] = pc[x]
      /\ PcOK'
    BY Moves, RequestsAreDistinct
    DEF IInv, MayBeAt, RefreshPc, ResetPc, Token, Request, Save
<1>2. Types'
    BY <1>1, RequestsAreDistinct
    DEF IInv, PcOK, TypeOK, Types, Save, tokenVars, userVars, requestVars,
        historyVars
<1>3. HeldIsLive' /\ Origins' /\ ResetInv'
    <2>1. \A x \in slipped' : pc'[x] \notin {"new", "consume"}
        BY SlippedStays DEF Save, historyVars, Request, Token
    <2>2. UNCHANGED <<row, lock, consumed, origin, slipped, resets, before>>
        BY DEF Save, tokenVars, userVars, historyVars
    <2>3. QED
        BY <2>1, <2>2 DEF IInv, HeldIsLive, Origins, ResetInv
<1>4. Unborn'
    BY <1>1, RequestsAreDistinct
    DEF IInv, Unborn, Token, Request, Save, tokenVars, userVars, requestVars,
        historyVars
<1>5. Presented'
    BY <1>1, RequestsAreDistinct
    DEF IInv, Presented, Types, TypeOK, Token, Request, Save, tokenVars,
        userVars, requestVars, historyVars
<1>6. Rotating'
    BY <1>1, RequestsAreDistinct
    DEF IInv, Rotating, Presented, Types, TypeOK, Token, Request, Save,
        tokenVars, userVars, requestVars, historyVars
<1>7. Sweeping'
    BY <1>1, RequestsAreDistinct
    DEF IInv, Sweeping, Types, TypeOK, Token, Request, Save, tokenVars,
        userVars, requestVars, historyVars
<1>8. Claims'
    BY <1>1, RequestsAreDistinct
    DEF IInv, Claims, OneLiveUnlessSlipped, RotationIsAtomic, LogoutEndsUnlessSlipped,
        RevokeAllMissesNone, Types, TypeOK, Sweeping, Token, Request, Save,
        tokenVars, userVars, requestVars, historyVars
<1>9. QED
    BY <1>2, <1>3, <1>4, <1>5, <1>6, <1>7, <1>8 DEF IInv

\* A refresh that looks for its user.
LEMMA LoadUserKeeps ==
    ASSUME IInv, NEW r \in Refresh, LoadUser(r) \/ LoadNobody(r)
    PROVE  IInv'
<1>1. /\ pc[r] = "load"
      /\ UNCHANGED <<row, expired, lock, userVars, shown, requestVars, historyVars, faults>>
      /\ owner' \in [Token -> User \cup {Nobody}]
    BY DEF LoadUser, LoadNobody, tokenVars, IInv, Types, TypeOK
<1>2. PICK p \in {"end", "save"} : Goto(r, p) /\ (p = "end" => gone = User)
    BY DEF LoadUser, LoadNobody
<1>3. /\ pc'[r] = p
      /\ \A x \in Request \ {r} : pc'[x] = pc[x]
      /\ PcOK'
    BY <1>2, Moves, RequestsAreDistinct
    DEF IInv, MayBeAt, RefreshPc, ResetPc, Token, Request
<1>4. Types'
    BY <1>1, <1>2, <1>3, RequestsAreDistinct
    DEF IInv, PcOK, TypeOK, Types, tokenVars, userVars, requestVars,
        historyVars
<1>5. HeldIsLive' /\ Origins' /\ ResetInv'
    <2>1. \A x \in slipped' : pc'[x] \notin {"new", "consume"}
        BY <1>1, <1>2, SlippedStays DEF historyVars, Request, Token
    <2>2. UNCHANGED <<row, lock, consumed, origin, slipped, resets, before>>
        BY <1>1 DEF userVars, historyVars
    <2>3. QED
        BY <2>1, <2>2 DEF IInv, HeldIsLive, Origins, ResetInv
<1>6. Unborn'
    BY <1>1, <1>2, <1>3, RequestsAreDistinct
    DEF IInv, Unborn, Token, Request, tokenVars, userVars,
        requestVars, historyVars
<1>7. Presented'
    BY <1>1, <1>2, <1>3, RequestsAreDistinct
    DEF IInv, Presented, Types, TypeOK, Token, Request, tokenVars,
        userVars, requestVars, historyVars
<1>8. Rotating'
    BY <1>1, <1>2, <1>3, RequestsAreDistinct
    DEF IInv, Rotating, Presented, Types, TypeOK, Token, Request, tokenVars, userVars, requestVars, historyVars
<1>9. Sweeping'
    BY <1>1, <1>2, <1>3, RequestsAreDistinct
    DEF IInv, Sweeping, Types, TypeOK, Token, Request, tokenVars,
        userVars, requestVars, historyVars
<1>10. Claims'
    BY <1>1, <1>2, <1>3, RequestsAreDistinct
    DEF IInv, Claims, OneLiveUnlessSlipped, RotationIsAtomic, LogoutEndsUnlessSlipped,
        RevokeAllMissesNone, Types, TypeOK, Sweeping, Token, Request,
        tokenVars, userVars, requestVars, historyVars
<1>11. QED
    BY <1>4, <1>5, <1>6, <1>7, <1>8, <1>9, <1>10 DEF IInv

\* The snapshot of a revocation.
LEMMA FindAllKeeps ==
    ASSUME IInv, NEW q \in Refresh \cup Reset, FindAll(q)
    PROVE  IInv'
<1>1. /\ pc'[q] = "revokeAll"
      /\ \A x \in Request \ {q} : pc'[x] = pc[x]
      /\ PcOK'
    BY Moves, RequestsAreDistinct
    DEF IInv, MayBeAt, RefreshPc, ResetPc, Token, Request, FindAll
<1>2. Types'
    BY <1>1, RequestsAreDistinct
    DEF IInv, PcOK, TypeOK, Types, FindAll, tokenVars, userVars, requestVars,
        historyVars
<1>3. HeldIsLive' /\ Origins' /\ ResetInv'
    <2>1. \A x \in slipped' : pc'[x] \notin {"new", "consume"}
        BY SlippedStays DEF FindAll, historyVars, Request, Token
    <2>2. UNCHANGED <<row, lock, consumed, origin, slipped, resets, before>>
        BY DEF FindAll, tokenVars, userVars, historyVars
    <2>3. QED
        BY <2>1, <2>2 DEF IInv, HeldIsLive, Origins, ResetInv
<1>4. Unborn'
    BY <1>1, RequestsAreDistinct
    DEF IInv, Unborn, Token, Request, FindAll, tokenVars, userVars,
        requestVars, historyVars
<1>5. Presented'
    BY <1>1, RequestsAreDistinct
    DEF IInv, Presented, Types, TypeOK, Token, Request, FindAll, tokenVars,
        userVars, requestVars, historyVars
<1>6. Rotating'
    BY <1>1, RequestsAreDistinct
    DEF IInv, Rotating, Presented, Types, TypeOK, Token, Request, FindAll,
        tokenVars, userVars, requestVars, historyVars
<1>7. Sweeping'
    BY <1>1, RequestsAreDistinct
    DEF IInv, Sweeping, Types, TypeOK, Token, Request, FindAll, tokenVars,
        userVars, requestVars, historyVars
<1>8. Claims'
    <2>1. UNCHANGED <<row, asked, gone, revokedBy, origin, slipped, swept>>
        BY DEF FindAll, tokenVars, userVars, historyVars
    <2>2. q \notin swept
        BY DEF IInv, Sweeping, FindAll
    <2>3. \A x \in swept : found'[x] = found[x]
        BY <2>2 DEF IInv, Types, TypeOK, FindAll
    <2>4. QED
        BY <2>1, <2>3
        DEF IInv, Claims, OneLiveUnlessSlipped, RotationIsAtomic, LogoutEndsUnlessSlipped,
            RevokeAllMissesNone
<1>9. QED
    BY <1>2, <1>3, <1>4, <1>5, <1>6, <1>7, <1>8 DEF IInv

\* A logout that finds its token.
LEMMA FindValidKeeps ==
    ASSUME IInv, NEW o \in Logout, FindValid(o)
    PROVE  IInv'
<1>1. /\ pc'[o] = "revoke"
      /\ \A x \in Request \ {o} : pc'[x] = pc[x]
      /\ PcOK'
    BY Moves, RequestsAreDistinct
    DEF IInv, MayBeAt, RefreshPc, ResetPc, Token, Request, FindValid
<1>2. \A r \in Refresh : r \in Request \ {o}
    BY RequestsAreDistinct DEF Request, Token
<1>3. \A r \in Refresh : asked'[r] = asked[r]
    BY <1>2 DEF IInv, Types, TypeOK, FindValid
<1>4. asked'[o] \in shown
    BY DEF IInv, Types, TypeOK, FindValid
<1>5. \A x \in Logout \ {o} : asked'[x] = asked[x]
    BY DEF IInv, Types, TypeOK, FindValid
<1>6. Types'
    BY <1>1, <1>2, RequestsAreDistinct
    DEF IInv, PcOK, TypeOK, Types, FindValid, tokenVars, userVars,
        requestVars, historyVars
<1>7. HeldIsLive' /\ Origins' /\ ResetInv'
    BY <1>1, <1>2, RequestsAreDistinct
    DEF IInv, HeldIsLive, Origins, ResetInv, Types, TypeOK, FindValid,
        tokenVars, userVars, requestVars, historyVars
<1>8. Unborn'
    BY <1>1, <1>2, RequestsAreDistinct
    DEF IInv, Unborn, Token, Request, FindValid, tokenVars, userVars,
        requestVars, historyVars
<1>9. Presented'
    BY <1>1, <1>2, <1>3, <1>4, <1>5, RequestsAreDistinct
    DEF IInv, Presented, Types, TypeOK, Token, Request, FindValid, tokenVars,
        userVars, requestVars, historyVars
<1>10. Rotating'
    <2>1. UNCHANGED <<row, lock, gone>>
        BY DEF FindValid, tokenVars, userVars
    <2>2. UNCHANGED slipped
        BY DEF FindValid, historyVars
    <2>3. \A r \in Refresh : pc'[r] = pc[r]
        BY <1>1, <1>2
    <2>4. QED
        BY <1>3, <2>1, <2>2, <2>3 DEF IInv, Rotating
<1>11. Sweeping'
    BY <1>1, <1>2, RequestsAreDistinct
    DEF IInv, Sweeping, Types, TypeOK, Token, Request, FindValid, tokenVars,
        userVars, requestVars, historyVars
<1>12. Claims'
    BY <1>1, <1>2, <1>3, <1>4, <1>5, RequestsAreDistinct
    DEF IInv, Claims, OneLiveUnlessSlipped, RotationIsAtomic, LogoutEndsUnlessSlipped,
        RevokeAllMissesNone, Types, TypeOK, Sweeping, Token, Request,
        FindValid, tokenVars, userVars, requestVars, historyVars
<1>13. QED
    BY <1>6, <1>7, <1>8, <1>9, <1>10, <1>11, <1>12 DEF IInv

\* A reset that finds its token.
LEMMA FindResetTokenKeeps ==
    ASSUME IInv, NEW k \in Reset, FindResetToken(k)
    PROVE  IInv'
<1>1. /\ pc'[k] = "password"
      /\ \A x \in Request \ {k} : pc'[x] = pc[x]
      /\ PcOK'
    BY Moves, RequestsAreDistinct
    DEF IInv, MayBeAt, RefreshPc, ResetPc, Token, Request, FindResetToken,
        ResetTokenValid
<1>2. \A r \in Refresh : r \in Request \ {k}
    BY RequestsAreDistinct DEF Request, Token
<1>3. Types'
    BY <1>1, <1>2, RequestsAreDistinct
    DEF IInv, PcOK, TypeOK, Types, FindResetToken, ResetTokenValid, tokenVars,
        userVars, requestVars, historyVars
<1>4. HeldIsLive' /\ Origins' /\ ResetInv'
    BY <1>1, <1>2, RequestsAreDistinct
    DEF IInv, HeldIsLive, Origins, ResetInv, Types, TypeOK, FindResetToken,
        ResetTokenValid, tokenVars, userVars, requestVars, historyVars
<1>5. Unborn'
    BY <1>1, <1>2, RequestsAreDistinct
    DEF IInv, Unborn, Token, Request, FindResetToken, ResetTokenValid,
        tokenVars, userVars, requestVars, historyVars
<1>6. Presented'
    BY <1>1, <1>2, RequestsAreDistinct
    DEF IInv, Presented, Types, TypeOK, Token, Request, FindResetToken,
        ResetTokenValid, tokenVars, userVars, requestVars, historyVars
<1>7. Rotating'
    BY <1>1, <1>2, RequestsAreDistinct
    DEF IInv, Rotating, Presented, Types, TypeOK, Token, Request,
        FindResetToken, ResetTokenValid, tokenVars, userVars, requestVars,
        historyVars
<1>8. Sweeping'
    BY <1>1, <1>2, RequestsAreDistinct
    DEF IInv, Sweeping, Types, TypeOK, Token, Request, FindResetToken,
        ResetTokenValid, tokenVars, userVars, requestVars, historyVars
<1>9. Claims'
    BY <1>1, <1>2, RequestsAreDistinct
    DEF IInv, Claims, OneLiveUnlessSlipped, RotationIsAtomic, LogoutEndsUnlessSlipped,
        RevokeAllMissesNone, Types, TypeOK, Sweeping, Token, Request,
        FindResetToken, ResetTokenValid, tokenVars, userVars, requestVars,
        historyVars
<1>10. QED
    BY <1>3, <1>4, <1>5, <1>6, <1>7, <1>8, <1>9 DEF IInv

\* The new password.
LEMMA UpdatePasswordKeeps ==
    ASSUME IInv, NEW k \in Reset, UpdatePassword(k)
    PROVE  IInv'
<1>1. /\ pc'[k] = "use"
      /\ \A x \in Request \ {k} : pc'[x] = pc[x]
      /\ PcOK'
    BY Moves, RequestsAreDistinct
    DEF IInv, MayBeAt, RefreshPc, ResetPc, Token, Request, UpdatePassword
<1>2. \A r \in Refresh : r \in Request \ {k}
    BY RequestsAreDistinct DEF Request, Token
<1>3. Types'
    BY <1>1, <1>2, RequestsAreDistinct
    DEF IInv, PcOK, TypeOK, Types, UpdatePassword, tokenVars, userVars,
        requestVars, historyVars
<1>4. HeldIsLive' /\ Origins' /\ ResetInv'
    BY <1>1, <1>2, RequestsAreDistinct
    DEF IInv, HeldIsLive, Origins, ResetInv, Types, TypeOK, UpdatePassword,
        tokenVars, userVars, requestVars, historyVars
<1>5. Unborn'
    BY <1>1, <1>2, RequestsAreDistinct
    DEF IInv, Unborn, Token, Request, UpdatePassword, tokenVars, userVars,
        requestVars, historyVars
<1>6. Presented'
    BY <1>1, <1>2, RequestsAreDistinct
    DEF IInv, Presented, Types, TypeOK, Token, Request, UpdatePassword,
        tokenVars, userVars, requestVars, historyVars
<1>7. Rotating'
    BY <1>1, <1>2, RequestsAreDistinct
    DEF IInv, Rotating, Presented, Types, TypeOK, Token, Request,
        UpdatePassword, tokenVars, userVars, requestVars, historyVars
<1>8. Sweeping'
    BY <1>1, <1>2, RequestsAreDistinct
    DEF IInv, Sweeping, Types, TypeOK, Token, Request, UpdatePassword,
        tokenVars, userVars, requestVars, historyVars
<1>9. Claims'
    BY <1>1, <1>2, RequestsAreDistinct
    DEF IInv, Claims, OneLiveUnlessSlipped, RotationIsAtomic, LogoutEndsUnlessSlipped,
        RevokeAllMissesNone, Types, TypeOK, Sweeping, Token, Request,
        UpdatePassword, tokenVars, userVars, requestVars, historyVars
<1>10. QED
    BY <1>3, <1>4, <1>5, <1>6, <1>7, <1>8, <1>9 DEF IInv

\* The use of a reset token.
LEMMA UseKeeps ==
    ASSUME IInv, NEW k \in Reset, Use(k)
    PROVE  IInv'
<1>1. /\ pc'[k] = "findAll"
      /\ \A x \in Request \ {k} : pc'[x] = pc[x]
      /\ PcOK'
    BY Moves, RequestsAreDistinct
    DEF IInv, MayBeAt, RefreshPc, ResetPc, Token, Request, Use
<1>2. \A r \in Refresh : r \in Request \ {k}
    BY RequestsAreDistinct DEF Request, Token
<1>3. Types'
    BY <1>1, <1>2, RequestsAreDistinct
    DEF IInv, PcOK, TypeOK, Types, Use, tokenVars, userVars, requestVars,
        historyVars
<1>4. HeldIsLive' /\ Origins' /\ ResetInv'
    BY <1>1, <1>2, RequestsAreDistinct
    DEF IInv, HeldIsLive, Origins, ResetInv, Types, TypeOK, Use, tokenVars,
        userVars, requestVars, historyVars
<1>5. Unborn'
    BY <1>1, <1>2, RequestsAreDistinct
    DEF IInv, Unborn, Token, Request, Use, tokenVars, userVars, requestVars,
        historyVars
<1>6. Presented'
    BY <1>1, <1>2, RequestsAreDistinct
    DEF IInv, Presented, Types, TypeOK, Token, Request, Use, tokenVars,
        userVars, requestVars, historyVars
<1>7. Rotating'
    BY <1>1, <1>2, RequestsAreDistinct
    DEF IInv, Rotating, Presented, Types, TypeOK, Token, Request, Use,
        tokenVars, userVars, requestVars, historyVars
<1>8. Sweeping'
    BY <1>1, <1>2, RequestsAreDistinct
    DEF IInv, Sweeping, Types, TypeOK, Token, Request, Use, tokenVars,
        userVars, requestVars, historyVars
<1>9. Claims'
    BY <1>1, <1>2, RequestsAreDistinct
    DEF IInv, Claims, OneLiveUnlessSlipped, RotationIsAtomic, LogoutEndsUnlessSlipped,
        RevokeAllMissesNone, Types, TypeOK, Sweeping, Token, Request, Use,
        tokenVars, userVars, requestVars, historyVars
<1>10. QED
    BY <1>3, <1>4, <1>5, <1>6, <1>7, <1>8, <1>9 DEF IInv

\* Time passes for a token, or a user is deleted.
LEMMA WorldKeeps ==
    ASSUME IInv, (\E t \in Token : Expire(t)) \/ (\E u \in User : DeleteUser(u))
    PROVE  IInv'
<1>1. /\ UNCHANGED <<row, owner, lock, pc, shown, requestVars, historyVars, consumed, userLock,
                     faults>>
      /\ expired' \in SUBSET Token /\ gone' \in SUBSET User /\ (gone = User => gone' = User)
    BY DEF Expire, DeleteUser, tokenVars, userVars, IInv, Types, TypeOK
<1>2. Types'
    BY <1>1 DEF IInv, Types, TypeOK, requestVars, historyVars
<1>3. HeldIsLive' /\ Unborn' /\ Origins' /\ Presented' /\ ResetInv'
    BY <1>1
    DEF IInv, HeldIsLive, Unborn, Origins, Presented, ResetInv, requestVars, historyVars
<1>4. Rotating' /\ Sweeping'
    BY <1>1 DEF IInv, Rotating, Sweeping, requestVars, historyVars
<1>5. Claims'
    BY <1>1 DEF IInv, Claims, OneLiveUnlessSlipped, RotationIsAtomic, LogoutEndsUnlessSlipped,
                RevokeAllMissesNone, requestVars, historyVars
<1>6. QED
    BY <1>2, <1>3, <1>4, <1>5 DEF IInv

(***************************************************************************)
(* Steps on tokens                                                         *)
(***************************************************************************)

\* What was committed has come from a login that was.
LEMMA CommittedOrigin ==
    ASSUME IInv, NEW t \in Token, row[t] # "none"
    PROVE  origin[t] \in Login /\ row[origin[t]] # "none"
BY RequestsAreDistinct DEF IInv, Origins, Token, Request

\* A refresh that finds the token it is given.
LEMMA FindKeeps ==
    ASSUME IInv, NEW r \in Refresh, Find(r)
    PROVE  IInv'
<1>1. PICK t \in shown :
        /\ row[t] = "revoked" \/ Valid(t)
        /\ asked' = [asked EXCEPT ![r] = t]
        /\ origin' = [origin EXCEPT ![r] = origin[t]]
        /\ Goto(r, IF row[t] = "revoked" THEN "findAll" ELSE "consume")
    BY DEF Find
<1>2. /\ UNCHANGED <<row, owner, expired, lock, userVars, shown, found, revokedBy, slipped,
                     swept, resets, before, faults>>
      /\ pc[r] = "new"
    BY DEF Find, tokenVars
<1>3. /\ pc'[r] = (IF row[t] = "revoked" THEN "findAll" ELSE "consume")
      /\ \A x \in Request \ {r} : pc'[x] = pc[x]
      /\ PcOK'
    BY <1>1, Moves, RequestsAreDistinct
    DEF IInv, MayBeAt, RefreshPc, ResetPc, Token, Request
<1>4. t \in Token /\ row[t] # "none" /\ row[r] = "none" /\ t # r
    BY <1>2 DEF IInv, Types, TypeOK, Presented, Unborn, Token
<1>5. origin[t] \in Login /\ row[origin[t]] # "none"
    BY <1>4, CommittedOrigin
<1>6. /\ asked'[r] = t /\ \A x \in (Refresh \cup Logout) \ {r} : asked'[x] = asked[x]
      /\ asked' \in [Refresh \cup Logout -> Token \cup {Nobody}]
    BY <1>1, <1>4 DEF IInv, Types, TypeOK
<1>7. /\ origin'[r] = origin[t] /\ \A x \in Token \ {r} : origin'[x] = origin[x]
      /\ origin' \in [Token -> Login \cup {Nobody}]
    BY <1>1, <1>5 DEF IInv, Types, TypeOK, Token
<1>17. r \notin slipped /\ \A x \in slipped : x \in Token /\ origin'[x] = origin[x]
    BY <1>2, <1>7 DEF IInv, Origins, Types, TypeOK, Token
<1>8. Types'
    BY <1>2, <1>3, <1>6, <1>7 DEF IInv, PcOK, Types, TypeOK, userVars
<1>9. HeldIsLive' /\ ResetInv'
    BY <1>2 DEF IInv, HeldIsLive, ResetInv, userVars
<1>10. Unborn'
    BY <1>2, <1>3 DEF IInv, Unborn, Token, Request
<1>11. Origins'
    <2>1. \A x \in slipped : pc'[x] \notin {"new", "consume"}
        BY <1>3, <1>17 DEF IInv, Origins, Token, Request
    <2>2. QED
        BY <1>2, <1>5, <1>7, <2>1, RequestsAreDistinct DEF IInv, Origins, Token, Request
<1>12. Presented'
    <2>1. \A x \in Refresh \ {r} : pc'[x] \notin {"new", "done"} =>
             asked'[x] \in shown' /\ origin'[x] = origin'[asked'[x]]
        <3> SUFFICES ASSUME NEW x \in Refresh \ {r}, pc'[x] \notin {"new", "done"}
                     PROVE  asked'[x] \in shown' /\ origin'[x] = origin'[asked'[x]]
            OBVIOUS
        <3>1. asked[x] \in shown /\ origin[x] = origin[asked[x]]
            BY <1>3 DEF IInv, Presented, Token, Request
        <3>2. asked[x] \in Token /\ asked[x] # r
            BY <3>1, <1>4 DEF IInv, Presented, Types, TypeOK
        <3>3. QED
            BY <1>2, <1>6, <1>7, <3>1, <3>2 DEF Token
    <2>2. asked'[r] \in shown' /\ origin'[r] = origin'[asked'[r]]
        BY <1>2, <1>4, <1>6, <1>7
    <2>3. \A o \in Logout : pc'[o] = "revoke" => asked'[o] \in shown'
        BY <1>2, <1>3, <1>6, RequestsAreDistinct DEF IInv, Presented, Token, Request
    <2>4. QED
        BY <1>2, <2>1, <2>2, <2>3 DEF IInv, Presented
<1>13. Rotating'
    BY <1>2, <1>3, <1>6 DEF IInv, Rotating, Token, Request, userVars
<1>14. Sweeping'
    BY <1>2, <1>3 DEF IInv, Sweeping, Token, Request
<1>15. Claims'
    <2>1. OneLiveUnlessSlipped'
        BY <1>2, <1>4, <1>7, <1>17 DEF IInv, Claims, OneLiveUnlessSlipped
    <2>2. RotationIsAtomic'
        BY <1>2, <1>4, <1>6 DEF IInv, Claims, RotationIsAtomic, Unborn, userVars, Token
    <2>3. LogoutEndsUnlessSlipped'
        <3> SUFFICES ASSUME NEW x \in Token, NEW u \in Token,
                            revokedBy'[x] \in Logout, origin'[u] = origin'[x]
                     PROVE  row'[u] # "live" \/ \E y \in slipped : origin'[y] = origin'[x]
            BY <1>2 DEF LogoutEndsUnlessSlipped
        <3>1. revokedBy[x] \in Logout /\ revokedBy[x] # Nobody
            BY <1>2, RequestsAreDistinct DEF Request
        <3>2. row[x] = "revoked"
            BY <3>1 DEF IInv, Types, TypeOK
        <3>3. x # r
            BY <3>2, <1>4
        <3>4. QED
            BY <1>2, <1>4, <1>7, <1>17, <3>1, <3>3 DEF IInv, Claims, LogoutEndsUnlessSlipped
    <2>4. RevokeAllMissesNone'
        BY <1>2 DEF IInv, Claims, RevokeAllMissesNone
    <2>5. QED
        BY <2>1, <2>2, <2>3, <2>4 DEF Claims
<1>16. QED
    BY <1>8, <1>9, <1>10, <1>11, <1>12, <1>13, <1>14, <1>15 DEF IInv

\* A refresh that consumes its token, or slips.
LEMMA ConsumeKeeps ==
    ASSUME IInv, NEW r \in Refresh, Consume(r)
    PROVE  IInv'
<1>1. /\ pc[r] = "consume" /\ lock[asked[r]] = Nobody
      /\ UNCHANGED <<row, owner, revokedBy, expired, userVars, shown, requestVars, origin,
                     swept, resets, before, faults>>
      /\ Goto(r, "load")
    BY DEF Consume, Consumes
<1>2. asked[r] \in Token /\ asked[r] \in shown
    BY <1>1 DEF IInv, Types, TypeOK, Presented
<1>3. \/ /\ row[asked[r]] = "live" /\ lock' = [lock EXCEPT ![asked[r]] = r]
         /\ slipped' = slipped
      \/ lock' = lock /\ slipped' = slipped \cup {r}
    BY DEF Consume, Consumes, Valid
<1>4. slipped' \in SUBSET Refresh /\ \A x \in slipped' : x = r \/ x \in slipped
    BY <1>3 DEF IInv, Types, TypeOK
<1>5. pc'[r] = "load" /\ (\A x \in Request \ {r} : pc'[x] = pc[x]) /\ PcOK'
    BY <1>1, Moves, RequestsAreDistinct
    DEF IInv, MayBeAt, RefreshPc, ResetPc, Token, Request
<1>6. /\ lock' \in [Token -> Request \cup {Nobody}]
      /\ \A t \in Token : lock[t] # Nobody => lock'[t] = lock[t]
      /\ \A t \in Token : lock'[t] # Nobody => lock[t] # Nobody \/ row[t] = "live"
      /\ lock'[asked[r]] = r \/ r \in slipped'
      /\ slipped \subseteq slipped'
    BY <1>1, <1>2, <1>3 DEF IInv, Types, TypeOK, Token, Request
<1>7. Types'
    BY <1>1, <1>4, <1>5, <1>6 DEF IInv, PcOK, Types, TypeOK, userVars, requestVars
<1>8. HeldIsLive' /\ Origins' /\ ResetInv'
    <2>1. \A x \in slipped' : pc'[x] \notin {"new", "consume"}
        BY <1>4, <1>5 DEF IInv, Origins, Types, TypeOK, Token, Request
    <2>2. QED
        BY <1>1, <1>6, <2>1 DEF IInv, HeldIsLive, Origins, ResetInv, userVars
<1>9. Unborn'
    BY <1>1, <1>5 DEF IInv, Unborn, Token, Request
<1>10. Presented'
    BY <1>1, <1>5, RequestsAreDistinct DEF IInv, Presented, requestVars, Token, Request
<1>11. Rotating'
    <2>1. \A x \in Refresh \ {r} : pc'[x] \in {"load", "save", "commit"} =>
             lock'[asked'[x]] = x \/ x \in slipped'
        <3> SUFFICES ASSUME NEW x \in Refresh \ {r}, pc'[x] \in {"load", "save", "commit"}
                     PROVE  lock'[asked'[x]] = x \/ x \in slipped'
            OBVIOUS
        <3>1. pc[x] \in {"load", "save", "commit"}
            BY <1>5 DEF Token, Request
        <3>2. (lock[asked[x]] = x \/ x \in slipped) /\ asked[x] \in Token
            BY <3>1 DEF IInv, Rotating, Presented, Types, TypeOK
        <3>3. x # Nobody
            BY RequestsAreDistinct DEF Token, Request
        <3>4. QED
            BY <1>1, <1>6, <3>2, <3>3 DEF requestVars
    <2>2. QED
        BY <1>1, <1>5, <1>6, <2>1 DEF IInv, Rotating, requestVars, userVars, Token, Request
<1>12. Sweeping'
    <2>1. \A q \in Refresh \cup Reset : pc[q] = "end" =>
             \A t \in found[q] : row'[t] = "revoked" \/ lock'[t] = q
        <3> SUFFICES ASSUME NEW q \in Refresh \cup Reset, pc[q] = "end",
                            NEW t \in found[q]
                     PROVE  row'[t] = "revoked" \/ lock'[t] = q
            OBVIOUS
        <3>1. t \in Token /\ q # Nobody
            BY RequestsAreDistinct DEF IInv, Types, TypeOK, Token, Request
        <3>2. row[t] = "revoked" \/ lock[t] = q
            BY DEF IInv, Sweeping
        <3>3. QED
            BY <1>1, <1>6, <3>1, <3>2
    <2>2. QED
        BY <1>1, <1>5, <2>1 DEF IInv, Sweeping, requestVars, Token, Request
<1>13. Claims'
    BY <1>1, <1>6 DEF IInv, Claims, OneLiveUnlessSlipped, RotationIsAtomic, LogoutEndsUnlessSlipped,
                RevokeAllMissesNone, requestVars, userVars
<1>14. QED
    BY <1>7, <1>8, <1>9, <1>10, <1>11, <1>12, <1>13 DEF IInv

\* The update that revokes what is still live.
LEMMA RevokeAllKeeps ==
    ASSUME IInv, NEW q \in Refresh \cup Reset, RevokeAll(q)
    PROVE  IInv'
<1>1. /\ pc[q] = "revokeAll" /\ \A t \in StillLive(q) : lock[t] = Nobody
      /\ lock' = [t \in Token |-> IF t \in StillLive(q) THEN q ELSE lock[t]]
      /\ Goto(q, "end")
      /\ UNCHANGED <<row, owner, expired, userVars, shown, requestVars, historyVars, faults>>
    BY DEF RevokeAll
<1>2. q \in Request /\ q # Nobody
    BY RequestsAreDistinct DEF Request, Token
<1>3. pc'[q] = "end" /\ (\A x \in Request \ {q} : pc'[x] = pc[x]) /\ PcOK'
    BY <1>1, <1>2, Moves, RequestsAreDistinct
    DEF IInv, MayBeAt, RefreshPc, ResetPc, Token, Request
<1>4. /\ lock' \in [Token -> Request \cup {Nobody}]
      /\ \A t \in Token : lock[t] # Nobody => lock'[t] = lock[t]
      /\ \A t \in Token : lock'[t] # Nobody => lock[t] # Nobody \/ row[t] = "live"
      /\ \A t \in found[q] : row[t] = "live" => lock'[t] = q
    BY <1>1, <1>2 DEF IInv, Types, TypeOK, StillLive
<1>5. Types'
    BY <1>1, <1>3, <1>4 DEF IInv, PcOK, Types, TypeOK, userVars, requestVars, historyVars
<1>6. HeldIsLive' /\ Origins' /\ ResetInv'
    <2>1. \A x \in slipped : pc'[x] \notin {"new", "consume"}
        BY <1>3 DEF IInv, Origins, Types, TypeOK, Token, Request
    <2>2. QED
        BY <1>1, <1>4, <2>1 DEF IInv, HeldIsLive, Origins, ResetInv, userVars, historyVars
<1>7. Unborn'
    BY <1>1, <1>3 DEF IInv, Unborn, Token, Request, historyVars
<1>8. Presented'
    BY <1>1, <1>3, RequestsAreDistinct
    DEF IInv, Presented, requestVars, historyVars, Token, Request
<1>9. Rotating'
    <2>1. \A x \in Refresh : pc'[x] \in {"load", "save", "commit"} =>
             lock'[asked'[x]] = x \/ x \in slipped
        <3> SUFFICES ASSUME NEW x \in Refresh, pc'[x] \in {"load", "save", "commit"}
                     PROVE  lock'[asked'[x]] = x \/ x \in slipped
            OBVIOUS
        <3>1. pc[x] \in {"load", "save", "commit"}
            BY <1>3 DEF Token, Request
        <3>2. (lock[asked[x]] = x \/ x \in slipped) /\ asked[x] \in Token
            BY <3>1 DEF IInv, Rotating, Presented, Types, TypeOK
        <3>3. x # Nobody
            BY RequestsAreDistinct DEF Token, Request
        <3>4. QED
            BY <1>1, <1>4, <3>2, <3>3 DEF requestVars
    <2>2. q \in Refresh => row[asked[q]] = "revoked"
        BY <1>1 DEF IInv, Rotating
    <2>3. QED
        BY <1>1, <1>3, <2>1, <2>2 DEF IInv, Rotating, requestVars, userVars, historyVars, Token, Request
<1>10. Sweeping'
    <2>1. \A x \in Refresh \cup Reset : pc'[x] = "end" =>
             \A t \in found'[x] : row'[t] = "revoked" \/ lock'[t] = x
        <3> SUFFICES ASSUME NEW x \in Refresh \cup Reset, pc'[x] = "end",
                            NEW t \in found[x]
                     PROVE  row[t] = "revoked" \/ lock'[t] = x
            BY <1>1 DEF requestVars
        <3>1. t \in Token /\ x \in Request /\ x # Nobody
            BY RequestsAreDistinct DEF IInv, Types, TypeOK, Token, Request
        <3>2. CASE x = q
            <4>1. row[t] # "none"
                BY <1>1, <3>2 DEF IInv, Sweeping
            <4>2. QED
                BY <4>1, <1>4, <3>1, <3>2 DEF IInv, Types, TypeOK
        <3>3. CASE x # q
            <4>1. pc[x] = "end"
                BY <1>3, <3>1, <3>3
            <4>2. row[t] = "revoked" \/ lock[t] = x
                BY <4>1 DEF IInv, Sweeping
            <4>3. QED
                BY <4>2, <1>4, <3>1
        <3>4. QED
            BY <3>2, <3>3
    <2>2. QED
        BY <1>1, <1>3, <2>1 DEF IInv, Sweeping, requestVars, historyVars, Token, Request
<1>11. Claims'
    BY <1>1 DEF IInv, Claims, OneLiveUnlessSlipped, RotationIsAtomic, LogoutEndsUnlessSlipped,
                RevokeAllMissesNone, requestVars, userVars, historyVars
<1>12. QED
    BY <1>5, <1>6, <1>7, <1>8, <1>9, <1>10, <1>11 DEF IInv

\* A logout that revokes the token it has found.
LEMMA RevokeKeeps ==
    ASSUME IInv, NEW o \in Logout, Revoke(o)
    PROVE  IInv'
<1> DEFINE a == asked[o]
<1>1. /\ pc[o] = "revoke" /\ lock[a] = Nobody /\ Goto(o, "done")
      /\ row' = [row EXCEPT ![a] = "revoked"]
      /\ revokedBy' = [revokedBy EXCEPT ![a] = IF @ = Nobody THEN o ELSE @]
      /\ UNCHANGED <<owner, expired, lock, userVars, shown, requestVars, origin, slipped, swept,
                     resets, before, faults>>
    BY DEF Revoke
<1>2. /\ o \in Request /\ o # Nobody /\ o \notin Refresh /\ o \notin Token
      /\ a \in Token /\ a \in shown /\ row[a] # "none"
    BY <1>1, RequestsAreDistinct DEF IInv, Types, TypeOK, Presented, Request, Token
<1>3. pc'[o] = "done" /\ (\A x \in Request \ {o} : pc'[x] = pc[x]) /\ PcOK'
    BY <1>1, <1>2, Moves, RequestsAreDistinct
    DEF IInv, MayBeAt, RefreshPc, ResetPc, Token, Request
<1>4. /\ row' \in [Token -> {"none", "live", "revoked"}] /\ row'[a] = "revoked"
      /\ \A t \in Token \ {a} : row'[t] = row[t]
    BY <1>1, <1>2 DEF IInv, Types, TypeOK
<1>5. /\ revokedBy' \in [Token -> Request \cup {Nobody}] /\ revokedBy'[a] # Nobody
      /\ \A t \in Token \ {a} : revokedBy'[t] = revokedBy[t]
      /\ revokedBy'[a] = revokedBy[a] \/ (revokedBy[a] = Nobody /\ revokedBy'[a] = o)
    BY <1>1, <1>2 DEF IInv, Types, TypeOK
<1>6. Types'
    BY <1>1, <1>3, <1>4, <1>5 DEF IInv, PcOK, Types, TypeOK, userVars, requestVars
<1>7. HeldIsLive' /\ Origins' /\ ResetInv'
    <2>1. \A t \in Token : row[t] # "none" <=> row'[t] # "none"
        BY <1>2, <1>4
    <2>2. HeldIsLive'
        BY <1>1, <1>4 DEF IInv, HeldIsLive
    <2>3. Origins'
        <3>1. \A x \in slipped : pc'[x] = pc[x]
            BY <1>2, <1>3 DEF IInv, Types, TypeOK, Request, Token
        <3>2. QED
            BY <1>1, <2>1, <3>1 DEF IInv, Origins, Token
    <2>4. QED
        BY <1>1, <2>2, <2>3 DEF IInv, ResetInv, userVars
<1>8. Unborn'
    <2>1. \A t \in Token : pc'[t] = pc[t]
        BY <1>2, <1>3 DEF Request
    <2>2. pc[a] = "done"
        BY <1>2 DEF IInv, Unborn
    <2>3. \A t \in Token : pc'[t] # "done" => row'[t] = "none"
        BY <2>1, <2>2, <1>4 DEF IInv, Unborn
    <2>4. \A r \in Refresh, t \in Token : pc'[r] # "done" => revokedBy'[t] # r
        BY <2>1, <1>2, <1>5 DEF IInv, Unborn, Token
    <2>5. QED
        BY <2>3, <2>4 DEF Unborn
<1>9. Presented'
    BY <1>1, <1>2, <1>3, <1>4, RequestsAreDistinct
    DEF IInv, Presented, Types, TypeOK, requestVars, Token, Request
<1>10. Rotating'
    <2>1. \A r \in Refresh : pc'[r] = pc[r]
        BY <1>2, <1>3 DEF Request, Token
    <2>2. \A r \in Refresh : pc[r] \in {"findAll", "revokeAll", "end"} => asked[r] \in Token
        BY DEF IInv, Presented, Types, TypeOK
    <2>3. QED
        BY <1>1, <1>4, <2>1, <2>2 DEF IInv, Rotating, requestVars, userVars
<1>11. Sweeping'
    <2>1. \A q \in Refresh \cup Reset : pc'[q] = pc[q]
        BY <1>2, <1>3, RequestsAreDistinct DEF Request, Token
    <2>2. \A q \in Refresh \cup Reset : \A t \in found[q] : t \in Token
        BY DEF IInv, Types, TypeOK
    <2>3. QED
        BY <1>1, <1>4, <2>1, <2>2 DEF IInv, Sweeping, requestVars
<1>12. Claims'
    <2>1. OneLiveUnlessSlipped'
        BY <1>1, <1>4 DEF IInv, Claims, OneLiveUnlessSlipped
    <2>2. RotationIsAtomic'
        BY <1>1, <1>2, <1>4, <1>5
        DEF IInv, Claims, RotationIsAtomic, Types, TypeOK, requestVars, userVars, Token
    <2>3. LogoutEndsUnlessSlipped'
        <3> SUFFICES ASSUME NEW t \in Token, NEW u \in Token, revokedBy'[t] \in Logout,
                            origin[u] = origin[t], row'[u] = "live"
                     PROVE  Slipped(origin[t])
            BY <1>1 DEF LogoutEndsUnlessSlipped
        <3>1. row[u] = "live" /\ u # a
            BY <1>4
        <3>2. CASE revokedBy[t] = revokedBy'[t]
            BY <3>1, <3>2 DEF IInv, Claims, LogoutEndsUnlessSlipped
        <3>3. CASE revokedBy[t] # revokedBy'[t]
            <4>1. t = a /\ revokedBy[a] = Nobody
                BY <3>3, <1>5
            <4>2. row[a] = "live"
                BY <4>1, <1>2 DEF IInv, Types, TypeOK
            <4>3. QED
                BY <3>1, <4>1, <4>2 DEF IInv, Claims, OneLiveUnlessSlipped
        <3>4. QED
            BY <3>2, <3>3
    <2>4. RevokeAllMissesNone'
        <3>1. \A q \in swept : \A t \in found[q] : t \in Token
            BY DEF IInv, Types, TypeOK
        <3>2. QED
            BY <1>1, <1>4, <3>1 DEF IInv, Claims, RevokeAllMissesNone, requestVars
    <2>5. QED
        BY <2>1, <2>2, <2>3, <2>4 DEF Claims
<1>13. QED
    BY <1>6, <1>7, <1>8, <1>9, <1>10, <1>11, <1>12 DEF IInv

(***************************************************************************)
(* The end of a transaction                                                *)
(***************************************************************************)

\* Locks that are released are those of the request that ends.
LEMMA Released ==
    ASSUME IInv, NEW q \in Request, ReleaseLocks(q)
    PROVE  /\ lock' \in [Token -> Request \cup {Nobody}]
           /\ \A t \in Token : lock'[t] = IF lock[t] = q THEN Nobody ELSE lock[t]
           /\ userLock' \in Reset \cup {Nobody}
BY DEF ReleaseLocks, Held, IInv, Types, TypeOK

\* A commit, whether the client hears of it or not.
LEMMA CommittedKeeps ==
    ASSUME IInv, NEW q \in Request, Committed(q),
           shown' = shown \/ (pc[q] = "commit" /\ shown' = shown \cup {q}),
           faults' \in 0..MaxFaults
    PROVE  IInv'
<1> DEFINE saves == pc[q] = "commit"
<1>1. /\ pc[q] \in {"commit", "end"} /\ Goto(q, "done") /\ ReleaseLocks(q)
      /\ row' = [t \in Token |-> RowAfter(q, t)]
      /\ revokedBy' = [t \in Token |-> IF t \in Held(q) /\ revokedBy[t] = Nobody THEN q
                                       ELSE revokedBy[t]]
      /\ swept' = (IF pc[q] = "end" THEN swept \cup {q} ELSE swept)
      /\ resets' = resets \cup (Reset \cap {q})
      /\ consumed' = (consumed \/ q \in Reset)
      /\ UNCHANGED <<owner, expired, gone, asked, found, origin, slipped, before>>
    BY DEF Committed, requestVars
<1>2. /\ q \notin Logout /\ q # Nobody
      /\ saves => q \in Token
      /\ pc[q] = "end" => q \in Refresh \cup Reset
    BY <1>1, RequestsAreDistinct DEF IInv, Types, TypeOK, Request, Token, ResetPc
<1>3. pc'[q] = "done" /\ (\A x \in Request \ {q} : pc'[x] = pc[x]) /\ PcOK'
    BY <1>1, <1>2, Moves DEF IInv, MayBeAt, RefreshPc, ResetPc
<1>4. /\ lock' \in [Token -> Request \cup {Nobody}]
      /\ \A t \in Token : lock'[t] = IF lock[t] = q THEN Nobody ELSE lock[t]
      /\ userLock' \in Reset \cup {Nobody}
    BY <1>1, Released
<1>5. saves => row[q] = "none" /\ lock[q] = Nobody
    BY <1>2 DEF IInv, Unborn, HeldIsLive
<1>6. \A t \in Token : lock[t] = q => row[t] = "live" /\ revokedBy[t] = Nobody
    BY <1>2 DEF IInv, HeldIsLive, Types, TypeOK
<1>7. /\ row' \in [Token -> {"none", "live", "revoked"}]
      /\ \A t \in Token : lock[t] = q => row'[t] = "revoked"
      /\ \A t \in Token : lock[t] # q => row'[t] = row[t] \/ (t = q /\ saves)
      /\ saves => row'[q] = "live"
    BY <1>1, <1>2, <1>5 DEF RowAfter, Held, IInv, Types, TypeOK
<1>8. /\ revokedBy' \in [Token -> Request \cup {Nobody}]
      /\ \A t \in Token : revokedBy'[t] = IF lock[t] = q THEN q ELSE revokedBy[t]
    BY <1>1, <1>6 DEF Held, IInv, Types, TypeOK
<1>9. \A t \in Token : /\ row[t] # "none" => row'[t] # "none"
                       /\ row[t] = "revoked" => row'[t] = "revoked"
                       /\ t # q => (row[t] = "none" <=> row'[t] = "none")
    BY <1>5, <1>6, <1>7
<1>10. Types'
    <2>1. \A t \in Token : (row'[t] = "revoked") = (revokedBy'[t] # Nobody)
        <3> SUFFICES ASSUME NEW t \in Token
                     PROVE  (row'[t] = "revoked") <=> (revokedBy'[t] # Nobody)
            OBVIOUS
        <3>1. (row[t] = "revoked") <=> (revokedBy[t] # Nobody)
            BY DEF IInv, Types, TypeOK
        <3>2. CASE lock[t] = q
            BY <3>2, <1>2, <1>7, <1>8
        <3>3. CASE lock[t] # q /\ ~(t = q /\ saves)
            BY <3>1, <3>3, <1>7, <1>8
        <3>4. CASE lock[t] # q /\ t = q /\ saves
            BY <3>1, <3>4, <1>5, <1>7, <1>8
        <3>5. QED
            BY <3>2, <3>3, <3>4
    <2>2. /\ shown' \in SUBSET Token
          /\ swept' \in SUBSET (Refresh \cup Reset)
          /\ resets' \in SUBSET Reset /\ consumed' \in BOOLEAN
        BY <1>1, <1>2 DEF IInv, Types, TypeOK
    <2>3. QED
        BY <1>1, <1>3, <1>4, <1>7, <1>8, <2>1, <2>2 DEF IInv, PcOK, Types, TypeOK
<1>11. HeldIsLive'
    <2> SUFFICES ASSUME NEW t \in Token, lock'[t] # Nobody PROVE row'[t] = "live"
        BY DEF HeldIsLive
    <2>1. lock[t] # q /\ row[t] = "live"
        BY <1>4 DEF IInv, HeldIsLive
    <2>2. QED
        BY <2>1, <1>7
<1>12. Unborn'
    <2>1. \A t \in Token : pc'[t] # "done" => t # q /\ pc'[t] = pc[t]
        BY <1>3 DEF Request
    <2>2. \A r \in Refresh, t \in Token : pc'[r] # "done" => revokedBy'[t] # r
        BY <2>1, <1>8 DEF IInv, Unborn, Token
    <2>3. QED
        BY <2>1, <2>2, <1>9 DEF IInv, Unborn
<1>13. Origins'
    <2>1. \A r \in Refresh : row'[r] # "none" => origin[r] # Nobody
        <3> SUFFICES ASSUME NEW r \in Refresh, row'[r] # "none" PROVE origin[r] # Nobody
            OBVIOUS
        <3>1. CASE row[r] # "none"
            BY <3>1 DEF IInv, Origins
        <3>2. CASE row[r] = "none"
            <4>1. r = q /\ saves
                BY <3>2, <1>6, <1>7 DEF Token
            <4>2. asked[r] \in shown /\ origin[r] = origin[asked[r]]
                BY <4>1 DEF IInv, Presented
            <4>3. origin[asked[r]] \in Login
                BY <4>2, CommittedOrigin DEF IInv, Presented, Types, TypeOK
            <4>4. QED
                BY <4>2, <4>3, RequestsAreDistinct DEF Request, Token
        <3>3. QED
            BY <3>1, <3>2
    <2>2. \A x \in slipped : pc'[x] \notin {"new", "consume"}
        BY <1>3 DEF IInv, Origins, Types, TypeOK, Request, Token
    <2>3. QED
        BY <1>1, <1>9, <2>1, <2>2 DEF IInv, Origins, Token
<1>14. Presented'
    <2>1. \A t \in shown' : row'[t] # "none"
        BY <1>7, <1>9 DEF IInv, Presented, Types, TypeOK
    <2>2. \A r \in Refresh : pc'[r] \notin {"new", "done"} => pc'[r] = pc[r]
        BY <1>3 DEF Request, Token
    <2>3. \A o \in Logout : pc'[o] = pc[o]
        BY <1>2, <1>3 DEF Request
    <2>4. QED
        BY <1>1, <2>1, <2>2, <2>3 DEF IInv, Presented
<1>15. Rotating'
    <2> SUFFICES ASSUME NEW r \in Refresh, pc'[r] \notin {"new", "done"}
                 PROVE  /\ pc'[r] \in {"load", "save", "commit"} =>
                              lock'[asked[r]] = r \/ r \in slipped
                        /\ pc'[r] \in {"findAll", "revokeAll"} => row'[asked[r]] = "revoked"
                        /\ pc'[r] = "end" => gone = User \/ row'[asked[r]] = "revoked"
        BY <1>1 DEF Rotating
    <2>1. r # q /\ pc'[r] = pc[r]
        BY <1>3 DEF Request, Token
    <2>2. asked[r] \in Token
        BY <2>1 DEF IInv, Presented, Types, TypeOK
    <2>3. QED
        BY <2>1, <2>2, <1>4, <1>9 DEF IInv, Rotating
<1>16. Sweeping'
    <2>1. \A x \in Refresh \cup Reset : x # q => pc'[x] = pc[x]
        BY <1>3 DEF Request, Token
    <2>2. \A x \in Refresh \cup Reset : \A t \in found[x] : t \in Token
        BY DEF IInv, Types, TypeOK
    <2>3. \A x \in Refresh \cup Reset : x \in swept' => pc'[x] = "done"
        BY <1>1, <1>3, <2>1 DEF IInv, Sweeping
    <2>4. \A x \in Refresh \cup Reset : pc'[x] = "end" =>
             \A t \in found[x] : row'[t] = "revoked" \/ lock'[t] = x
        BY <1>3, <1>4, <1>9, <2>1, <2>2 DEF IInv, Sweeping
    <2>5. \A x \in Refresh \cup Reset : pc'[x] = "revokeAll" =>
             \A t \in found[x] : row'[t] # "none"
        BY <1>3, <1>9, <2>1, <2>2 DEF IInv, Sweeping
    <2>6. QED
        BY <1>1, <1>3, <2>1, <2>3, <2>4, <2>5 DEF IInv, Sweeping
<1>17. ResetInv'
    BY <1>1 DEF IInv, ResetInv
<1>18. OneLiveUnlessSlipped'
    <2>1. ASSUME NEW u \in Token, row[u] = "live", lock[u] # q, saves,
                 origin[u] = origin[q]
          PROVE  Slipped(origin[q])
        <3>1. origin[u] \in Login /\ row[origin[u]] # "none"
            BY <2>1, CommittedOrigin
        <3>2. CASE q \in Login
            BY <2>1, <3>1, <3>2, <1>5 DEF IInv, Origins
        <3>3. CASE q \in Refresh /\ q \notin slipped
            <4>1. lock[asked[q]] = q /\ asked[q] \in Token /\ origin[q] = origin[asked[q]]
                BY <2>1, <3>3 DEF IInv, Rotating, Presented, Types, TypeOK
            <4>2. row[asked[q]] = "live"
                BY <4>1, <1>6
            <4>3. QED
                BY <2>1, <4>1, <4>2 DEF IInv, Claims, OneLiveUnlessSlipped
        <3>4. CASE q \in slipped
            BY <3>4
        <3>5. QED
            BY <2>1, <1>2, <3>2, <3>3, <3>4 DEF Token
    <2>2. \A t \in Token : row'[t] = "live" =>
             (row[t] = "live" /\ lock[t] # q) \/ (t = q /\ saves)
        BY <1>7
    <2>3. QED
        BY <1>1, <2>1, <2>2 DEF IInv, Claims, OneLiveUnlessSlipped
<1>19. RotationIsAtomic'
    <2> SUFFICES ASSUME NEW r \in Refresh, asked[r] # Nobody, revokedBy'[asked[r]] = r
                 PROVE  row'[r] # "none" \/ gone = User
        BY <1>1 DEF RotationIsAtomic
    <2>1. asked[r] \in Token /\ r \in Token
        BY DEF IInv, Types, TypeOK, Token
    <2>2. CASE revokedBy[asked[r]] = r
        BY <2>1, <2>2, <1>9 DEF IInv, Claims, RotationIsAtomic
    <2>3. CASE revokedBy[asked[r]] # r
        <3>1. r = q /\ lock[asked[r]] = q
            BY <2>1, <2>3, <1>8
        <3>2. row[asked[r]] = "live"
            BY <2>1, <3>1, <1>6
        <3>3. CASE saves
            BY <3>1, <3>3, <1>7
        <3>4. CASE pc[q] = "end"
            BY <3>1, <3>2, <3>4 DEF IInv, Rotating
        <3>5. QED
            BY <1>1, <3>3, <3>4
    <2>4. QED
        BY <2>2, <2>3
<1>20. LogoutEndsUnlessSlipped'
    <2> SUFFICES ASSUME NEW t \in Token, NEW u \in Token, revokedBy'[t] \in Logout,
                        origin[u] = origin[t], row'[u] = "live",
                        ~Slipped(origin[t])
                 PROVE  FALSE
        BY <1>1 DEF LogoutEndsUnlessSlipped
    <2>1. revokedBy[t] \in Logout
        BY <1>2, <1>8
    <2>2. row[t] = "revoked"
        BY <2>1, RequestsAreDistinct DEF IInv, Types, TypeOK, Request
    <2>3. row[u] # "live"
        BY <2>1 DEF IInv, Claims, LogoutEndsUnlessSlipped
    <2>4. u = q /\ saves
        BY <2>3, <1>7
    <2>5. origin[t] \in Login /\ row[origin[t]] # "none"
        BY <2>2, CommittedOrigin
    <2>6. CASE q \in Login
        BY <2>4, <2>5, <2>6, <1>5 DEF IInv, Origins
    <2>7. CASE q \in Refresh
        <3> q \notin slipped
            BY <2>4
        <3>1. lock[asked[q]] = q /\ asked[q] \in Token /\ origin[q] = origin[asked[q]]
            BY <2>4, <2>7 DEF IInv, Rotating, Presented, Types, TypeOK
        <3>2. row[asked[q]] = "live"
            BY <3>1, <1>6
        <3>3. QED
            BY <2>1, <2>4, <3>1, <3>2 DEF IInv, Claims, LogoutEndsUnlessSlipped
    <2>8. QED
        BY <2>4, <1>2, <2>6, <2>7 DEF Token
<1>21. RevokeAllMissesNone'
    <2> SUFFICES ASSUME NEW x \in swept', NEW t \in found[x] PROVE row'[t] = "revoked"
        BY <1>1 DEF RevokeAllMissesNone
    <2>1. x \in Refresh \cup Reset
        BY <1>1, <1>2 DEF IInv, Types, TypeOK
    <2>2. t \in Token
        BY <2>1 DEF IInv, Types, TypeOK
    <2>3. CASE x \in swept
        BY <2>2, <2>3, <1>9 DEF IInv, Claims, RevokeAllMissesNone
    <2>4. CASE x = q /\ pc[q] = "end"
        BY <2>1, <2>2, <2>4, <1>7, <1>9 DEF IInv, Sweeping
    <2>5. QED
        BY <1>1, <2>3, <2>4
<1>22. QED
    BY <1>10, <1>11, <1>12, <1>13, <1>14, <1>15, <1>16, <1>17, <1>18, <1>19, <1>20, <1>21
    DEF IInv, Claims

\* A rollback.
LEMMA FailKeeps ==
    ASSUME IInv, NEW q \in Request, Fail(q)
    PROVE  IInv'
<1>1. /\ pc[q] \notin {"new", "done"} /\ Goto(q, "done") /\ ReleaseLocks(q)
      /\ asked' = [p \in DOMAIN asked |-> IF p = q THEN Nobody ELSE asked[p]]
      /\ found' = [p \in DOMAIN found |-> IF p = q THEN {} ELSE found[p]]
      /\ owner' = [t \in Token |-> IF t = q THEN Nobody ELSE owner[t]]
      /\ UNCHANGED <<row, expired, gone, consumed, shown, revokedBy, origin, slipped, swept,
                     resets, before>>
    BY DEF Fail, historyVars
<1>2. faults' \in 0..MaxFaults
    BY FaultsAreBounded DEF Fail, Fault, IInv, Types, TypeOK
<1>3. pc'[q] = "done" /\ (\A x \in Request \ {q} : pc'[x] = pc[x]) /\ PcOK'
    BY <1>1, Moves DEF IInv, MayBeAt, RefreshPc, ResetPc
<1>4. /\ lock' \in [Token -> Request \cup {Nobody}]
      /\ \A t \in Token : lock'[t] = IF lock[t] = q THEN Nobody ELSE lock[t]
      /\ userLock' \in Reset \cup {Nobody}
    BY <1>1, Released
<1>5. /\ asked' \in [Refresh \cup Logout -> Token \cup {Nobody}]
      /\ \A x \in Refresh \cup Logout : asked'[x] = IF x = q THEN Nobody ELSE asked[x]
    BY <1>1 DEF IInv, Types, TypeOK
<1>6. /\ found' \in [Refresh \cup Reset -> SUBSET Token]
      /\ \A x \in Refresh \cup Reset : found'[x] = IF x = q THEN {} ELSE found[x]
    BY <1>1 DEF IInv, Types, TypeOK
<1>15. owner' \in [Token -> User \cup {Nobody}]
    BY <1>1 DEF IInv, Types, TypeOK
<1>7. Types'
    BY <1>15, <1>1, <1>2, <1>3, <1>4, <1>5, <1>6 DEF IInv, PcOK, Types, TypeOK
<1>8. HeldIsLive' /\ Origins' /\ ResetInv'
    <2>1. \A x \in slipped : pc'[x] \notin {"new", "consume"}
        BY <1>3 DEF IInv, Origins, Types, TypeOK, Request, Token
    <2>2. QED
        BY <1>1, <1>4, <2>1 DEF IInv, HeldIsLive, Origins, ResetInv
<1>9. Unborn'
    BY <1>1, <1>3 DEF IInv, Unborn, Token, Request
<1>10. Presented'
    <2>1. \A r \in Refresh : pc'[r] \notin {"new", "done"} => r # q /\ pc'[r] = pc[r]
        BY <1>3 DEF Request, Token
    <2>2. \A o \in Logout : pc'[o] = "revoke" => o # q /\ pc'[o] = pc[o]
        BY <1>3 DEF Request
    <2>3. QED
        BY <1>1, <1>5, <2>1, <2>2 DEF IInv, Presented
<1>11. Rotating'
    <2> SUFFICES ASSUME NEW r \in Refresh, pc'[r] \notin {"new", "done"}
                 PROVE  /\ pc'[r] \in {"load", "save", "commit"} =>
                              lock'[asked'[r]] = r \/ r \in slipped
                        /\ pc'[r] \in {"findAll", "revokeAll"} => row[asked'[r]] = "revoked"
                        /\ pc'[r] = "end" => gone = User \/ row[asked'[r]] = "revoked"
        BY <1>1 DEF Rotating
    <2>1. r # q /\ pc'[r] = pc[r]
        BY <1>3 DEF Request, Token
    <2>2. asked'[r] = asked[r] /\ asked[r] \in Token
        BY <2>1, <1>5 DEF IInv, Presented, Types, TypeOK
    <2>3. QED
        BY <2>1, <2>2, <1>4 DEF IInv, Rotating
<1>12. Sweeping'
    <2>1. \A x \in Refresh \cup Reset : x # q => pc'[x] = pc[x] /\ found'[x] = found[x]
        BY <1>3, <1>6 DEF Request, Token
    <2>2. \A x \in Refresh \cup Reset : \A t \in found[x] : t \in Token
        BY DEF IInv, Types, TypeOK
    <2>3. \A x \in Refresh \cup Reset : pc'[x] = "end" =>
             \A t \in found'[x] : row[t] = "revoked" \/ lock'[t] = x
        BY <1>3, <1>4, <2>1, <2>2 DEF IInv, Sweeping
    <2>4. QED
        BY <1>1, <1>3, <2>1, <2>3 DEF IInv, Sweeping
<1>13. Claims'
    <2>1. OneLiveUnlessSlipped' /\ LogoutEndsUnlessSlipped'
        BY <1>1 DEF IInv, Claims, OneLiveUnlessSlipped, LogoutEndsUnlessSlipped
    <2>2. RotationIsAtomic'
        BY <1>1, <1>5 DEF IInv, Claims, RotationIsAtomic
    <2>3. RevokeAllMissesNone'
        BY <1>1, <1>6 DEF IInv, Claims, RevokeAllMissesNone, Types, TypeOK
    <2>4. QED
        BY <2>1, <2>2, <2>3 DEF Claims
<1>14. QED
    BY <1>7, <1>8, <1>9, <1>10, <1>11, <1>12, <1>13 DEF IInv

(***************************************************************************)
(* The theorems                                                            *)
(***************************************************************************)

\* At first there is no token.
LEMMA InitHolds == Init => IInv
<1> SUFFICES ASSUME Init PROVE IInv
    OBVIOUS
<1>1. Types
    <2>1. PcOK
        BY DEF Init, PcOK, RefreshPc, ResetPc, Token, Request
    <2>2. /\ row \in [Token -> {"none", "live", "revoked"}]
          /\ lock \in [Token -> Request \cup {Nobody}]
          /\ revokedBy \in [Token -> Request \cup {Nobody}]
          /\ \A t \in Token : (row[t] = "revoked") = (revokedBy[t] # Nobody)
        BY DEF Init
    <2>3. origin \in [Token -> Login \cup {Nobody}]
        BY DEF Init
    <2>4. /\ asked \in [Refresh \cup Logout -> Token \cup {Nobody}]
          /\ found \in [Refresh \cup Reset -> SUBSET Token]
          /\ before \in [Reset -> SUBSET Reset]
        BY DEF Init
    <2>5. faults \in 0..MaxFaults
        BY FaultsAreBounded DEF Init
    <2>6. /\ expired \in SUBSET Token /\ shown \in SUBSET Token
          /\ owner \in [Token -> User \cup {Nobody}] /\ slipped \in SUBSET Refresh
          /\ swept \in SUBSET (Refresh \cup Reset) /\ resets \in SUBSET Reset
          /\ userLock \in Reset \cup {Nobody}
          /\ gone \in SUBSET User /\ consumed \in BOOLEAN
        BY DEF Init
    <2>7. QED
        BY <2>1, <2>2, <2>3, <2>4, <2>5, <2>6 DEF Types, TypeOK, PcOK
<1>2. HeldIsLive /\ Unborn
    BY RequestsAreDistinct DEF Init, HeldIsLive, Unborn, Token, Request
<1>3. Origins
    BY RequestsAreDistinct DEF Init, Origins, Token
<1>4. Presented /\ Rotating /\ ResetInv
    BY DEF Init, Presented, Rotating, ResetInv, Token, Request
<1>5. Sweeping
    BY DEF Init, Sweeping, Token, Request
<1>6. Claims
    BY RequestsAreDistinct
    DEF Init, Claims, OneLiveUnlessSlipped, RotationIsAtomic, LogoutEndsUnlessSlipped,
        RevokeAllMissesNone, Token, Request
<1>7. QED
    BY <1>1, <1>2, <1>3, <1>4, <1>5, <1>6 DEF IInv

\* Every step keeps the invariant.
LEMMA StepKeeps == IInv /\ [Next]_vars => IInv'
<1> SUFFICES ASSUME IInv, [Next]_vars PROVE IInv'
    OBVIOUS
<1>1. ASSUME NEW q \in Request, Commit(q) PROVE IInv'
    BY <1>1, CommittedKeeps DEF Commit, IInv, Types, TypeOK
<1>2. ASSUME NEW q \in Request, CommitUnacknowledged(q) PROVE IInv'
    <2>1. faults' \in 0..MaxFaults
        BY <1>2, FaultsAreBounded DEF CommitUnacknowledged, Fault, IInv, Types, TypeOK
    <2>2. QED
        BY <1>2, <2>1, CommittedKeeps DEF CommitUnacknowledged
<1>3. CASE UNCHANGED vars
    <2>1. UNCHANGED <<row, owner, expired, lock, userLock, gone, consumed, pc, shown, asked,
                      found, revokedBy, origin, slipped, swept, resets, before, faults>>
        BY <1>3 DEF vars, tokenVars, userVars, requestVars, historyVars
    <2>2. Types' /\ HeldIsLive' /\ Unborn' /\ Origins' /\ ResetInv'
        BY <2>1 DEF IInv, Types, TypeOK, HeldIsLive, Unborn, Origins, ResetInv
    <2>3. Presented' /\ Rotating' /\ Sweeping'
        BY <2>1 DEF IInv, Presented, Rotating, Sweeping
    <2>4. Claims'
        BY <2>1
        DEF IInv, Claims, OneLiveUnlessSlipped, RotationIsAtomic, LogoutEndsUnlessSlipped,
            RevokeAllMissesNone
    <2>5. QED
        BY <2>2, <2>3, <2>4 DEF IInv
<1>4. QED
    BY <1>1, <1>2, <1>3, AuthenticateKeeps, SaveKeeps, WorldKeeps, FindKeeps, ConsumeKeeps,
       LoadUserKeeps, FindAllKeeps, RevokeAllKeeps, FindValidKeeps, RevokeKeeps,
       FindResetTokenKeeps, UpdatePasswordKeeps, UseKeeps, FailKeeps
    DEF Next

\* The invariant holds in every behaviour.
LEMMA Invariant == Spec => []IInv
BY InitHolds, StepKeeps, PTL DEF Spec

\* Every variable has its type, and a token is revoked by somebody.
THEOREM SessionsTypeOK == Spec => []TypeOK
<1>1. IInv => TypeOK
    BY DEF IInv, Types
<1>2. QED
    BY <1>1, Invariant, PTL

\* A login has one live token at a time, however refreshes of it race, until
\* one of them goes on without having consumed its token.
THEOREM SessionsOneLiveUnlessSlipped == Spec => []OneLiveUnlessSlipped
<1>1. IInv => OneLiveUnlessSlipped
    BY DEF IInv, Claims
<1>2. QED
    BY <1>1, Invariant, PTL

\* A token is not used up without a successor, whichever statement fails.
THEOREM SessionsRotationIsAtomic == Spec => []RotationIsAtomic
<1>1. IInv => RotationIsAtomic
    BY DEF IInv, Claims
<1>2. QED
    BY <1>1, Invariant, PTL

\* No refresh issues a token of a session that a logout has ended, unless one
\* of its refreshes goes on without having consumed its token.
THEOREM SessionsLogoutEndsUnlessSlipped == Spec => []LogoutEndsUnlessSlipped
<1>1. IInv => LogoutEndsUnlessSlipped
    BY DEF IInv, Claims
<1>2. QED
    BY <1>1, Invariant, PTL

\* A revocation of all tokens leaves none live that was live when it looked.
THEOREM SessionsRevokeAllMissesNone == Spec => []RevokeAllMissesNone
<1>1. IInv => RevokeAllMissesNone
    BY DEF IInv, Claims
<1>2. QED
    BY <1>1, Invariant, PTL

\* A reset that commits had found its token before any other committed.
THEOREM SessionsOneUseUnlessOverlapping == Spec => []OneUseUnlessOverlapping
<1>1. IInv => OneUseUnlessOverlapping
    BY DEF IInv, ResetInv, Types, TypeOK, OneUseUnlessOverlapping
<1>2. QED
    BY <1>1, Invariant, PTL

===============================================================================
