\* Two users, a login, two refreshes, a logout and two resets with one token.
SPECIFICATION Spec
CONSTANTS
    l1 = l1
    r1 = r1
    r2 = r2
    o1 = o1
    k1 = k1
    k2 = k2
    Nobody = Nobody
    User = {1, 2}
    ResetOf = 1
    Login = {l1}
    Refresh = {r1, r2}
    Logout = {o1}
    Reset = {k1, k2}
    MaxFaults = 1
SYMMETRY RequestSymmetry
CHECK_DEADLOCK FALSE
INVARIANTS
    TypeOK
    OneLiveUnlessSlipped
    RotationIsAtomic
    LogoutEndsUnlessSlipped
    RevokeAllMissesNone
    OneUseUnlessOverlapping
