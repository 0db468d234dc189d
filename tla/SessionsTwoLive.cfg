\* Does a login have one live token at a time?
SPECIFICATION Spec
CONSTANTS
    l1 = l1
    r1 = r1
    r2 = r2
    o1 = o1
    k1 = k1
    k2 = k2
    Nobody = Nobody
    User = {1}
    ResetOf = 1
    Login = {l1}
    Refresh = {r1, r2}
    Logout = {}
    Reset = {}
    MaxFaults = 0
SYMMETRY RequestSymmetry
CHECK_DEADLOCK FALSE
INVARIANTS
    OneLivePerLogin
