\* Are concurrent updates of one user refused?
SPECIFICATION Spec
CONSTANTS
    u1 = u1
    u2 = u2
    u3 = u3
    d1 = d1
    g1 = g1
    g2 = g2
    Nobody = Nobody
    Gone = Gone
    NoProfile = NoProfile
    Update = {u1, u2}
    Delete = {}
    Get = {g1}
    MaxFaults = 0
SYMMETRY RequestSymmetry
CHECK_DEADLOCK FALSE
INVARIANTS
    NoLostUpdate
