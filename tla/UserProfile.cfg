\* Three updates, a deletion and two readers, with the cache on.
SPECIFICATION Spec
CONSTANTS
    u1 = u1
    u2 = u2
    u3 = u3
    d1 = d1
    g1 = g1
    g2 = g2
    Nobody = Nobody
    Gone = Gone
    NoProfile = NoProfile
    Update = {u1, u2, u3}
    Delete = {d1}
    Get = {g1, g2}
    MaxFaults = 1
SYMMETRY RequestSymmetry
CHECK_DEADLOCK FALSE
INVARIANTS
    TypeOK
    VersionFallsOnlyByOverlap
    LostOnlyWhenOverlapping
    AuditBeforeIsLoaded
    ProfileVersionNotOlder
