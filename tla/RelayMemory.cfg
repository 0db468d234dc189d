\* Two replicas under the memory lock, ticks of one process overlap, nothing
\* is reclaimed.
SPECIFICATION Spec
CONSTANTS
    i1 = i1
    i2 = i2
    NoRun = NoRun
    Instance = {i1, i2}
    Slot = {1, 2}
    Message = {1, 2}
    Poison = {2}
    MaxAttempts = 2
    BatchSize = 2
    ReclaimEnabled = FALSE
    UseRedis = FALSE
    MaxFaults = 1
SYMMETRY InstanceSymmetry
INVARIANTS
    GuardPerProcess
    ExclusiveClaim
    PoolClosedByOverlap
PROPERTIES
    SettledIsFinal
