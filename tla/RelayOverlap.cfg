\* One replica under the Redis lock whose ticks overlap, and another one.
SPECIFICATION Spec
CONSTANTS
    i1 = i1
    i2 = i2
    NoRun = NoRun
    Instance = {i1, i2}
    Slot = {1, 2}
    Message = {1}
    Poison = {}
    MaxAttempts = 2
    BatchSize = 2
    ReclaimEnabled = TRUE
    UseRedis = TRUE
    MaxFaults = 1
SYMMETRY InstanceSymmetry
INVARIANTS
    LeaseExclusive
