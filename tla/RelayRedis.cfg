\* Two replicas under the Redis lock, no two ticks of one process at once, fair
\* scheduling, faults that stop.
SPECIFICATION FairSpec
CONSTANTS
    i1 = i1
    i2 = i2
    NoRun = NoRun
    Instance = {i1, i2}
    Slot = {1}
    Message = {1}
    Poison = {}
    MaxAttempts = 2
    BatchSize = 2
    ReclaimEnabled = TRUE
    UseRedis = TRUE
    MaxFaults = 2
INVARIANTS
    TypeOK
    PublishedWasDelivered
    FailedAfterMaxTries
    LeaseLostByOverlap
PROPERTIES
    DeliveryPromise
    EveryEventSettles
