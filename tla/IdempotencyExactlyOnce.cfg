\* Is a command executed at most once per key and TTL window?
SPECIFICATION Spec
CONSTANTS
    q1 = q1
    q2 = q2
    q3 = q3
    NoRecord = NoRecord
    Request = {q1, q2, q3}
    OtherBody = {q3}
    TTLOutlivesRequests = TRUE
    MaxFaults = 1
CHECK_DEADLOCK FALSE
INVARIANTS
    ExactlyOnce
