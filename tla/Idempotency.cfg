\* A request, a retry of it and one with another body under the same key.
SPECIFICATION FairSpec
CONSTANTS
    q1 = q1
    q2 = q2
    q3 = q3
    NoRecord = NoRecord
    Request = {q1, q2, q3}
    OtherBody = {q3}
    TTLOutlivesRequests = TRUE
    MaxFaults = 1
CHECK_DEADLOCK FALSE
INVARIANTS
    TypeOK
    OneHandlerAtATime
    AtMostOnceUnlessForgotten
    ReplayIsOriginal
PROPERTIES
    RecordedIsFinal
    KeyIsFreed
    RequestEnds
