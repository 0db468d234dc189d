\* Every route alone, and the pairs of MCHttpPipeline.
SPECIFICATION MCSpec
CONSTANTS
    q1 = q1
    q2 = q2
    alice = alice
    bob = bob
    None = None
    Request <- MCRequest
    User = {alice, bob}
    Environments <- MCEnvironments
    RoleChoices = {{"user"}, {"admin"}}
    Workloads <- MCWorkloads
    MaxFaults = 1
    MaxChanges = 1
CHECK_DEADLOCK FALSE
INVARIANTS
    TypeOK
    HandlerIsEntitled
    AnswerFits
    ReplayTellsTheSame
