\* Two uploads of one user with one key and two bodies.
SPECIFICATION Spec
CONSTANTS
    q1 = q1
    q2 = q2
    alice = alice
    bob = bob
    None = None
    Request <- MCRequest
    User = {alice, bob}
    Environments <- MCEnvironments
    RoleChoices = {{"user"}, {"admin"}}
    Workloads <- Uploads
    MaxFaults = 0
    MaxChanges = 0
CHECK_DEADLOCK FALSE
INVARIANTS
    OtherBodyIsRefused
