\* The workloads of MCAccounts, one fault each.
SPECIFICATION FairSpec
CONSTANTS
    r1 = r1
    r2 = r2
    v1 = v1
    v2 = v2
    c1 = c1
    c2 = c2
    u1 = u1
    u2 = u2
    f1 = f1
    s1 = s1
    s2 = s2
    m1 = m1
    m2 = m2
    e1 = e1
    e2 = e2
    l1 = l1
    h1 = h1
    u0 = u0
    x = x
    y = y
    z = z
    None = None
    Request <- MCRequest
    User <- MCUser
    Workloads <- MCWorkloads
    Address = {x, y, z}
    SeededAddress = y
    PersonAddress = x
    Seeded = u0
    Register = {r1, r2}
    Verify = {v1, v2}
    Callback = {c1, c2}
    Change = {u1, u2}
    Forgot = {f1}
    Reset = {s1, s2}
    Setup = {m1, m2}
    Enable = {e1, e2}
    Login = {l1}
    Challenge = {h1}
    RequireEmailVerification = TRUE
    MaxFaults = 1
CHECK_DEADLOCK FALSE
INVARIANTS
    TypeOK
    OneUserPerAddress
    RegisteredWhole
    VerifiedWasMailed
    OneAccountPerPerson
    ResetStands
    SecondFactorIsProven
PROPERTIES
    RegistrationIsMailed
