SPECIFICATION Spec
CONSTANTS
    r1 = r1
    c1 = c1
    c2 = c2
    Runs = {r1}
    Commands = {c1}
    RunOf <- SoloRunOf
    Lifetime = 2
    MaxClock = 3
    MaxWork = 2
    MaxIssued = 2
    Mishaps = {"fail"}
    MaxMishaps = 1
CHECK_DEADLOCK FALSE
INVARIANTS
    RecordsReadable
