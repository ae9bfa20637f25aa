SPECIFICATION FairSpec
CONSTANTS
    r1 = r1
    c1 = c1
    c2 = c2
    Runs = {r1}
    Commands = {c1}
    RunOf <- SoloRunOf
    Lifetime = 1
    MaxClock = 2
    MaxWork = 2
    MaxIssued = 3
    Mishaps = {"fail", "unclean", "unsynced", "kill", "reboot"}
    MaxMishaps = 2
CHECK_DEADLOCK FALSE
INVARIANTS
    NothingOwnedWithoutRecord
    ActiveRunIsUsable
    OnlyResumedPlanIsUnreadable
    ReturnedWorkKept
    CaptureIsQuiescent
    NoWorkLeftBehind
    RunningMeansActive
PROPERTIES
    KeepsPromise
    DiscardReleases
