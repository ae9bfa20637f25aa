CONSTANTS
    Projects = {p}
    Runs = {r1}
    Keys = {k1}
    Processes = {c1}
    Retention = 2
    Mishaps = {"fail", "kill", "reboot", "return"}
    MaxMishaps = 2
    MaxArchives = 2
SPECIFICATION FairSpec
INVARIANTS
    BackupBringsBack
PROPERTIES
    MissingStoreReclaimed
