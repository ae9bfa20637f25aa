CONSTANTS
    Projects = {p, q}
    Runs = {r1, r2}
    Keys = {k1, k2}
    Processes = {c1}
    Retention = 1
    Mishaps = {"fail", "kill", "reboot", "damage"}
    MaxMishaps = 1
    MaxArchives = 0
SPECIFICATION Spec
SYMMETRY Symmetric
INVARIANTS
    StoresAreNamed
    RunsHaveStores
    HeldGenerationsExist
PROPERTIES
    CacheStaysUsable
