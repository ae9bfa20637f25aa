SPECIFICATION FairSpec
CONSTANTS
    r = r
    p = p
    Runs = {r}
    Projects = {p}
    Definitions = {1, 2}
    MaxEvents = 2
INVARIANTS
    LiveRunsAreSound
PROPERTIES
    WorkIsKept
    RebuildConverges
    RemovalConverges
