SPECIFICATION FairSpec
CONSTANTS
    h = h
    a = a
    b = b
    Subs = 1
    UserChanges = {h}
    AgentChanges = {a}
    MaxEdits = 2
    MaxTurns = 2
    MaxMishaps = 1
INVARIANTS
    ReturnsTheRunsWork
PROPERTIES
    StagedAsSeen
    CaptureConverges
