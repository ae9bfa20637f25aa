SPECIFICATION FairSpec
CONSTANTS
    c1 = c1
    c2 = c2
    N = 2
    MaxVersion = 3
    Appliers = {c1}
    Mishaps = {"fail", "unsynced", "kill"}
    MaxMishaps = 3
INVARIANTS
    BranchesComeSubmodulesFirst
    ImportedIsWhole
    PlanStaysReplayable
PROPERTIES
    LandsAtomically
    ApplyConverges
