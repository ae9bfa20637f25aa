SPECIFICATION FairSpec
CONSTANTS
    e = e
    a = a
    b = b
    x = x
    v1 = v1
    v2 = v2
    v3 = v3
    Extensions = {e}
    Tools = {a, b}
    Releases = {v1, v2, v3}
    Binaries = {x, b}
    Provides <- MCProvides
    Processes = {c1}
    Mishaps = {"fail", "kill"}
    MaxMishaps = 2
INVARIANTS
    NoCommandClaimedTwice
    CommandsMeanOneTool
PROPERTIES
    PinnedTreesStay
    RestoreOnlyAdds
    ResetEmpties
