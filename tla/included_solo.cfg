SPECIFICATION FairSpec
CONSTANTS
    x = x
    y = y
    in = in
    dir = dir
    file = file
    Paths = {1, 2}
    Dirs = {dir}
    Names = {file}
    Under <- MCUnder
    Secret = {2}
    Files = {x, y}
    Size <- MCSize
    Links = {in}
    Leaving = {}
    Initially = {x, in}
    MaxFiles = 2
    MaxBytes = 2
    MaxFileBytes = 1
    MaxEdits = 2
    MaxTurns = 1
    MaxMishaps = 1
INVARIANTS
    CompletesToMerge
PROPERTIES
    KeepsTheMacsWork
    CopyConverges
CHECK_DEADLOCK FALSE
