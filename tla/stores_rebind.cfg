CONSTANTS
    Projects = {p, q}
    Runs = {r1, r2}
    Keys = {k1}
    Processes = {c1}
    Retention = 1
    Mishaps = {"reboot"}
    MaxMishaps = 1
    MaxArchives = 0
SPECIFICATION Spec
PROPERTIES
    TranscriptsKept
