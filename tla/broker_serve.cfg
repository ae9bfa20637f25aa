SPECIFICATION Spec
CONSTANTS
    q1 = q1
    q2 = q2
    r1 = r1
    Requests = {q1, q2}
    Runs = {r1}
    MaxInFlight = 1
    MaxCapabilities = 2
    MaxTokens = 3
SYMMETRY Alike
VIEW ViewOfHeld
INVARIANTS
    SlotsAreCounted
    OnlyLiveRunsAreServed
    LoginSurvives
    KeysAreNamed
