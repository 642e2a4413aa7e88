SPECIFICATION FairSpec
CONSTANTS
    p1 = p1
    p2 = p2
    p3 = p3
    Callers = {p1, p2}
    Kinds <- MCKinds
    MaxClients = 3
    MaxCloses = 1
    MaxFaults = 2
    BadTokens = TRUE
INVARIANTS
    ClosedIsNotHandedOut
PROPERTIES
    NothingForgotten
    AllEnd
CHECK_DEADLOCK FALSE
