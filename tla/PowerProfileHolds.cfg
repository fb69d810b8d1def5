\* Two programs and two holds, of one or of both; programs leave at any time.
SPECIFICATION Spec
CONSTANTS
    c1 = c1
    c2 = c2
    Clients = {c1, c2}
    Profiles <- TwoProfiles
    MaxCookie = 3
    MaxSets = 1
    MaxRestarts = 1
    MaxEvents = 3
    Nobody = Nobody
SYMMETRY ProgramSymmetry
INVARIANTS
    HoldsEndWithProgram
    HoldsAreListed
    AppletShowsActual
CHECK_DEADLOCK FALSE
