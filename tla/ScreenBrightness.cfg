SPECIFICATION Spec
CONSTANTS
    Outputs <- PanelAndMonitor
    Internal <- Panel
    MaxBrightness = 2
    InitialOutputs <- BothHalfBright
    Grain = 2
    MaxEvents = 3
INVARIANTS
    NotDeaf
    DimmedAsWanted
    TrackedIsShown
    LagsOnlyAtEnds
    AppletShows
CHECK_DEADLOCK FALSE
