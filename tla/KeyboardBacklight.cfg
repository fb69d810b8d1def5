SPECIFICATION Spec
CONSTANTS
    MaxBrightness = 2
    MaxEvents = 5
INVARIANTS
    KeysAreObeyed
    LidRestores
    AppletShows
CHECK_DEADLOCK FALSE
