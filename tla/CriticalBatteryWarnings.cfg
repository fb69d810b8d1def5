\* Two batteries, a mouse, two configurations; the timer and signals are served.
SPECIFICATION FairSpec
CONSTANTS
    b1 = b1
    b2 = b2
    mouse = mouse
    Batteries = {b1, b2}
    Peripherals = {mouse}
    Percents <- SomePercents
    Settings <- TwoSettings
    MaxSignals = 2
    Invalidates = FALSE
INVARIANTS
    CountdownIsAnnounced
    AcStateSettles
PROPERTIES
    CountdownConcludes
