\* Two profiles with different actions, a keyboard with three levels, five events.
SPECIFICATION Spec
CONSTANTS
    IdleActionsOf <- EitherProfile
    KeyboardOf <- BatteryKeyboard
    KeyboardMax = 2
    MaxEvents = 5
    Unset = Unset
INVARIANTS
    DimmingWillEnd
    KeyboardComesBack
    TimeoutsInPlace
CHECK_DEADLOCK FALSE
