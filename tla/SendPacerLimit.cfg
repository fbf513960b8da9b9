\* Do the pauses keep to 100 messages in 30 seconds?
SPECIFICATION Spec
CONSTANTS
    SpacingMs = 3
    TicksPerMs = 2
    MaxTime = 22
    MaxSends = 5
    Budget = 4
INVARIANT
    WithinTheLimit
CHECK_DEADLOCK FALSE
