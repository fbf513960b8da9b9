\* Two addresses, two retries.
SPECIFICATION Spec
CONSTANTS
    MaxAddresses = 2
    maxRetries = 2
INVARIANTS
    TypeOK
    PumpIsLoggedIn
PROPERTIES
    StartupEnds
    Reconnects
