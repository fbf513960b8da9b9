\* Does a reconnected bot understand commands?
SPECIFICATION Spec
CONSTANTS
    MaxAddresses = 2
    maxRetries = 2
INVARIANT
    CommandsAreHeard
