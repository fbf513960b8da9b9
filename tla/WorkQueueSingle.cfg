\* One worker takes what the main thread adds; the ring wraps around and fills
\* up, in the build with asserts.
SPECIFICATION Spec
CONSTANTS
    Workers = {w1}
    LIMIT = 3
    MaxWork = 6
    MainHelps = FALSE
    DEBUG = TRUE
INVARIANTS
    ExecutedInOrder
    AssertMeansFull
PROPERTIES
    EverythingIsExecuted
CHECK_DEADLOCK FALSE
