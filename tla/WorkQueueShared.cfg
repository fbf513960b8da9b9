\* Two workers and the main thread take work from a ring that does not wrap,
\* in the build that loads the read index once.
SPECIFICATION Spec
CONSTANTS
    Workers = {w1, w2}
    LIMIT = 4
    MaxWork = 3
    MainHelps = TRUE
    DEBUG = FALSE
INVARIANTS
    ExecutedOnce
    CompleteAllIsABarrier
PROPERTIES
    CompleteAllReturns
CHECK_DEADLOCK FALSE
