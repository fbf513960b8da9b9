SPECIFICATION Spec
CONSTANTS
    Files <- MCFiles
    Blank <- MCBlank
    NULL = NULL
    MaxLines = 4
INVARIANTS
    EveryOptionIsRead
PROPERTIES
    ReadStaysRead
    ReadingEnds
\* The loop ends.
CHECK_DEADLOCK FALSE
