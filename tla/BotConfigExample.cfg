SPECIFICATION Spec
CONSTANTS
    Files <- Example
    Blank <- MCBlank
    NULL = NULL
    MaxLines = 3
INVARIANTS
    ExampleIsRead
CHECK_DEADLOCK FALSE
