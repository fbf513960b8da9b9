\* A base block of four pages; the largest text just fits, the array may not.
SPECIFICATION DispatchSpec
CONSTANTS
    MinSize = 12
    Bootstrap = 2
    Header = 2
    Record = 1
    Page = 4
    MaxBlocks = 4
    TextSizes = {1, 2, 3, 4, 5, 6, 7, 8, 9, 10, 11, 12}
    ArraySize = 4
INVARIANTS
    TypeOK
    NoOverlap
    NothingLeaks
PROPERTIES
    DispatchEnds
