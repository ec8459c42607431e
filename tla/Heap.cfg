CONSTANTS
    HeapBase = 1
    HeapSize = 14
    HDR = 2
    Sizes = {0, 1, 3, 29}
    Alignments = {4}
    Word = 32
SPECIFICATION Spec
INVARIANTS
    TypeOK
    WellFormed
    Coalesced
    BlocksSafe
    QuietHeapIsWhole
PROPERTY ImplementsPool
