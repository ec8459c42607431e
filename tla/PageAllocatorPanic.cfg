CONSTANTS
    NumPages = 4
    MemoryMaps = {{0}}
SPECIFICATION AllocSpec
INVARIANT PanicMeansNoPages
