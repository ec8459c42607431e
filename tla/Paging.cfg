CONSTANTS
    NumPages = 18
    NumTables = 2
    TableSize = 12
    HeapVirtual = 19
    HeapPages = 4
    TaskVirtual = 11
    PageSize = 2
    BinarySizes = {0, 1, 3}
    MaxSpaces = 2
    MemoryMaps <- MCMemoryMaps
    BootImages <- MCBootImages
SPECIFICATION Spec
INVARIANTS
    Accounted
    PagesBalanced
    KernelSeesRam
    TaskSeesItsBinary
PROPERTY FreedSpaceIsReusable
