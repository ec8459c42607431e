CONSTANTS
    FileNames <- MCNames
    FileSizes = {0, 2, 3, 7}
    NameSize = 3
    TableSize = 3
    BlockSize = 2
    BlockLimit = 4
    MaxFiles = 3
SPECIFICATION InitrdSpec
INVARIANTS
    PackedIsRead
    ListedIsFound
