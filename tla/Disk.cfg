CONSTANTS
    Buses = {1, 2}
    Machines <- MCMachines
    WordsPerBlock = 2
    LbaLimit = 8
    Blocks <- MCBlocks
    TableOf <- MCTableOf
    IdleWords = {0}
    MaxRequest = 2
SPECIFICATION Spec
INVARIANTS
    ScanFindsDisks
    ReadIsBlocks
PROPERTY CallsEnd
