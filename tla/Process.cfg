CONSTANTS
    Task = {1, 2, 3, 4, 5, 6, 7, 8}
    NULL = 0
    MaxProcesses = 2
SPECIFICATION Spec
INVARIANTS
    LoadedIsWhole
    FailuresGiveBack
PROPERTY ImplementsQueue
