CONSTANTS
    Code = {30, 158}
    Cells = 4
    Behind = {1}
    MaxSent = 5
SPECIFICATION Spec
INVARIANTS
    NoMoreThanSent
PROPERTIES
    ImplementsQueue
    AcceptedArrives
