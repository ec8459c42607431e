CONSTANTS
    Size = 5
    Character = {1, 2}
    Delims = {2}
    Letter = {"a", "b"}
    Base = 3
    Ext = 3
SPECIFICATION TextSpec
INVARIANTS
    CopyArrives
    CompareAgrees
    TokensAreWords
    TextIsNumber
    NameIsJoined
