CONSTANTS
    Volumes <- MCVolumes
    BytesPerSector = 32
    Slots = 4
    ByteValues = 16
    LastCluster = 1008
    Paths <- MCPaths
    Positions <- MCPositions
    MaxOpen = 2
SPECIFICATION Spec
INVARIANTS
    ReadIsContent
    LookupIsRight
    ListingComplete
PROPERTY CallsEnd
