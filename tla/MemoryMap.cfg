CONSTANTS
    PAGE_SIZE = 2
    Word = 38
    AlignedBounds = {0, 2, 4, 6, 16, 18, 20, 32, 34, 36, 38}
    AnyBounds = {0, 1, 2, 3, 5, 8, 15, 17, 18, 19, 20}
    FirmwareMaps <- MCFirmwareMaps
SPECIFICATION MapSpec
INVARIANTS
    FreePagesAreSpare
    BitmapCarvedOut
