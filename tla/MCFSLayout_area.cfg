SPECIFICATION Spec
CONSTANTS
    SlotsPerBlock = 4
    WordBits = 2
    InodesInABlock = 2
    TotalBlocks = 14
    InodeBitmapBlocks = 1
INVARIANTS InodesInArea
