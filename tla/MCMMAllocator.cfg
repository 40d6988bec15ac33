SPECIFICATION Spec
CONSTANTS
    EachChunk = 32
    MaxChunk = 3
    Align = 8
    IntMod = 128
    Size <- MCSize
    DATA_FILE = DATA_FILE
    ROW_INDEX = ROW_INDEX
    Flag <- MCFlag
    MaxBlocks = 4
    MaxMarks = 1
SYMMETRY Symmetry
INVARIANTS TypeOK InBounds NoOverlap ZoneAccounting
