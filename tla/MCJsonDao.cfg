SPECIFICATION Spec
CONSTANTS
    a = a
    b = b
    rawA = rawA
    long = long
    nul = nul
    Broken = Broken
    None = None
    Row <- MCRow
    Canon <- MCCanon
    Long = {long}
    Spliced = {b}
    Shifted = {nul}
    MemoryRows = 1
    FirstFiles <- MCFirstFiles
    MaxRows = 2
INVARIANTS TypeOK LoadedIsOneSave Durable
