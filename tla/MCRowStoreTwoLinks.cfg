SPECIFICATION Spec
CONSTANTS
    k1 = k1
    k2 = k2
    Empty = Empty
    None = None
    TableNum <- MCTableNum
    Row <- TwoLinksRow
    Home <- TwoLinks
    Value <- TwoValues
    ColumnNum <- MCColumnNum
    Foreign <- MCForeign
    Keyed = {0, 1}
    DaoLoads <- AllTables
    Modes <- DefaultMode
    Torn = {0, 1}
INVARIANTS TypeOK RevLive IndexedOrIncomplete NormalProtected
