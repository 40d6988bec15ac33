SPECIFICATION Spec
CONSTANTS
    None = None
    TableNum <- MCTableNum
    Row <- MCRow
    Home <- MCHome
    Value <- MCValue
    ColumnNum <- MCColumnNum
    Foreign <- MCForeign
    Keyed = {0, 1}
    DaoLoads <- AllTables
    Modes <- LinkedOrNot
    Torn = {1}
    OffsetLimit = 8
INVARIANTS TypeOK RowInBlock
PROPERTIES ImplementsStore
