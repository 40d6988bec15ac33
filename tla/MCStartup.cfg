SPECIFICATION Spec
CONSTANTS
    top = top
    sub = sub
    deep = deep
    side = side
    locked = locked
    Bad = Bad
    None = None
    Missing = Missing
    Dir <- MCDir
    Root = top
    Trees <- MCTrees
    Unreadable = {locked}
    TableFile = {1, 3, 6}
    MaxFileNum = 4
    TableNum = 2
    Confs <- MCConfs
    MaxAttempts = 2
    Dao = {1, 2, 3}
    Kind <- MCKind
    RowCount = {0, 2}
INVARIANTS TypeOK ListingBounded DirectoriesClosed SchemaComplete RefsMirrored RowsInFile
CHECK_DEADLOCK FALSE
