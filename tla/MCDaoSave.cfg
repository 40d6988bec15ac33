SPECIFICATION FairSpec
CONSTANTS
    k1 = k1
    a = a
    b = b
    None = None
    Table = {0, 1, 2}
    HasData = {0, 2}
    Key <- OneKey
    Val <- TwoVals
    MaxRows <- MCMaxRows
    OpenAfterFailure = TRUE
CONSTRAINT TableOneSmall
INVARIANTS TypeOK Agreement AllSent
PROPERTIES SaveIsAtomic SaveReturns
