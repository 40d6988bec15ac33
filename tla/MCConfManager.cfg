SPECIFICATION Spec
CONSTANTS
    t1 = t1
    t2 = t2
    n1 = n1
    n2 = n2
    None = None
    NoName = NoName
    Thread <- TwoThreads
    Name <- TwoNames
    Failures = {"connect", "query", "result"}
    Quiet = {"update_table", "clear", "clear_all"}
    MaxTables = 5
    MaxOld = 2
SYMMETRY Symmetry
INVARIANTS TypeOK Aligned HandleSound
PROPERTIES Refreshed
