SPECIFICATION Spec
CONSTANTS
    h1 = h1
    h2 = h2
    a = a
    b = b
    Hash = {h1, h2}
    Name <- Names
    Size = {1, 2}
    Null = Null
    MaxFound = 2
    MaxTid = 3
    MaxName = 3
INVARIANTS
    TypeOK
    OneRowPerHash
    NoNameLost
    SearchStored
PROPERTY
    RowsOnlyGrow
CHECK_DEADLOCK FALSE
