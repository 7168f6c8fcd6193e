SPECIFICATION OperatorSpec
CONSTANTS
    b1 = b1
    Repo = {r1, r2, r3}
    Oid = {o1}
    Size = {1, 2}
    Backend = {b1}
    Proxier = {b1}
    StorageOf <- OneStorage
    ContentSize <- AnyContent
    MaxObjectSize = 0
    Null = Null
    Ignored = Ignored
    Tx = {t1, t2, t3}
    Instance = {j1, j2}
    RowId = {i1, i2, i3, i4}
    NoId = NoId
    Presigning = FALSE
SYMMETRY TxSymmetry
INVARIANTS CountIsTrue LinkedRowExists NoDeadlock
PROPERTY DatabaseOperatorSpec
