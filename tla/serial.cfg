SPECIFICATION Spec
CONSTANTS
    b1 = b1
    Repo = {r1, r2}
    Oid = {o1}
    Size = {1, 2}
    Backend = {b1}
    Proxier = {}
    StorageOf <- OneStorage
    ContentSize <- AnyContent
    MaxObjectSize = 0
    Null = Null
    Ignored = Ignored
    Tx = {t1, t2, t3}
    Instance = {j1}
    RowId = {i1, i2, i3, i4}
    NoId = NoId
    Presigning = TRUE
SYMMETRY TxSymmetry
INVARIANTS TypeOK ReturnedIsStored DeadlockHasVerify
PROPERTY DatabaseSpec
