SPECIFICATION Spec
CONSTANTS
    r1 = r1
    fs = fs
    big = big
    Repo = {r1}
    Oid = {o1, big}
    Size = {1, 2}
    Backend = {s3}
    Proxier = {}
    StorageOf <- SharedStorage
    ContentSize <- Content
    MaxObjectSize = 1
    Null = Null
    Ignored = Ignored
    Conn = {c1, c2}
    Instance = {j1}
SYMMETRY SharedSymmetry
INVARIANTS LimitHolds 
PROPERTY OnlyOrphanSweepTakes
