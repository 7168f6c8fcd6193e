SPECIFICATION Spec
CONSTANTS
    r1 = r1
    fs = fs
    big = big
    Repo = {r1}
    Oid = {o1}
    Size = {1}
    Backend = {s3}
    Proxier = {}
    StorageOf <- SharedStorage
    ContentSize <- Content
    MaxObjectSize = 2
    Null = Null
    Ignored = Ignored
    Conn = {c1, c2}
    Instance = {j1}
SYMMETRY SharedSymmetry
INVARIANTS VerifiedIsStored
