SPECIFICATION Spec
CONSTANTS
    r1 = r1
    fs = fs
    big = big
    Repo = {r1, r2}
    Oid = {o1}
    Size = {1, 2, 3}
    Backend = {fs, s3}
    Proxier = {fs}
    StorageOf <- SplitStorage
    ContentSize <- Content
    MaxObjectSize = 2
    Null = Null
    Ignored = Ignored
    Conn = {c1, c2}
    Instance = {j1}
SYMMETRY ConnSymmetry
INVARIANTS IInv AckedDownloadable ProxiedIsStored DownloadServed
INVARIANTS CleanupSparesReferenced PlaceholderNeverWritten SizeIsTrue
PROPERTY VerifiedForGood
