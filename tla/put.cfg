SPECIFICATION PowerSpec
CONSTANTS
    Null = Null
    Ignored = Ignored
    empty = empty
    blob = blob
    Disk = Disk
    Repo = {r1}
    Oid = {empty, blob}
    Size = {0, 1, 2, 3}
    Backend = {Disk}
    Proxier = {Disk}
    StorageOf <- StorageOfAll
    ContentSize <- Lengths
    MaxObjectSize = 0
    Upload = {u1, u2}
    MaxRead = 2
INVARIANT FilesAreWhole
PROPERTY StoresAsPromised
SYMMETRY UploadSymmetry
