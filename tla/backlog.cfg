SPECIFICATION FairSpec
CONSTANTS
    s3 = s3
    Repo = {r1}
    Oid = {o1, o2, o3}
    Size = {1}
    Backend = {s3}
    Proxier = {}
    StorageOf <- TheStorage
    ContentSize <- TheSize
    MaxObjectSize = 0
    Null = Null
    Ignored = Ignored
    SweepBatchSize = 1
    MaxCalls = 2
INVARIANT TypeOK
PROPERTIES NeverOvertaken OldestFirst OrphansGo UnreferencedGo
