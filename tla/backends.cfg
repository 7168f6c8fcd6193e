SPECIFICATION Spec
CONSTANTS
    Name = {a, b}
    Host = {"hub", "Hub", "lab"}
    LowerHost <- Lowered
    Scheme = {"file", "s3", "File", "bare"}
    Ended = {"file", "s3", "File"}
    UrlScheme <- Parsed
    Root <- Roots
    Bucket <- Buckets
    UrlPath <- ParsedPath
    Oid = {o1}
    Malformed = Malformed
    None = None
    Pending = Pending
INVARIANTS HostsAreFound OpenedWhereStored
PROPERTY DeletesReachStorage
CHECK_DEADLOCK FALSE
