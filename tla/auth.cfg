SPECIFICATION FairSpec
CONSTANTS
    Req = {r1, r2}
    Key = {k}
    TTLDefault = 2
    TTLMax = 2
    TTLMargin = 1
    CallTimeout = 1
    MaxSkew = 1
    MaxLife = 3
    Never = Never
INVARIANTS TypeOK AnnouncedExpiryHonoured
PROPERTIES ServedRecentlyGranted FailsClosed Converges
