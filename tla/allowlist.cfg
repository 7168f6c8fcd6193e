SPECIFICATION Spec
CONSTANTS
    Word <- Words
    Empty = ""
    Glob = "**"
    Starred = {"a*", "**"}
    Lower <- Lowered
    Path <- ShortPaths
    MaxEntries = 2
INVARIANT AdmitsAsDocumented
CHECK_DEADLOCK FALSE
