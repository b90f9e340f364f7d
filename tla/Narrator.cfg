CONSTANTS
    Requests = {r1, r2}
    None = None
    Graphs <- SomeGraphs
    Broken <- Error
SPECIFICATION FairSpec
INVARIANTS
    TypeOK
    RepliesMatch
    CacheBounded
PROPERTIES
    OutageEnds
