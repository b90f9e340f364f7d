CONSTANTS
    Requests = {r1, r2}
    None = None
    Graphs <- SomeGraphs
    Broken <- Error
SPECIFICATION Spec
INVARIANTS
    AlwaysAnswered
