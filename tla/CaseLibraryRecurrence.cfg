CONSTANTS
    cm = cm
    dc = dc
    la = la
    ts = ts
    None = None
    Kinds <- KindOrder
    Graphs <- SomeGraphs
    Unit = 60
    TauMerge = 85
    TauFamily = 60
    Legacy <- NoOldCases
    MaxPasses = 3
    MaxFaults = 0
SPECIFICATION Spec
PROPERTIES
    RecurrenceMeansReturn
