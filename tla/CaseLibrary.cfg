CONSTANTS
    cm = cm
    dc = dc
    la = la
    ts = ts
    None = None
    Kinds <- KindOrder
    Graphs <- SomeGraphs
    Unit = 60
    TauMerge = 85
    TauFamily = 60
    Legacy <- OldCases
    MaxPasses = 4
    MaxFaults = 1
SPECIFICATION Spec
INVARIANTS
    TypeOK
    FamiliesRooted
    FamiliesLinked
    CasesApart
    ObservationsAccounted
PROPERTIES
    ArchivePermanent
