CONSTANTS
    cool = cool
    dcim = dcim
    tsdb = tsdb
    vision = vision
    NoPod = NoPod
    Order <- PodOrder
    Disk = {cool, dcim, tsdb}
    Writers = {cool, dcim}
    OnsetLists <- SomeOnsets
    Lags <- SomeLags
    Pushes <- SomePushes
    Elsewhere <- OtherGraphs
    HeldLists <- SomeHeld
    HotSets <- StallTogether
SPECIFICATION Spec
INVARIANTS
    EdgesWitnessed
    RootExplains
    ImpactIsBest
    BlastWithinImpact
PROPERTIES
    WriterDecides
