CONSTANTS
    cron = cron
    s2 = s2
    ts = ts
    la = la
    tsdb = tsdb
    NoRow = NoRow
    Workloads = {la, tsdb}
    Pods = {cron, ts}
    WorkloadOf <- OnePodOf
    Backbone <- DiskPairs
    Legacy <- OldRows
    Scale = 20
    Alpha = 8
    Decay = 2
    Show = 12
    Hide = 5
    Prior = 4
    FloorFrac = 8
    Rounded <- Nearest
    MaxHits = 3
    MaxFaults = 2
SPECIFICATION FairSpec
INVARIANTS
    TypeOK
    Hysteresis
    LabelsAgree
    BackboneUpheld
PROPERTIES
    FloorNeverForgotten
    FadesGently
    SettlesAtFloor
    VanishesWhenQuiet
    PromiseKept
