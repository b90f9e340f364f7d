CONSTANTS
    cron = cron
    s2 = s2
    ts = ts
    la = la
    tsdb = tsdb
    NoRow = NoRow
    Workloads = {la, tsdb}
    Pods = {cron, s2, ts}
    WorkloadOf <- TwoPodsOf
    Backbone <- DiskPairs
    Legacy <- NoOldRows
    Scale = 20
    Alpha = 8
    Decay = 2
    Show = 12
    Hide = 5
    Prior = 4
    FloorFrac = 8
    Rounded <- Nearest
    MaxHits = 2
    MaxFaults = 0
SPECIFICATION Spec
PROPERTIES
    ConfirmedOncePerPass
