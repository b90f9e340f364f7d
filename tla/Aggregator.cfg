CONSTANTS
    io = io
    net = net
    cool = cool
    tsdb = tsdb
    Engine = engine
    Readers = {engine, viewer}
    Pods = {cool, tsdb}
    Signals <- Pack
    Reports <- WhoReports
    Rows <- RowsPerPod
    MaxRows = 2
    Ruled = {io}
    Wanted = {io, net}
    Leaving = {cool}
    CapN = 2
    CapEvents = 1
    MinCover = 1
    GridN = 1
    Slack = 1
    Horizon = 3
SPECIFICATION FairSpec
INVARIANTS
    RingInOrder
    EventsBacked
PROPERTIES
    LocksPassOn
    GonePodsDrop
