CONSTANTS
    io = io
    cpu = cpu
    api = api
    probe = probe
    NoClient = NoClient
    Order <- TwoSignals
    Clients = {api, probe}
    Corruptible = {cpu}
    MaxPolls = 2
    MaxFaults = 1
SPECIFICATION FairSpec
INVARIANTS
    TypeOK
    ServedIsDurable
    WholePass
PROPERTIES
    CatchesUp
    NobodyWaitsForever
    EarlierSignalsLearn
