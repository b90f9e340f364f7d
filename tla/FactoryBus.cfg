CONSTANTS
    Limit = 2
    QueueCap = 2
    BatchMax = 2
    MaxReadings = 4
    MaxFaults = 3
SPECIFICATION FairSpec
INVARIANTS
    ReadingsOnce
PROPERTIES
    SilenceTrips
    BeatsRearm
