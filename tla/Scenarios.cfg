CONSTANTS
    ann = ann
    bob = bob
    Users <- TwoUsers
    MaxCalls = 4
    Patience = 2
CHECK_DEADLOCK FALSE
SPECIFICATION Spec
INVARIANTS
    AloneTakesEffect
PROPERTIES
    CallsReturn
    ArmedStormComes
