SPECIFICATION Spec
CONSTANTS
    Fast = {get1, get2}
    Slow = {put1, put2}
    Acks = {ack1}
    QueueLength = 2
    High = 1
    Low = 1
    MaxFails = 2
INVARIANTS
    TypeOK
    RunningBounded
    NeverStalled
    WaitsOnlyWhenFull
    RequestInOnePlace
PROPERTIES
    AllServed
    OverloadEnds
CHECK_DEADLOCK FALSE
