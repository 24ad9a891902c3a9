CONSTANTS
    A = A
    B = B
    Events = {1, 2, 3}
    AggregateOf <- MCAggregateOf
    Serialized = {A}
    Relays = {p, q}
    BatchSize = 2
    MaxPublishAttempts = 2
    MaxCopies = 1
    MaxFaults = 1
SPECIFICATION Spec
INVARIANTS
    TypeOK
    NothingIsLost
    InOrder
PROPERTIES
    OutboxDrains
CHECK_DEADLOCK FALSE
