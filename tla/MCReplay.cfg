CONSTANTS
    rebuild = rebuild
    redrive = redrive
    group = group
    Events = {1, 2, 3, 4}
    Letters = {4}
    Late = {1}
    Aged = {3}
    Refused = {2}
    Runs = {rebuild, redrive}
    Scope <- MCScope
    GroupOf <- MCGroupOf
    Executors = {1, 2}
    Operators = {1}
    BatchSize = 2
    CheckpointInterval = 1
    MaxConcurrentRuns = 2
    MaxCommands = 2
    MaxFaults = 1
SPECIFICATION Spec
INVARIANTS
    TypeOK
    CheckpointIsCovered
    CountsMatchCheckpoint
    RedeliveryIsBounded
PROPERTIES
    EveryExecutionReturns
CHECK_DEADLOCK FALSE
