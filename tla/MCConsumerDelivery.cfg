CONSTANTS
    A = A
    B = B
    here = here
    there = there
    loop = loop
    sweep = sweep
    peer = peer
    Events = {1, 2, 3}
    Stream <- MCStream
    AggregateOf <- MCAggregateOf
    Handled = {1, 2}
    OwnTransaction = {2}
    Loops = {loop, peer}
    Sweeps = {sweep}
    ProcessOf <- TwoProcesses
    BatchSize = 2
    MaxAttempts = 2
    Failures <- Kinds
    MaxFaults = 2
SPECIFICATION Spec
INVARIANTS
    TypeOK
    EffectsOnce
    AckedIsAccountedFor
    OneAtATime
PROPERTIES
    EveryEntryIsFinished
CHECK_DEADLOCK FALSE
