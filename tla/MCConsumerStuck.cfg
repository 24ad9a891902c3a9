CONSTANTS
    A = A
    B = B
    here = here
    there = there
    loop = loop
    sweep = sweep
    peer = peer
    Events = {1, 2, 3}
    Stream <- MCShortStream
    AggregateOf <- MCAggregateOf
    Handled = {1, 2}
    OwnTransaction = {}
    Loops = {loop}
    Sweeps = {sweep}
    ProcessOf <- OneProcess
    BatchSize = 2
    MaxAttempts = 2
    Failures = {"handler", "quarantine"}
    MaxFaults = 2
SPECIFICATION SweptSpec
PROPERTIES
    NoAggregateIsStuck
CHECK_DEADLOCK FALSE
