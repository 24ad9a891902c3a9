CONSTANTS
    r1 = r1
    r2 = r2
    w1 = w1
    w2 = w2
    Runs = {r1, r2}
    Workspaces = {w1, w2}
    WorkspaceOf <- MCWorkspaceOf
    Keys = {k1, k2, k3}
    Amounts = {1, 2}
    NoRun = NoRun
    OpeningLedger <- MCOpeningLedger
SPECIFICATION Spec
INVARIANTS
    TypeOK
    ConsumedIsCharged
    NeverOverCommitted
    EventsTellTheHold
PROPERTIES
    NothingIsRewritten
CHECK_DEADLOCK FALSE
