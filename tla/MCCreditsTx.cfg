CONSTANTS
    r1 = r1
    r2 = r2
    w1 = w1
    w2 = w2
    k0 = k0
    k1 = k1
    k2 = k2
    c1 = c1
    c2 = c2
    Runs = {r1, r2}
    Workspaces = {w1, w2}
    WorkspaceOf <- MCWorkspaceOf
    Keys = {k0, k1, k2}
    Amounts = {1, 2, 3, 4}
    NoRun = NoRun
    OpeningLedger <- ScarceLedger
    Clients = {c1, c2}
    Requests <- ScarceRequests
    LowThreshold = 4
    Millisecond = 2
    MaxTx = 4
    MaxCrashes = 1
SPECIFICATION TxSpec
INVARIANTS
    TxTypeOK
PROPERTIES
    ImplementsCreditHolds
    AlertOnTransition
    EveryTransactionEnds
