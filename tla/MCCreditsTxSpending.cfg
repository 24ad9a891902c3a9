CONSTANTS
    r1 = r1
    r2 = r2
    w1 = w1
    w2 = w2
    k0 = k0
    k1 = k1
    k2 = k2
    c1 = c1
    c2 = c2
    Runs = {r1, r2}
    Workspaces = {w1, w2}
    WorkspaceOf <- MCWorkspaceOf
    Keys = {k0, k1}
    Amounts = {1, 2, 3}
    NoRun = NoRun
    OpeningLedger <- SpendingLedger
    Clients = {c1, c2}
    Requests <- SpendingRequests
    LowThreshold = 1
    Millisecond = 2
    MaxTx = 3
    MaxCrashes = 0
SPECIFICATION TxSpec
INVARIANTS
    NeverOverCommitted
