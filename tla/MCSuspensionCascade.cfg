CONSTANTS
    Workspaces = {1, 2}
    Provisioned = {1}
    MaxWorkspaces = 2
    Workers = {1, 2}
    MaxCommands = 5
    MaxFaults = 1
SPECIFICATION Spec
INVARIANTS
    TypeOK
    NothingIsPardoned
    CascadeSettles
PROPERTIES
    EveryCascadeEnds
CHECK_DEADLOCK FALSE
