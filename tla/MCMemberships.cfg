CONSTANTS
    a = a
    b = b
    c1 = c1
    c2 = c2
    s1 = s1
    s2 = s2
    Users = {a, b}
    Workspaces = {1, 2, 3}
    Provisioned = {1, 2}
    Founder = a
    Members = {b}
    Offered <- MCOffered
    Callers = {c1, c2}
    Servers = {s1, s2}
    MaxCommands = 5
    MaxFaults = 1
SPECIFICATION Spec
SYMMETRY MCSymmetry
INVARIANTS
    TypeOK
    OwnersRemain
    NoStrayAccess
CHECK_DEADLOCK FALSE
