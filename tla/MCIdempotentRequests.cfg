CONSTANTS
    a1 = a1
    a2 = a2
    a3 = a3
    other = other
    f = f
    g = g
    Attempts = {a1, a2, a3, other}
    Fingerprints = {f, g}
    FingerprintOf <- MCFingerprintOf
    MaxFaults = 2
SYMMETRY Retries
SPECIFICATION Spec
INVARIANTS
    TypeOK
    ExecutesOnce
    ReplaysTheOriginal
    ClaimsAreSettled
CHECK_DEADLOCK FALSE
