CONSTANTS
    Requests = {r1, r2}
    Amounts = {1, 2}
    Passwords = {p, q}
    Opening = 2
    Faults = {}
    None = None
SPECIFICATION Spec
INVARIANTS
    NoLostUpdate
SYMMETRY AccountSymmetry
CHECK_DEADLOCK FALSE
