CONSTANTS
    Requests = {r1, r2, r3}
    Amounts = {1, 2}
    Passwords = {p, q}
    Opening = 2
    Faults = {"rollback", "redis", "restart"}
    None = None
SPECIFICATION Spec
INVARIANTS
    TypeOK
    NonNegative
    LedgerBalances
    CacheHoldsBalance
    DeletedCannotLogIn
SYMMETRY AccountSymmetry
CHECK_DEADLOCK FALSE
