SPECIFICATION Spec
CONSTANTS
    Users = {u1}
    Codes = {}
    Refreshes = {t1, t2, t3}
    Requests = {r1, r2}
    None = None
SYMMETRY Symmetry
INVARIANTS
    OnePairPerRefreshToken
CHECK_DEADLOCK FALSE
