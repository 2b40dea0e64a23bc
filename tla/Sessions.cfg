SPECIFICATION Spec
CONSTANTS
    Users = {u1, u2}
    Codes = {c1}
    Refreshes = {t1, t2, t3}
    Requests = {r1, r2}
    None = None
SYMMETRY Symmetry
INVARIANTS
    TypeOK
    OnePairPerCode
    SessionStaysWithUser
PROPERTIES
    DeadGrantStaysDead
CHECK_DEADLOCK FALSE
