SPECIFICATION Spec
CONSTANTS
    Users = {u1, u2}
    Macs = {m1, m2}
    Tokens = {t1, t2}
    Models = {board}
    Layouts = {l1, l2}
    Workers = {w1, w2}
    None = None
SYMMETRY Symmetry
INVARIANTS
    TypeOK
    OneDevicePerToken
    OwnerHeldTheToken
    OneDocumentPerMac
    NameChosenByOwner
PROPERTIES
    LinkIsPermanent
    ExpiredTokenIsDead
    ImplementsDeviceClaims
