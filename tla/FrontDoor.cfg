SPECIFICATION Spec
CONSTANTS
    None = None
    Clients = {c1}
    MaxRequests = 2
    Window = 2
    MaxTime = 6
    Emails <- MCEmails
    Canon <- MCCanon
    AdminRequests = {q1, q2}
SYMMETRY Symmetry
INVARIANTS
    TypeOK
    NeverTooMany
    OneGrantPerPerson
    OnlySettingMakesSuper
    ActsOnlyWithAccess
PROPERTY ImplementsSlidingWindow
