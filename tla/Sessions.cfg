SPECIFICATION Spec
CONSTANTS
    None = None
    root = root
    ana = ana
    UserIds = {root, ana}
    FirstRole <- MCFirstRole
    Tokens = {t1, t2}
    Requests = {r1, r2}
SYMMETRY Symmetric
INVARIANTS
    TypeOK
    ActsWithRank
    LogoutIsFinal
    IInv
PROPERTIES
    DropsOnlyDeadCookies
