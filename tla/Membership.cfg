SPECIFICATION Spec
CONSTANTS
    None = None
    root = root
    ana = ana
    bruno = bruno
    e1 = e1
    e2 = e2
    UserIds = {root, ana, bruno}
    Emails = {e1, e2}
    Invitations = {i1, i2}
    JoinRequests = {j1, j2}
    Requests = {r1, r2}
    FounderEmail <- MCFounderEmail
    FounderRole <- MCFounderRole
SYMMETRY Symmetric
INVARIANTS
    TypeOK
    OneAccountPerEmail
    WaitersHoldNothing
    AcceptedInvitationMadeOneAccount
    MembersWereAdmitted
    ApprovedRequestersAreIn
    IInv
PROPERTIES
    DecisionsAreFinal
    RolesOnlyRise
    ImplementsAdmission
