SPECIFICATION Spec
CONSTANTS
    User = {u1, u2, u3}
    Group = {g1}
    Req = {r1, r2}
    Idle = Idle
    NoOwner = NoOwner
    Op = {"deleteGroup", "deleteSelf", "deleteUser", "addAdmin", "deleteAdmin", "banUser", "join", "requestAccept"}
    Throttled = {FALSE}
SYMMETRY Symmetry
INVARIANTS
    TypeOK
    IndexesAgree
    OwnerIsMember
    OwnerUnrestricted
    AccountsAgree
    OnlineMembersConnected
    BanCacheCoherent
    ListensOnlyToOwnGroups
PROPERTIES
    ImplementsRoster
