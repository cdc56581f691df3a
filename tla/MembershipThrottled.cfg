SPECIFICATION Spec
CONSTANTS
    User = {u1, u2}
    Group = {g1}
    Req = {r1}
    Idle = Idle
    NoOwner = NoOwner
    Op = {"deleteUser", "join"}
    Throttled = {FALSE, TRUE}
SYMMETRY Symmetry
INVARIANT ListensOnlyToOwnGroups
