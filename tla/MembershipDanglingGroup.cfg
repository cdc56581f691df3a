SPECIFICATION Spec
CONSTANTS
    User = {u1, u2}
    Group = {g1}
    Req = {r1, r2}
    Idle = Idle
    NoOwner = NoOwner
    Op = {"deleteGroup", "join"}
    Throttled = {FALSE}
SYMMETRY Symmetry
INVARIANT AccountGroupsExist
