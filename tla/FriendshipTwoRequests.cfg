SPECIFICATION Spec
CONSTANTS
    User = {2, 3}
    Group <- Products
    Call = {c1}
    Idle = Idle
    NoRequest = NoRequest
    MaxTime = 3
    Op = {"friendRequest"}
    Throttled = {FALSE}
SYMMETRY Symmetry
INVARIANT OnePending
