SPECIFICATION Spec
CONSTANTS
    User = {2, 3}
    Group <- Products
    Call = {c1, c2}
    Idle = Idle
    NoRequest = NoRequest
    MaxTime = 2
    Op = {"deleteFriend", "friendRequest", "requestAccept", "requestReject"}
    Throttled = {FALSE}
SYMMETRY Symmetry
INVARIANTS
    TypeOK
    IndexesAgree
    FriendsMutual
    
    

    
