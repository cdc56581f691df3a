SPECIFICATION MCFairSpec
CONSTANTS
    User = {u1, u2}
    Group = {g1}
    Device = {d1, d2}
    Conn = {c1, c2, c3}
    NoConn = NoConn
    MaxOnline = 1
INVARIANTS
    TypeOK
    IndexesAgree
    RegisteredIsListed
    EntryHasHandler
    
    UncrossedIsReached

    
    
