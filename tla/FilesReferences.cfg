SPECIFICATION Spec
CONSTANTS
    Hash = {h1, h2}
    Group = {g1, g2}
    NoFile = NoFile
    NoOp = NoOp
    Expire = 1
    MaxTime = 4
    MaxSent = 3
SYMMETRY Symmetry
CHECK_DEADLOCK FALSE
INVARIANTS
    TypeOK
    
    
    
