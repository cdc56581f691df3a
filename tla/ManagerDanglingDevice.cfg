SPECIFICATION Spec
CONSTANTS
    User = {u1}
    Group = {g1}
    Device = {d1, d2}
    Conn = {c1, c2, c3}
    NoConn = NoConn
    MaxOnline = 1
SYMMETRY Symmetry
INVARIANT DeviceLeadsToSocket
