SPECIFICATION Spec
CONSTANTS
    Device = {d1, d2}
    Group = {g1}
    Inbox = Inbox
    MaxOnline = 1
    MaxDevice = 1
    Window = 2
    MaxTime = 3
    MaxSent = 2
SYMMETRY Symmetry
CHECK_DEADLOCK FALSE
INVARIANT DeviceLimit
