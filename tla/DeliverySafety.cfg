SPECIFICATION MCSpec
CONSTANTS
    Device = {d1, d2}
    Group = {g1, g2}
    Inbox = Inbox
    MaxOnline = 1
    MaxDevice = 2
    Window = 2
    MaxTime = 3
    MaxSent = 2
SYMMETRY Symmetry
CONSTRAINT AGroupStays
CHECK_DEADLOCK FALSE
INVARIANTS
    TypeOK
    MessagesReach
    NoticesReach
    StampNotAhead
PROPERTIES
    ImplementsMailbox
