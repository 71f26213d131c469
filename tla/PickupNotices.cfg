SPECIFICATION NoticesSpec
CONSTANTS
    FloatKinds = {"exp"}
    Slots = 2
    MaxPackets = 3
    ToastMax = 2
    ToastTtl = 1
    FloatTtl = 1
    AmountMax = 2
INVARIANT NoticesAreTrue
PROPERTY ScreenFollowsGame
CHECK_DEADLOCK FALSE
