SPECIFICATION MCSpec
CONSTANTS
    Slots = 2
    MaxPackets = 4
    Objects = {t}
    Kinds = {"dies", "hits", "hpMeter"}
    LowSlots = 1
    RawSlots = 2
    ServerMax = 2
    DeadTtl = 1
    DamageTtl = 1
    AttackerTtl = 1
INVARIANT RingIsHeard
INVARIANT AnswersWereSaid
PROPERTY PacketsPass
CHECK_DEADLOCK FALSE
