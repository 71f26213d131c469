SPECIFICATION InputSpec
CONSTANTS
    Heartbeat = 5
    MaxQueue = 3
INVARIANT HeldIsPromised
PROPERTY WalkRecovers
