SPECIFICATION MCSpec
CONSTANTS
    Casters = {"drink", "buff"}
    Careful = {"drink"}
    WithTable = {"buff"}
    Addresses = {7, 8}
    MaxLogins = 2
    BuffPage <- BuffRows
    Effects = {"e1", "e2"}
    Things = {"stone"}
    Cooldown = 4
    Rtt = 2
    Every <- TimerRows
    ShoutEvery = 3
    Messages = 3
    TooLong = {2}
    MaxClicks = 1
    MaxHp = 3
    Lows <- PotionRows
    MpSafe = 2
    Cooldowns <- StatusCooldowns
    Lookers = {2}
    Stuck = 4
    Quick = 1
    Items = {"sword", "coin", "rag", "solvent"}
    Name <- NamedAsThey
    DeleteList <- ToDelete
    DissolveList <- ToDissolve
    Solvent = "solvent"
    Kept = {"coin"}
    MaxFinds = 1
    MaxSessions = 2
    MaxQueue = 2
    KeyCooldown = 2
    Deadline = 2
    Thresholds <- Levels
    HighRange = 700
    Totals = {0, 124, 125, 512, 1211, 1212}
    CallIds = {1, 2}
    Requests <- Asked
    Targets = {"m1", "m2"}
\* The part of the hot keys ends with its last session, the calls with the game.
CHECK_DEADLOCK FALSE
INVARIANT LevelsAddUp
PROPERTY CallsOnce
INVARIANT WhatIsUsedIsThere
PROPERTY OwnThingsOnly
PROPERTY UsesAreSpaced
PROPERTY EveryoneServed
