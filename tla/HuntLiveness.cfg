SPECIFICATION Spec
CONSTANTS
    Targets = {t1}
    NoTarget = none
    AttackCooldown = 1
    SkillCooldown = 1
    ScrollCooldown = 3
    InactivityReset = 6
    IdleTeleport = 1
    FailedTtl = 3
    RepeatedTtl = 5
    StallWindow = 3
    ExploreBudget = 1
    EscapingWait = 2
    KillConfirm = 2
    WalkStuckWait = 1
    RecoveryWait = 2
    NoProgress = 4
    Lapses = {1, 2}
    ScrollNamed = TRUE
    SkillSet = FALSE
PROPERTY CrisesEnd
