SPECIFICATION HSpec
CONSTANTS
    Targets = {t1, t2}
    NoTarget = none
    AttackCooldown = 1
    SkillCooldown = 1
    ScrollCooldown = 4
    InactivityReset = 6
    IdleTeleport = 1
    FailedTtl = 3
    RepeatedTtl = 4
    StallWindow = 3
    ExploreBudget = 1
    EscapingWait = 2
    KillConfirm = 2
    WalkStuckWait = 1
    RecoveryWait = 2
    NoProgress = 4
    Lapses = {1}
    ScrollNamed = TRUE
    SkillSet = TRUE
INVARIANT FutileAttackEnds
INVARIANT RejectedIsLeftAlone
INVARIANT WalksOnlyWhileTravelling
PROPERTY ScrollsAreSpaced
PROPERTY RetreatIsPassive
PROPERTY InactivityNeverLingers
SYMMETRY TargetSymmetry
