SPECIFICATION MCSpec
CONSTANTS
    Victims = {1, 2}
    SelfId = 7
    Ids = {8}
    Others = {9}
    Damages <- DamagesSent
    Timeout = 1
    ClockSize = 3
    TotalSize = 5
    MaxHits = 3
    MaxTargets = 2
    ItemNames = {"stone"}
    Numbers = {"-1", "5"}
    Recipients = {"bob"}
    Suffixes = {"M", "ME", "IA"}
    Rows = 2
    InFile <- FileItems
    Carried = {"b", "c"}
    NoItem = "none"
    MaxChanges = 3
    ListSlots = 3
    Typed = {0, 9}
    NoName = 0
    MaxKeys = 2
    MaxMoves = 4
    Characters = {"a", "b", "c"}
    NoCharacter = "nobody"
    Files = {"fa", "fbc", "fd"}
    FileOf <- CharacterFile
    Fallback = "fd"
    Values = {"d", "x", "y"}
    Default = "d"
    MaxDeeds = 5
    Entities = {1, 2}
    Addresses <- FeetAddresses
    SpriteSteps <- FeetSteps
    LastFrame = 2
    Monsters = {1, 2, 3}
    Facts <- PlanFacts
    HuntRange = 8
    Local = 6
    AttackReach = 7
    MaxFailed = 1
    Grounds <- NoGround
    GoalLimit = 1
    MaxVisits = 1
    MaxTrail = 1
    HuntTargets = {1, 2}
    Skills = {"A"}
    Gate <- SkillGates
    SkillRange <- SkillRanges
    BasicRange = 1
    Configs <- DispatchConfigs
    Views <- DispatchViews
    FallbackGate = 2
    Cooldown = 2
    MinStreak = 2
    MaxSteps = 6
    MaxTime = 4
    Chunks = {1, 2, 3}
    Creatures = {2, 3, 4}
    NamesOf <- CreatureNames
    ShownName <- FirstNames
    Hostile = {3, 4}
    Queries = {"me", "mine", "you bear"}
    Prefixes <- QueryBegins
    Maps = {1, 2}
    MapTiles = {"a", "b"}
\* What has used up its bound stops.
CHECK_DEADLOCK FALSE
INVARIANT PatchesSound
INVARIANT DrawnRight
INVARIANT SettingsAreKept
INVARIANT TargetsAreRight
INVARIANT ComputedRight
PROPERTY StepsKeepToTheirs
PROPERTY OthersWorkStays
