\* Bandit, metrics, alerts, sketches, filters and evidence, one at a time.
SPECIFICATION LSpec
CONSTANTS
    Niches <- MCNiches
    Fallback <- MCFallback
    LearnRewards <- MCLearnRewards
    TableRewards <- MCTableRewards
    Bonus <- Bonuses
    Announced <- MCAnnounced
    Texts <- MCTexts
    Filter <- MCFilter
    Lower <- MCLower
    Phrases <- MCPhrases
    Scripts <- MCScripts
    Replacement <- MCReplacement
    Odds <- MCOdds
    Prior <- MCPrior
    Fields <- MCFields
    Hashes <- MCHashes
    LogHashes <- MCLogHashes
    Features = {"f1", "f2", "f3"}
    Space = 0
    MaxTurns = 9
    RunAlpha = 50
    RunDefault = 30
    Values = {0, 4, 8}
    Weight = 3
    Rates = {0, 10, 20}
    Signals = {0, 1000, 2000}
    Averages = {0, 500}
    Variants = {"A", "B", "C"}
    Inconclusive = "inconclusive"
    MinImpressions = 8
    Ratios = {0, 500, 2000}
    LogViews = {0, 500}
    Registers = {0, 1, 2, 3}
    HashBits = 3
    HashAlpha = 673
    Top = 12
    NoArm = NoArm
    NoVideo = NoVideo
    Idle = Idle
    Videos = {v1, v2}
    Statuses = {"ok", "error", "dry_run", "blocked"}
    Names = {"ctr", "views"}
    Items = {"a", "b", "c", "d"}
    LearnPulls = 7
    TablePulls = 3
    MaxRecords = 4
    MaxPosts = 4
    MaxTime = 4
    MaxViews = 1
    MaxRows = 2
    Day = 1
    Horizon = 3
    MaxStats = 3
    MaxCount = 4
    MaxArtifacts = 4
    MaxPending = 2
    MinAge = 1
    MaxRetries = 1
    Limit = 2
    Cooldown = 2
    WindowSize = 2
    Scorers = {"p1", "p2"}
    MaxUpdates = 2
    MaxShapes = 3
    MaxStream = 5
SYMMETRY Symmetry
INVARIANTS NichesLearn MetricsTrue AlertsSpaced SketchOfSet GateHolds
CHECK_DEADLOCK FALSE
