\* Trends, script, music, footage and text, every answer and error of the services.
SPECIFICATION MSpec
CONSTANTS
    Keys = {"composite_trends", "b", "c"}
    CacheKey = "composite_trends"
    NoValue = NoValue
    Capacity = 2
    Ttl = 1
    MaxTime = 2
    MaxPuts = 2
    Titles = {"t1", "t2"}
    Top = 2
    Weight <- SourceWeights
    Budget = 1
    Window = 2
    MaxRetries = 1
    MaxSearches = 2
    MaxFetches = 2
    Sections <- ThreeSections
    SectionWeight <- Weights
    MinTokens = 64
    Totals = {1, 100, 192, 236, 237, 238, 240, 600, 1200, 2048}
    Keywords <- TwoKeywords
    MaxPerSection = 1
    Lengths = {0, 2}
    MinWords = 5
    LlmRetries <- Retries
    MaxScripts = 1
    Chains <- MusicChains
    DailyLimit = 1
    MaxPolls = 2
    MaxSongs = 2
    PexelsClips = {"c1", "c2"}
    PixabayClips = {"d1", "d2"}
    Pixels <- Sizes
    Count = 2
    MaxPlans = 2
    MaxChars = 4
    Texts <- ShortTexts
    Workers = {"w1", "w2"}
    Plans = {"p", "q"}
    MaxRuns = 3
INVARIANTS TypesOK ServesLru SearchWindow MergedIsBest ScriptIsWhole RequestsBounded TokensShared SunoWithinLimit FilesAreWhole PiecesFit
PROPERTY ProductionEnds
CHECK_DEADLOCK FALSE
