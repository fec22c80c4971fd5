\* Uploads: two calls with any video, report, thumbnail and delay; a bucket of one
\* token that is full again within the clock's range; errors and restarts anywhere.
\* Speech: two containers on one quota file; a service that reads the whole text and
\* one that is asked per chunk, midnight, failures and stops anywhere.
SPECIFICATION MFairSpec
CONSTANTS
    MaxPerDay = 1
    Day = 2
    MaxTime = 2
    Calls = {"c1", "c2"}
    Chunks = 2
    MaxRetries = 1
    Procs = {"p1", "p2"}
    Limited = {"ttsmaker"}
    Limit <- TwoEach
    Period <- OneDayEach
    MaxDay = 1
    Chain <- MakerThenEdge
    Chunked = {"ttsmaker", "edge-tts"}
    Elsewhere = {}
    Texts = {1, 2}
    MaxCalls = 3
    Faults = {"request", "disk", "locked", "stop"}
INVARIANTS UTypeOK WindowBound TokensAreForUploads RetryBudget ResultIsTrue STypeOK BudgetKept SpokenIsPaid
PROPERTIES KeepsGuard UploadEnds SpeakEnds
CHECK_DEADLOCK FALSE
