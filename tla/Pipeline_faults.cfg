\* Two containers on one database and one clock, or one that ends at any point and
\* starts again; storage, disk and upload errors, failing saves and deletes, dry and real
\* starts and two kinds of publisher mixed.
SPECIFICATION PSpec
CONSTANTS
    p1 = p1
    p2 = p2
    r1 = r1
    r2 = r2
    r3 = r3
    s1 = s1
    s2 = s2
    Procs <- TwoProcs
    Plans = {"t1"}
    Makers <- TwoRuns
    Runs <- TwoRuns
    NoRun = NoRun
    NoReport = NoReport
    NoJob = NoJob
    MaxPerDay = 1
    DateOf <- OneDay
    Faults = {"save", "delete", "crash"}
    MaxTime = 0
    MaxStarts = 2
    MaxJobs = 3
    Scripts <- TwoScripts
    Envs = {"0", "1"}
    Publishers = {"built", "upload"}
    Checker = "injected"
    HasLoadMetrics = TRUE
    DriftMin = 1
    Threshold = 2
    Batch = 1
    Errors = {"storage", "disk", "upload", "orphan"}
SYMMETRY TwoRunTwoProcSymmetry
INVARIANTS PTypeOK OkIsRecorded OnlyPassedContent BacklogBounded UploadedOnce
PROPERTY KeepsScheduler
CHECK_DEADLOCK FALSE
