\* SQLite storage after DriftMin published videos; nothing fails.
SPECIFICATION PSpec
CONSTANTS
    p1 = p1
    p2 = p2
    r1 = r1
    r2 = r2
    r3 = r3
    s1 = s1
    s2 = s2
    Procs <- OneProc
    Plans = {"t1"}
    Makers <- TwoRuns
    Runs <- TwoRuns
    NoRun = NoRun
    NoReport = NoReport
    NoJob = NoJob
    MaxPerDay = 2
    DateOf <- OneDay
    Faults = {}
    MaxTime = 0
    MaxStarts = 1
    MaxJobs = 3
    Scripts <- OneScript
    Envs = {"true"}
    Publishers = {"built"}
    Checker = "similarity"
    HasLoadMetrics = FALSE
    DriftMin = 1
    Threshold = 2
    Batch = 3
    Errors = {}
INVARIANT DriftCheckPasses
CHECK_DEADLOCK FALSE
