\* The gate that Pipeline builds, two runs with equal scripts.
SPECIFICATION PSpec
CONSTANTS
    p1 = p1
    p2 = p2
    r1 = r1
    r2 = r2
    r3 = r3
    s1 = s1
    s2 = s2
    Procs <- OneProc
    Plans = {"t1"}
    Makers <- TwoRuns
    Runs <- TwoRuns
    NoRun = NoRun
    NoReport = NoReport
    NoJob = NoJob
    MaxPerDay = 2
    DateOf <- OneDay
    Faults = {}
    MaxTime = 0
    MaxStarts = 1
    MaxJobs = 3
    Scripts <- TwoScripts
    Envs = {"1"}
    Publishers = {"built"}
    Checker = "similarity"
    HasLoadMetrics = TRUE
    DriftMin = 2
    Threshold = 2
    Batch = 2
    Errors = {}
INVARIANT RepeatsBlocked
CHECK_DEADLOCK FALSE
