\* Manual review, several runs in one process, a failing drift check, midnight; no
\* storage error and no stop.
SPECIFICATION PFairSpec
CONSTANTS
    p1 = p1
    p2 = p2
    r1 = r1
    r2 = r2
    r3 = r3
    s1 = s1
    s2 = s2
    Procs <- OneProc
    Plans = {"t1"}
    Makers <- ThreeRuns
    Runs <- ThreeRuns
    NoRun = NoRun
    NoReport = NoReport
    NoJob = NoJob
    MaxPerDay = 2
    DateOf <- DayPerUnit
    Faults = {}
    MaxTime = 1
    MaxStarts = 1
    MaxJobs = 3
    Scripts <- OneScript
    Envs = {"0"}
    Publishers = {"review", "publish"}
    Checker = "injected"
    HasLoadMetrics = FALSE
    DriftMin = 1
    Threshold = 2
    Batch = 2
    Errors = {"tts", "disk", "train"}
PROPERTY RunEnds
CHECK_DEADLOCK FALSE
