\* One date, two starts of the program, two jobs.
SPECIFICATION Spec
CONSTANTS
    p1 = p1
    p2 = p2
    Procs <- OneProc
    Plans = {"t1", "t2"}
    Makers = {"m"}
    NoJob = NoJob
    MaxPerDay = 1
    DateOf <- OneDay
    Faults = {"crash"}
    MaxTime = 0
    MaxStarts = 2
    MaxJobs = 2
INVARIANT LimitPerDate
CHECK_DEADLOCK FALSE
