\* One stored job; the process may end between the delete and the return.
SPECIFICATION Spec
CONSTANTS
    p1 = p1
    p2 = p2
    Procs <- OneProc
    Plans = {"t1"}
    Makers = {"m"}
    NoJob = NoJob
    MaxPerDay = 1
    DateOf <- OneDay
    Faults = {"crash"}
    MaxTime = 0
    MaxStarts = 2
    MaxJobs = 1
INVARIANT SurvivesRestarts
CHECK_DEADLOCK FALSE
