\* One process, ending and restarting, with failing saves: the scheduler
\* implements JobQueue, and nothing starves.
SPECIFICATION FairSpec
CONSTANTS
    p1 = p1
    p2 = p2
    Procs <- OneProc
    Plans = {"t1", "t2"}
    Makers = {"m"}
    NoJob = NoJob
    MaxPerDay = 1
    DateOf <- DayPerUnit
    Faults = {"save", "crash"}
    MaxTime = 2
    MaxStarts = 2
    MaxJobs = 3
PROPERTIES ImplementsJobQueue NoStarvation
CHECK_DEADLOCK FALSE
