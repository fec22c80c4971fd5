\* The two containers of deploy.sh on one database, ending and restarting at
\* every point; saves, loads and deletes may fail.  Two days, duplicate plan ids.
SPECIFICATION Spec
CONSTANTS
    p1 = p1
    p2 = p2
    Procs <- TwoProcs
    Plans = {"t1", "t2"}
    Makers = {"m"}
    NoJob = NoJob
    MaxPerDay = 1
    DateOf <- DayPerUnit
    Faults = {"save", "load", "delete", "crash"}
    MaxTime = 1
    MaxStarts = 3
    MaxJobs = 2
SYMMETRY ProcSymmetry
INVARIANTS TypeOK AtMostOnce DailyLimit SavedUntilHanded
CHECK_DEADLOCK FALSE
