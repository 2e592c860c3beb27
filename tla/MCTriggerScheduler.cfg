CONSTANTS
    Jobs <- MCJobs
    Payloads = {t1, g1}
    Generations = {g1}
    Backends = {b1, b2}
    MaxFaults = 1
    Trigs = {t1}
    Schedules <- MCSchedules
    NextAt <- MCNextAt
    MaxTime = 3
    Grace = 1
    MaxEdits = 1
SYMMETRY MCSymmetry
SPECIFICATION Spec
INVARIANTS TrigTypeOK OncePerWindow OneJobPerFault
PROPERTY RunsAtMostOnce
CHECK_DEADLOCK FALSE
