CONSTANTS
    Jobs <- MCJobs
    Payloads = {t1, g1}
    Generations = {g1}
    Backends = {b1, b2}
    MaxFaults = 1
    Trigs = {t1}
    Schedules = {1}
    NextAt <- MCNextAt
    MaxTime = 2
    Grace = 1
    MaxEdits = 1
    SlackIds = {s1, s2}
    MaxDeliveries = 2
    MaxSlackFaults = 1
SPECIFICATION ProgressSpec
PROPERTIES QueueDrains DueIsFired LoopComesBack
CHECK_DEADLOCK FALSE
