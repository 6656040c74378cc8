CONSTANTS
    Threads = {t1}
    Jobs = {j1, j2}
    Waiters = {w1}
    NoJob = NoJob
    MaxChoices = {1}
    DefMax = 1
    Limit = 1
SPECIFICATION FairSpec
CHECK_DEADLOCK FALSE
PROPERTIES
    AcceptedJobRuns
