CONSTANTS
    Threads = {t1, t2}
    Jobs = {j1, j2, j3}
    Waiters = {w1}
    NoJob = NoJob
    MaxChoices <- MCMaxChoices
    DefMax = 2
    Limit = 2
SPECIFICATION FairSpec
CHECK_DEADLOCK FALSE
INVARIANTS
    NumThreadsExact
    NobodyStranded
    DestroyedQuiescent
PROPERTIES
    ImplementsJobQueue
    QueueDrains
    DtorTerminates
