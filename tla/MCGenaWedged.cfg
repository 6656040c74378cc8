CONSTANTS
    NoJob = NoJob
    Sids = {s1}
    Workers = {w1, w2}
    MaxKey = 3
    MaxEvents = 3
    TimeOuts = {0}
    MaxTime = 1
    ScheduleOutcomes = {"queued"}
    Faults = {"copy"}
    SubscriptionMaxima <- MCNoMaxima
    TimeOutMaxima <- MCNoMaxima
SPECIFICATION FairSpec
CHECK_DEADLOCK FALSE
PROPERTIES
    NotifyJobsEnd
