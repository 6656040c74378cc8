CONSTANTS
    NoJob = NoJob
    Sids = {s1}
    Workers = {w1, w2, w3}
    MaxKey = 3
    MaxEvents = 6
    TimeOuts = {2}
    MaxTime = 1
    ScheduleOutcomes = {"queued"}
    Faults = {}
    SubscriptionMaxima <- MCNoMaxima
    TimeOutMaxima <- MCTimeOutMaxima
SPECIFICATION FairSpec
CHECK_DEADLOCK FALSE
PROPERTIES
    ImplementsEventStream
    InitialEventFirst
    EventsSent
    NotifyJobsEnd
