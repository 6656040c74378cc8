CONSTANTS
    NoJob = NoJob
    Sids = {s1, s2}
    Workers = {w1, w2}
    MaxKey = 3
    MaxEvents = 3
    TimeOuts = {1}
    MaxTime = 1
    ScheduleOutcomes = {"queued"}
    Faults = {}
    SubscriptionMaxima <- MCSubscriptionMaxima
    TimeOutMaxima <- MCNoMaxima
SPECIFICATION Spec
CHECK_DEADLOCK FALSE
PROPERTIES
    RefusedRenewalRemovesNothing
