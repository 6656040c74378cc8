CONSTANTS
    NoJob = NoJob
    Sids = {s1, s2}
    Workers = {w1, w2}
    MaxKey = 3
    MaxEvents = 2
    TimeOuts = {1}
    MaxTime = 3
    ScheduleOutcomes = {"queued", "refused"}
    Faults = {"prep", "struct", "copy", "respond"}
    SubscriptionMaxima <- MCSubscriptionMaxima
    TimeOutMaxima <- MCNoMaxima
SPECIFICATION Spec
CHECK_DEADLOCK FALSE
SYMMETRY MCSymmetry
INVARIANTS
    SubscriptionsSound
    BuffersSafe
PROPERTIES
    ImplementsEventStream
