CONSTANTS
    Events = {e1, e2, e3}
    NoEvent = NoEvent
    TimeOuts <- MCTimeOuts
    MaxId = 2
    MaxTime = 2
    ScheduleOutcomes = {"queued", "refused"}
SPECIFICATION FairSpec
CHECK_DEADLOCK FALSE
INVARIANTS
    TimerSound
PROPERTIES
    RemovesOwnEvent
    ImplementsTimerService
    DueEventFires
    ThreadEnds
