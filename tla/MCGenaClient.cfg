CONSTANTS
    Sids = {s1}
    Threads = {t1, t2, t3}
    NoSid = NoSid
    NoThread = NoThread
    MaxEvents = 3
    MaxClients = 2
    Faults = {"copy", "timer", "handover"}
SPECIFICATION Spec
SYMMETRY MCSymmetry
CHECK_DEADLOCK FALSE
INVARIANTS
    KeptEventsAccepted
    RenewalPending
    RenewalsSound
