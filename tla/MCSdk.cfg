CONSTANTS
    Devs = {d1, d2}
    Clis = {k1}
    App = App
    Main = Main
    Workers = {w1}
    NUM_HANDLE = 4
    MaxEvents = 1
    MaxPackets = 1
    NoReg = NoReg
    NoThread = NoThread
    Faults = {"init", "schedule", "listener", "register"}
SPECIFICATION Spec
CHECK_DEADLOCK FALSE
INVARIANTS
    HandlesSound
    DevicesWhole
    RefreshPending
PROPERTIES
    FinishReturns
