CONSTANTS
    t1 = t1  t2 = t2  t3 = t3  idle = idle  dpcthread = dpcthread
    User = {t1, t2}
    Main = t1
    Idle = idle
    Dpc = dpcthread
    Prio <- PrioAbove
    Mutex = {"m"}
    Event = {"e", "a"}
    Auto = {"a"}
    Quantum = 1
    Delays = {}
    Timeouts = {0, 1}
    Destroyed = {"m", "e"}
    Resumable = {"SUSPENDED"}
SPECIFICATION Spec
INVARIANT WaitsSound
CHECK_DEADLOCK FALSE
