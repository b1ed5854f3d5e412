CONSTANTS
    t1 = t1  t2 = t2  t3 = t3  idle = idle  dpcthread = dpcthread
    User = {t1, t2, t3}
    Main = t1
    Idle = idle
    Dpc = dpcthread
    Prio <- PrioHigh
    Mutex = {"m"}
    Event = {}
    Auto = {}
    Quantum = 2
    Delays = {1}
    Timeouts = {}
    Destroyed = {}
    Resumable = {"SUSPENDED"}
SPECIFICATION FairSpec
PROPERTIES SchedulerSound ImplementsFifoLock DeadAreFreed
