CONSTANTS
    t1 = t1  t2 = t2  t3 = t3
    Thread = {t1, t2, t3}
    Boot = t1
    MaxDepth = 2
SPECIFICATION TimeoutSpec
INVARIANT PreemptsRunningOnly
