SPECIFICATION Spec
CONSTANTS
    w1 = w1
    w2 = w2
    f1 = f1
    f2 = f2
    f3 = f3
    s1 = s1
    None = None
    Worker = {w1, w2}
    Fiber = {f1, f2, f3}
    Fd = {s1}
    MsLength = 2
    Setups <- MCSetups
CHECK_DEADLOCK FALSE
INVARIANT TypeOK WokenOnce StoppedIsDone
PROPERTY NotEarly StopReturns
