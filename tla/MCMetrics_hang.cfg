SPECIFICATION MetricsFairSpec
CONSTANTS
    t1 = t1
    t2 = t2
    m1 = m1
    Threads = {t1, t2}
    Names = {m1}
    Values = {1}
    Durations = {2}
    Sizes = {7}
    Ops = {"recordBytes", "incrementCounter", "toString"}
    MaxCalls = 3
    MaxTime = 1
PROPERTY
    CallsReturn
CHECK_DEADLOCK FALSE
