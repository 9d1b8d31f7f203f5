SPECIFICATION LibrariesSpec
CONSTANTS
    c1 = c1
    c2 = c2
    c3 = c3
    Calls = {c1, c2, c3}
    Requests = {0, 1, 3, 4}
    Rates = {1}
    Rate = 2
    Burst = 6
    TicksPerSecond = 4
    SizeModulus = 32
    MaxElapsed = 6
    t1 = t1
    t2 = t2
    m1 = m1
    m2 = m2
    Threads = {t1, t2}
    Names = {m1, m2}
    Values = {1, 2}
    Durations = {2, 5}
    Sizes = {0, 7}
    Ops = {"incrementCounter", "setGauge", "recordLatency", "recordBytes",
           "get", "reset", "toString"}
    MaxCalls = 4
    MaxTime = 2
    x1 = x1
    x2 = x2
    x3 = x3
    r1 = r1
    r2 = r2
    Transactions = {x1, x2, x3}
    Rows = {r1, r2}
    Shared = FALSE
    Careless = FALSE
INVARIANTS
    ReportIsSnapshot RateSinceFirstByte AllOrNothing
PROPERTY
    IsTokenBucket
CHECK_DEADLOCK FALSE
