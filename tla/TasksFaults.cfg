CONSTANTS
    v1 = v1
    v2 = v2
    g1 = g1
    s1 = s1
    p1 = p1
    p3 = p3
    p2 = p2
    f1 = f1
    NoTask = NoTask
    VideoTasks = {v1}
    GeminiTasks = {g1}
    SunoTasks = {}
    Pollers = {p1,p2}
    Fetchers = {f1}
    Faults = {"crash", "db", "fund", "token", "channel", "garbled", "insert"}
    Quotas = {2}
    SettleAmounts = {0, 3}
    LegacyTasks = {g1}
    MaxTasks = 2
    MaxExtra = 0
    TaskTimeout = TRUE
SPECIFICATION Spec
CHECK_DEADLOCK FALSE
SYMMETRY Symmetry
INVARIANTS
    ChargesExact
