CONSTANTS
    v1 = v1
    v2 = v2
    g1 = g1
    s1 = s1
    p1 = p1
    p3 = p3
    p2 = p2
    f1 = f1
    NoTask = NoTask
    VideoTasks = {v1}
    GeminiTasks = {}
    SunoTasks = {s1}
    Pollers = {p1,p2,p3}
    Fetchers = {}
    Faults = {}
    Quotas = {2}
    SettleAmounts = {0, 3}
    LegacyTasks = {}
    MaxTasks = 1
    MaxExtra = 1
    TaskTimeout = TRUE
SPECIFICATION FairSpec
CHECK_DEADLOCK FALSE
PROPERTIES
    FinishedIsFinal
    TasksEnd
    FailuresRefunded
