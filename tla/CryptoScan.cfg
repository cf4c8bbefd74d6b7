CONSTANTS
    o1 = o1
    o2 = o2
    x1 = x1
    s1 = s1
    s2 = s2
    a1 = a1
    r1 = r1
    m1 = m1
    m2 = m2
    None = None
    Orders = {o1, o2}
    Transfers = {x1}
    Scanners = {s1, s2}
    Admins = {a1}
    Readers = {r1}
    Amounts = {m1, m2}
    Window = 1
    Confirmations = 1
    Batch = 0
    Rewind = 0
    MaxHeight = 3
    LockingReads = TRUE
    Failures = TRUE
CHECK_DEADLOCK FALSE
SPECIFICATION Spec
SYMMETRY Symmetry
INVARIANTS
    CreditsExact
    AutoCreditBacked
    ScannedIsRecorded
