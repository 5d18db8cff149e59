SPECIFICATION FairSpec
CONSTANTS
    m1 = m1
    p1 = p1
    p2 = p2
    p3 = p3
    w1 = w1
    w2 = w2
    h1 = h1
    Messages = {m1}
    Passes = {p1, p2}
    Callers = {m1, p1, p2}
    Webhooks = {w1}
    Hosts = {h1}
    HostOf <- MCHostOf
    MaxFails = 2
    Cooldown = 2
    CallTime = 1
    Window = 1
    Cap = 1
    Batch = 1
    MaxRetries = 2
    MaxLogs = 2
    MaxEvents = 1
PROPERTIES EveryRetryEnds
CHECK_DEADLOCK FALSE
