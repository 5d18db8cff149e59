SPECIFICATION FairSpec
CONSTANTS
    Messages = {m1}
    Androids = {d1}
    Modems = {}
    Aeum = {a1}
    NoDevice = NoDevice
    Unresolved = Unresolved
    Handlers = {h1}
    NoTask = NoTask
    SmsLimit = 1
    SMSMaxRetries = 1
    MaxReports = 2
    MaxFaults = 1
    AllowAgeing = TRUE
    AllowDeviceChanges = TRUE
    Overlap = TRUE
    LateTickles = TRUE
PROPERTY NeverInLimbo
CHECK_DEADLOCK FALSE
