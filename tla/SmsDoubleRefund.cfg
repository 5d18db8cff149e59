SPECIFICATION Spec
CONSTANTS
    Messages = {m1}
    Androids = {d1}
    Modems = {}
    Aeum = {}
    NoDevice = NoDevice
    Unresolved = Unresolved
    Handlers = {h1}
    NoTask = NoTask
    SmsLimit = 1
    SMSMaxRetries = 1
    MaxReports = 2
    MaxFaults = 0
    AllowAgeing = FALSE
    AllowDeviceChanges = FALSE
    Overlap = FALSE
    LateTickles = TRUE
INVARIANT RefundAtMostOnce
CHECK_DEADLOCK FALSE
