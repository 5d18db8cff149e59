SPECIFICATION Spec
CONSTANTS
    Messages = {m1, m2}
    Androids = {}
    Modems = {d1}
    Aeum = {a1}
    NoDevice = NoDevice
    Unresolved = Unresolved
    Handlers = {h1}
    NoTask = NoTask
    SmsLimit = 2
    SMSMaxRetries = 1
    MaxReports = 2
    MaxFaults = 1
    AllowAgeing = FALSE
    AllowDeviceChanges = TRUE
    Overlap = TRUE
    LateTickles = TRUE
SYMMETRY Symmetry
INVARIANTS QuotaWithinLimit NoOvercharge BilledOncePerAttempt
CHECK_DEADLOCK FALSE
