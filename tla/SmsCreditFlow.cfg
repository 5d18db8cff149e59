SPECIFICATION Spec
CONSTANTS
    Messages = {m1}
    Androids = {d2}
    Modems = {d1}
    Aeum = {a1}
    NoDevice = NoDevice
    Unresolved = Unresolved
    Handlers = {h1}
    NoTask = NoTask
    SmsLimit = 1
    SMSMaxRetries = 2
    MaxReports = 3
    MaxFaults = 2
    AllowAgeing = TRUE
    AllowDeviceChanges = TRUE
    Overlap = FALSE
    LateTickles = FALSE
INVARIANTS TypeOK ClaimedOncePerAttempt
PROPERTIES CreditsImplemented NoFreeResend NoResendAfterDeliveryFailure DeliveredFinal
CHECK_DEADLOCK FALSE
