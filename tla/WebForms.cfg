SPECIFICATION Spec
CONSTANTS
    MaxRecords = 3
    MaxSends = 2
    MaxEvents = 2
INVARIANTS TypeOK KeyedRowKeepsItsRecord SendsOnlyTyped DeviceKeyIsNotLost OneSendAtATime
PROPERTIES TextSurvivesRefetch
CHECK_DEADLOCK FALSE
