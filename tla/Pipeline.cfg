\* Two jobs, one export; workers may overtake the compile request, one may be killed.
SPECIFICATION FairSpec
CONSTANTS
    PipelineSize = 2
    MaxExports = 1
    Codes <- TwoCodes
    NoCode = NoCode
    MaxCrashes = 1
INVARIANTS
    TypeOK
    NoFalseSuccess
    ErrorCodeIsReal
    FullyDispatchedMeansSent
    FailureIsReported
PROPERTIES
    TasksEnd
    SuccessIsFinal
    StatusesAdvance
CHECK_DEADLOCK FALSE
