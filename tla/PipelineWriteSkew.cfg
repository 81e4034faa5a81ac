\* Two tasks that end at the same time.
SPECIFICATION Spec
CONSTANTS
    PipelineSize = 2
    MaxExports = 0
    Codes <- OneCode
    NoCode = NoCode
    MaxCrashes = 0
INVARIANTS
    AllSucceededIsSuccess
CHECK_DEADLOCK FALSE
