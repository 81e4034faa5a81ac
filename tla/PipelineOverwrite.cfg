\* The last commit of the compile request against fast workers.
SPECIFICATION Spec
CONSTANTS
    PipelineSize = 2
    MaxExports = 0
    Codes <- OneCode
    NoCode = NoCode
    MaxCrashes = 0
INVARIANTS
    DispatchedAwaitsExecution
CHECK_DEADLOCK FALSE
