\* A report without metadata.
SPECIFICATION TerminalSpec
CONSTANTS
    Jobs = {j1}
    Workers = {w1, w2}
    Claims = {c1, c2}
    Calls = {k1, k2}
    Failures <- AnyFailure
    NoWorker = NoWorker
    NoClaim = NoClaim
    NoCall = NoCall
    LeaseTimeouts = {1}
    LongestTimeout = 1
    MaxExtensions = 1
    Concurrencies = {1}
    Healths = {"HEALTHY"}
    MaxClock = 1
    MaxLag = 0
SYMMETRY Symmetry
INVARIANTS
    OmittedFieldsAreValid
CHECK_DEADLOCK FALSE
