\* Two handlers under way at once, two events of the user, no older runtime or one in one
\* of seven states, one commit about the jobs and one request that fails.
SPECIFICATION FairSpec
CONSTANTS
    Handlers = {1, 2}
    Idle = Idle
    NoView = NoView
    OlderRuntimes <- SomeRows
    MaxRuntimes = 2
    MaxEvents = 2
    MaxCommits = 1
    MaxFaults = 1
INVARIANTS
    TypeOK
    LockHasReason
    SelectionIsShown
    PanelsAgree
PROPERTIES
    PollingEnds
CHECK_DEADLOCK FALSE
