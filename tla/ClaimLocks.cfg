\* A worker with three requests at a time and a second one that is new, two jobs of
\* which the second worker is capable of one.
SPECIFICATION FairSpec
CONSTANTS
    a = a
    b = b
    a1 = a1
    a2 = a2
    a3 = a3
    b1 = b1
    Jobs = {1, 2}
    Workers = {a, b}
    NoWorker = NoWorker
    Sessions = {a1, a2, a3, b1}
    NoSession = NoSession
    WorkerOf <- AThriceBOnce
    Registered = {b}
    Capacity <- TwoAndOne
    CanDo <- BothOrSecond
    Window = 1
PROPERTIES
    FollowsTheRules
    RequestsEnd
CHECK_DEADLOCK FALSE
