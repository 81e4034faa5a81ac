\* Two requests that may overlap each other and the editors; one of them dispatches,
\* and any one of its jobs is followed.
SPECIFICATION Spec
CONSTANTS
    r1 = r1
    r2 = r2
    Runs = {r1, r2}
    MaxPolls = 1
    ExplicitVersion <- Auto
    JobKinds <- OneDispatched
    Indexes = {1, 2}
    MaxSequences = 2
    MaxSpus = 1
    MaxVbus = 1
INVARIANTS
    TypeOK
    LaterVersionsDiffer
CHECK_DEADLOCK FALSE
