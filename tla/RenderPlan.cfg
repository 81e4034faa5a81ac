\* One request and the editors, with two units that may carry a prompt.
SPECIFICATION Spec
CONSTANTS
    r1 = r1
    r2 = r2
    Runs = {r1}
    MaxPolls = 2
    ExplicitVersion <- Auto
    JobKinds <- AllDispatched
    Indexes = {1, 2}
    MaxSequences = 3
    MaxSpus = 2
    MaxVbus = 1
INVARIANTS
    FirstPromptIsRendered
    VideoOutcomeIsReal
CHECK_DEADLOCK FALSE
