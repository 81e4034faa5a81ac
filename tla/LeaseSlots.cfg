\* Two jobs and two workers that change concurrency and health.
SPECIFICATION ServiceSpec
CONSTANTS
    Jobs = {j1, j2}
    Workers = {w1, w2}
    Claims = {c1, c2}
    NoWorker = NoWorker
    NoClaim = NoClaim
    LeaseTimeouts = {1}
    LongestTimeout = 2
    MaxExtensions = 0
    Concurrencies = {1, 2}
    Healths = {"HEALTHY", "DRAINING"}
    MaxClock = 0
    MaxLag = 0
SYMMETRY Symmetry
INVARIANTS
    SlotAccounting
    SettledTogether
PROPERTIES
    NoLeaseWithoutCapacity
