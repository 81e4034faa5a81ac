\* One job, claimed up to twice by two workers; every repository write, while time passes.
SPECIFICATION Spec
CONSTANTS
    Jobs = {j1}
    Workers = {w1, w2}
    Claims = {c1, c2}
    NoWorker = NoWorker
    NoClaim = NoClaim
    LeaseTimeouts = {1}
    LongestTimeout = 1
    MaxExtensions = 1
    Concurrencies = {1}
    Healths = {"HEALTHY"}
    MaxClock = 2
    MaxLag = 1
SYMMETRY Symmetry
INVARIANTS
    TypeOK
    OneActiveLeasePerJob
    ActiveLeaseIsCurrent
    CurrentClaimIsLatest
    LeaseLifetimeBounded
PROPERTIES
    NoResurrection
    OnlyTheLeaseHolderReports
    CancelRequestedIsNeverClaimed
