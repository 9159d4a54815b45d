CONSTANTS
    Jobs = {j1}
    Allocations = {a1}
    Operations = {o1}
    Workers = {w1}
    EventSequences = {1}
    None = None
    max_jobs = 1
    normal_capacity = 2
    completion_capacity = 21
    History <- NoHistory
    malformed = None
    first = None
    Inputs <- ShutdownInputs
    Environment = {"shutdown", "timer", "lease", "retain", "latch", "journal_failure", "stray"}
    MaxOutstanding = 2
    MaxLeases = 2
    MaxSequence = 6
    MaxGeneration = 2
SPECIFICATION FairSpec
INVARIANTS
    PermitsAreExact
    SealsWhenQuiet
PROPERTIES
    SealedIsFinal
    EveryEntryCompletes
    FailureSeals
CHECK_DEADLOCK FALSE
