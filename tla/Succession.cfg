CONSTANTS
    Jobs = {j1, j2, j3, j4}
    Allocations = {a1}
    Operations = {o1}
    Workers = {w1}
    EventSequences = {1}
    None = None
    max_jobs = 2
    normal_capacity = 2
    completion_capacity = 30
    History <- ClosedHistory
    first = j1
    malformed = j4
    Inputs <- ClosingInputs
    Environment = {"restart", "lease"}
    MaxOutstanding = 2
    MaxLeases = 1
    MaxSequence = 9
    MaxGeneration = 5
SYMMETRY Symmetry
SPECIFICATION Spec
INVARIANTS
    PermitsAreExact
    ResidentsAreReplayed
    FailureHasCause
    EntriesKeepTheirSlot
PROPERTIES
    ImplementsJobService
