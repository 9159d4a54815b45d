CONSTANTS
    Jobs = {j1}
    Allocations = {a1}
    Operations = {o1}
    Workers = {w1}
    EventSequences = {1}
    None = None
    max_jobs = 1
    normal_capacity = 2
    completion_capacity = 21
    History <- NoHistory
    malformed = None
    first = None
    Inputs <- LaunchInputs
    Environment = {"timer"}
    MaxOutstanding = 2
    MaxLeases = 0
    MaxSequence = 9
    MaxGeneration = 4
SPECIFICATION Spec
INVARIANTS
    EveryWaitHasItsGate
    AckFollowsTerminalCommit
    FailureHasCause
