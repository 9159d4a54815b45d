SPECIFICATION Spec
CONSTANTS
    Jobs = {j1}
    Allocations = {a1}
    Operations = {o1}
    Workers = {w1}
    EventSequences = {1}
    None = None
PROPERTIES
    CleanupIsMonotonic
