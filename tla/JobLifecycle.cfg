SPECIFICATION Spec
CONSTANTS
    Jobs = {j1, j2}
    Allocations = {a1, a2}
    Operations = {o1, o2}
    Workers = {w1, w2}
    EventSequences = {1, 2}
    None = None
SYMMETRY Symmetry
INVARIANTS
    SnapshotStaysValid
    ReplayReproducesEveryTurn
    OutcomeHasOneCause
    EveryWaitIsWatched
    DuplicateFactsAreIdempotent
PROPERTIES
    FirstCauseIsFinal
    ClosedIsStable
