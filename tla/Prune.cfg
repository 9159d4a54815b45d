SPECIFICATION Spec
CONSTANTS
    Jobs = {j1, j2, j3}
    SegmentRecords = 2
    MaxRecords = 6
    None = None
SYMMETRY Symmetry
INVARIANTS
    PruneKeepsWhatReplayNeeds
    InterruptedPruneResumes
    ReportedMovesAreSettled
    PrunableLengthIsLongest
