SPECIFICATION Spec
CONSTANTS
    Events = {e1, e2}
    RecordBytes = 2
    SegmentLimit = 4
    MaxSequence = 4
    Endings = {"process", "power"}
    None = None
INVARIANTS
    CrashLeavesOnlyTornTail
