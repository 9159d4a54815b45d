SPECIFICATION Spec
CONSTANTS
    Events = {e1, e2}
    RecordBytes = 2
    SegmentLimit = 4
    MaxSequence = 5
    Endings = {"power"}
    None = None
INVARIANTS
    CrashLeavesOnlyTornTail
    DefiniteMeansAbsent
    LocateAgreesWithReplay
PROPERTIES
    ImplementsDurableLog
