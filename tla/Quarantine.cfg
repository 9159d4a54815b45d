SPECIFICATION QSpec
CONSTANTS
    Events = {e1, e2}
    RecordBytes = 3
    SegmentLimit = 6
    MaxSequence = 2
    Endings = {"process", "power"}
    None = None
INVARIANTS
    CommittedIsDurable
    EvidenceIsKept
    ReportedCutIsDurable
