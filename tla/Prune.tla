------------------------------- MODULE Prune -------------------------------
(***************************************************************************)
(* PruneClosedPrefix of src/journal/maintenance.cpp on a Journal of Job    *)
(* records, one file-system call per step.  Any call may fail, and the     *)
(* tool or the machine may stop between any two of them.                   *)
(*                                                                         *)
(* A segment is known by the sequence in its name and holds whole records, *)
(* told apart by their Job and by what replay needs of them: "created",    *)
(* "work", or "closed", the record after which core::internal::IsClosed    *)
(* holds.  The records of a sealed segment are durable.  Every entry is a  *)
(* file of its own kind: a segment a regular file, archive/ a directory.   *)
(*                                                                         *)
(* A rename is atomic and survives a crash no earlier rename survives less *)
(* than.  It is settled once archive/ and then the Journal directory have  *)
(* been synced after it; until then power loss may undo it.                *)
(***************************************************************************)
EXTENDS Integers, Sequences, FiniteSetsExt, SequencesExt

CONSTANTS
    Jobs,
    SegmentRecords,   \* records that fill a segment
    MaxRecords,       \* bound: records ever written
    None

ASSUME PruneAssumption ==
    /\ SegmentRecords \in Nat \ {0}
    /\ MaxRecords \in Nat

Kinds == {"created", "work", "closed"}
Records == [job : Jobs, kind : Kinds]

VARIABLES
    directory,   \* segments in the Journal directory: first sequence -> records
    archive,     \* segments in archive/, or None while it does not exist
    pending,     \* the segments of renames not yet settled, in order
    in_archive,  \* how many of them have their new entry synced
    tail,        \* how the last bytes of the Journal stand: "clean", "torn" or "unsynced"
    tool,        \* the running prune, and what the last one reported
    lost         \* power loss has dropped a record that replay had accepted (history)

vars == <<directory, archive, pending, in_archive, tail, tool, lost>>

\* A report is None before the first run; kRefused is kept apart from a conflict over an
\* archived name, and kFailed from a failed verification.
NoTool == [phase |-> "idle", report |-> None, segments |-> <<>>, next_sequence |-> 0, retained |-> 0]

Init ==
    /\ directory = [f \in {} |-> <<>>]
    /\ archive = None
    /\ pending = <<>>
    /\ in_archive = 0
    /\ tail = "clean"
    /\ tool = NoTool
    /\ lost = FALSE

-----------------------------------------------------------------------------
(* Reading a directory of segments.                                        *)

Archived == IF archive = None THEN [f \in {} |-> <<>>] ELSE archive
Merge(a, b) == [f \in DOMAIN a \cup DOMAIN b |-> IF f \in DOMAIN a THEN a[f] ELSE b[f]]
Without(view, fs) == [f \in DOMAIN view \ fs |-> view[f]]
Only(view, fs) == [f \in fs |-> view[f]]
Segments(view) == SetToSortSeq(DOMAIN view, LAMBDA a, b : a < b)
RecordsIn(view) == MapThenSumSet(LAMBDA f : Len(view[f]), DOMAIN view)
Holds(records, j, kind) == \E i \in 1 .. Len(records) : records[i] = [job |-> j, kind |-> kind]
Mentions(records, j) == \E i \in 1 .. Len(records) : records[i].job = j
JobsOf(view) == {j \in Jobs : \E f \in DOMAIN view : Mentions(view[f], j)}
IsClosed(view, j) == \E f \in DOMAIN view : Holds(view[f], j, "closed")

NextSequence(view) ==
    IF DOMAIN view = {} THEN 1 ELSE Max(DOMAIN view) + Len(view[Max(DOMAIN view)])

\* Segments that do not continue the one before, or are empty and not the last, or empty, the
\* only one and not named for sequence 1.
Discontinuous(view) ==
    {f \in DOMAIN view :
        LET before == {g \in DOMAIN view : g < f}
        IN  \/ before # {} /\ f # Max(before) + Len(view[Max(before)])
            \/ view[f] = <<>> /\ f # Max(DOMAIN view)
            \/ view[f] = <<>> /\ before = {} /\ f # 1}

\* Segments with a record of a Job that no segment up to them creates.
NeverCreated(view) ==
    {f \in DOMAIN view :
        \E j \in Jobs : /\ Mentions(view[f], j)
                        /\ \A g \in DOMAIN view : g <= f => ~Holds(view[g], j, "created")}

\* ReplayAll: the first problem in sequence order, where a segment is checked before its
\* records; the torn tail comes last.
ReplayAll(view) ==
    LET misplaced == Discontinuous(view)
        orphaned == NeverCreated(view)
    IN  IF misplaced # {} /\ \A f \in orphaned : Min(misplaced) <= f THEN "corrupt"
        ELSE IF orphaned # {} THEN "never_created"
        ELSE IF tail = "torn" THEN "torn_tail"
        ELSE "replayed"

-----------------------------------------------------------------------------
(* The longest prunable prefix, over segments counted from 0.              *)

Index(view, f) == Cardinality({g \in DOMAIN view : g < f})
Touched(view, j) == {Index(view, f) : f \in {g \in DOMAIN view : Mentions(view[g], j)}}

\* Mutant: a Job blocks up to its last segment, that segment excluded.
BlockEndShort(view, j, highest) ==
    IF IsClosed(view, j) THEN Max(Touched(view, j)) ELSE highest + 1

\* Mutant: an open Job blocks no longer than a closed one.
BlockEndClosed(view, j, highest) == Max(Touched(view, j)) + 1

\* One past the longest prefix a Job blocks.
BlockEnd(view, j, highest) ==
    IF IsClosed(view, j) THEN Max(Touched(view, j)) + 1 ELSE highest + 1

HighestKept(filled) == Max(filled)

\* A Job whose first record is in a prefix blocks it unless the Job is closed and its last
\* record is in it too.  A difference array adds up the Jobs that block each length.
PrunableLength(view) ==
    LET filled == {Index(view, f) : f \in {g \in DOMAIN view : view[g] # <<>>}}
        highest == HighestKept(filled)
        After(j) == Min(Touched(view, j)) + 1
        End(j) == BlockEnd(view, j, highest)
        blocking == {j \in JobsOf(view) : After(j) < End(j)}
        blocked == [k \in 0 .. highest + 1 |->
                       Cardinality({j \in blocking : After(j) = k})
                       - Cardinality({j \in blocking : End(j) = k})]
        running[k \in 0 .. highest] == blocked[k] + (IF k = 0 THEN 0 ELSE running[k - 1])
    IN  IF filled = {} THEN 0 ELSE Max({k \in 0 .. highest : running[k] = 0})

\* The merged views ReplayInterrupted tries: the directory behind the last n archived segments.
Before == {f \in DOMAIN Archived : DOMAIN directory # {} /\ f < Min(DOMAIN directory)}
LastArchived(n) == {f \in Before : Cardinality({g \in Before : g > f}) < n}
MergedView(n) == Merge(directory, Only(Archived, LastArchived(n)))

\* How many archived segments explain the refusal, or 0: every shorter run still misses a
\* creation.
ReplayInterrupted ==
    LET explains == {n \in 1 .. Cardinality(Before) :
                        /\ ReplayAll(MergedView(n)) = "replayed"
                        /\ \A m \in 1 .. n - 1 : ReplayAll(MergedView(m)) = "never_created"}
    IN  IF ReplayAll(directory) # "never_created" \/ explains = {} THEN 0 ELSE Min(explains)

-----------------------------------------------------------------------------
(* PruneClosedPrefix, up to its first change.                              *)

Finish(report) == tool' = [NoTool EXCEPT !.report = report]

\* Mutant: a Journal with nothing to prune is reported at once.
NothingToPruneUnsettled == Finish("nothing_to_do")

NothingToPrune ==
    IF archive = None THEN Finish("nothing_to_do")
    ELSE tool' = [NoTool EXCEPT !.phase = "settle_archive"]

Run(dry_run) ==
    LET archived == ReplayInterrupted
        view == MergedView(archived)
        length == PrunableLength(view)
        segments == SubSeq(Segments(view), archived + 1, length)
        prefix == Only(view, Range(SubSeq(Segments(view), 1, length)))
    IN  /\ tool.phase = "idle"
        /\ IF ReplayAll(view) # "replayed" \/ (archived # 0 /\ length <= archived)
           THEN Finish("refused")
           ELSE IF length = 0 THEN NothingToPrune
           ELSE IF dry_run THEN Finish("planned")
           ELSE tool' = [NoTool EXCEPT
                    !.phase = "archive_directory", !.segments = segments,
                    !.next_sequence = NextSequence(view),
                    !.retained = RecordsIn(view) - RecordsIn(prefix)]
        /\ UNCHANGED <<directory, archive, pending, in_archive, tail, lost>>

SyncArchive == in_archive' = Len(pending) /\ UNCHANGED pending

SyncDirectory ==
    /\ pending' = SubSeq(pending, in_archive + 1, Len(pending))
    /\ in_archive' = 0

-----------------------------------------------------------------------------
(* Archive: the moves, lowest segment first, both directories synced after *)
(* each.                                                                   *)

EnsureDirectory ==
    /\ tool.phase = "archive_directory"
    /\ archive' = Archived
    /\ tool' = [tool EXCEPT !.phase = "archive_entry"]
    /\ UNCHANGED <<directory, pending, in_archive, tail, lost>>

\* archive/ gets its durable entry, and every destination is checked before the first move.
SyncArchiveEntry ==
    /\ tool.phase = "archive_entry"
    /\ SyncDirectory
    /\ IF Range(tool.segments) \cap DOMAIN archive # {} THEN Finish("conflict")
       ELSE tool' = [tool EXCEPT !.phase = "rename"]
    /\ UNCHANGED <<directory, archive, tail, lost>>

\* Mutant: the highest segment of the prefix moves first.
RenameHighestFirst ==
    LET name == tool.segments[Len(tool.segments)]
    IN  /\ tool.phase = "rename"
        /\ archive' = Merge(archive, Only(directory, {name}))
        /\ directory' = Without(directory, {name})
        /\ pending' = Append(pending, name)
        /\ tool' = [tool EXCEPT !.phase = "sync_archive", !.segments = Front(@)]
        /\ UNCHANGED <<in_archive, tail, lost>>

Rename ==
    LET name == Head(tool.segments)
    IN  /\ tool.phase = "rename"
        /\ archive' = Merge(archive, Only(directory, {name}))
        /\ directory' = Without(directory, {name})
        /\ pending' = Append(pending, name)
        /\ tool' = [tool EXCEPT !.phase = "sync_archive", !.segments = Tail(@)]
        /\ UNCHANGED <<in_archive, tail, lost>>

SyncNewEntry ==
    /\ tool.phase = "sync_archive"
    /\ SyncArchive
    /\ tool' = [tool EXCEPT !.phase = "sync_directory"]
    /\ UNCHANGED <<directory, archive, tail, lost>>

SyncOldEntry ==
    /\ tool.phase = "sync_directory"
    /\ SyncDirectory
    /\ tool' = [tool EXCEPT !.phase = IF tool.segments = <<>> THEN "verify" ELSE "rename"]
    /\ UNCHANGED <<directory, archive, tail, lost>>

Verify ==
    /\ tool.phase = "verify"
    /\ Finish(IF /\ ReplayAll(directory) = "replayed"
                 /\ NextSequence(directory) = tool.next_sequence
                 /\ RecordsIn(directory) = tool.retained
              THEN "done" ELSE "unverified")
    /\ UNCHANGED <<directory, archive, pending, in_archive, tail, lost>>

-----------------------------------------------------------------------------
(* SyncEarlierMoves, before "nothing to do" is reported.                   *)

SettleArchive ==
    /\ tool.phase = "settle_archive"
    /\ SyncArchive
    /\ tool' = [tool EXCEPT !.phase = "settle_directory"]
    /\ UNCHANGED <<directory, archive, tail, lost>>

SettleDirectory ==
    /\ tool.phase = "settle_directory"
    /\ SyncDirectory
    /\ Finish("nothing_to_do")
    /\ UNCHANGED <<directory, archive, tail, lost>>

\* A failed call, or an exception, ends the run.
ToolFails ==
    /\ tool.phase # "idle"
    /\ Finish("failed")
    /\ UNCHANGED <<directory, archive, pending, in_archive, tail, lost>>

ToolNext ==
    \/ \E dry_run \in BOOLEAN : Run(dry_run)
    \/ EnsureDirectory
    \/ SyncArchiveEntry
    \/ Rename
    \/ SyncNewEntry
    \/ SyncOldEntry
    \/ Verify
    \/ SettleArchive
    \/ SettleDirectory
    \/ ToolFails

-----------------------------------------------------------------------------
(* The rest of the system: the daemon, which opens only a Journal that     *)
(* replays, the quarantine tool, and what stops them.  The journal.lock    *)
(* keeps them apart.                                                       *)

Written == RecordsIn(directory) + RecordsIn(Archived)
Active == Max(DOMAIN directory)
Full == DOMAIN directory # {} => Len(directory[Active]) >= SegmentRecords

\* A Job is created once, by a record no archived or active segment holds yet, and then works
\* and closes.  A closed Job can still receive late facts while it is resident.
Accepts(r) ==
    LET known == r.job \in JobsOf(directory)
    IN  IF r.kind = "created" THEN ~known /\ r.job \notin JobsOf(Archived)
        ELSE known /\ (r.kind = "closed" => ~IsClosed(directory, r.job))

Opens == tool.phase = "idle" /\ ReplayAll(directory) = "replayed"

\* A rotation creates the next segment; its first record may never arrive.
StartSegment ==
    /\ Opens
    /\ Full
    /\ tail = "clean"
    /\ Written < MaxRecords
    /\ directory' = Merge(directory, [f \in {NextSequence(directory)} |-> <<>>])
    /\ tool' = NoTool
    /\ UNCHANGED <<archive, pending, in_archive, tail, lost>>

WriteRecord(r) ==
    /\ Opens
    /\ ~Full
    /\ Written < MaxRecords
    /\ Accepts(r)
    /\ directory' = [directory EXCEPT ![Active] = Append(@, r)]
    /\ tool' = NoTool
    /\ UNCHANGED <<archive, pending, in_archive, lost>>

\* A committed record is synced, with whatever precedes it in its segment.
Commit(r) == WriteRecord(r) /\ tail' = "clean"

\* The daemon is killed inside Commit, after the last byte or before it.
KilledUnsynced(r) == WriteRecord(r) /\ tail' = "unsynced"

KilledTorn ==
    /\ Opens
    /\ ~Full
    /\ tail' = "torn"
    /\ tool' = NoTool
    /\ UNCHANGED <<directory, archive, pending, in_archive, lost>>

\* QuarantineTornTail; module Quarantine has its steps.
QuarantineTornTail ==
    /\ tool.phase = "idle"
    /\ ReplayAll(directory) = "torn_tail"
    /\ tail' = "clean"
    /\ UNCHANGED <<directory, archive, pending, in_archive, tool, lost>>

ToolEnds ==
    /\ tool.phase # "idle"
    /\ tool' = NoTool
    /\ UNCHANGED <<directory, archive, pending, in_archive, tail, lost>>

\* What power loss leaves of the directory's unsynced end: an unsynced record stays, tears or
\* goes, a torn one may go, and so may an empty segment whose entry was not synced.
Surviving(view) ==
    LET last == Max({f \in DOMAIN view : view[f] # <<>>})
        dropped == [view EXCEPT ![last] = Front(@)]
    IN  CASE tail = "unsynced" -> {<<view, "clean">>, <<dropped, "torn">>, <<dropped, "clean">>}
          [] tail = "torn" -> {<<view, "torn">>, <<view, "clean">>}
          [] tail = "clean" ->
                 {<<view, "clean">>}
                 \cup {<<Without(view, {f}), "clean">> : f \in {g \in DOMAIN view : view[g] = <<>>}}

PowerLoss ==
    \E n \in 0 .. Len(pending) :
        LET undone == {pending[i] : i \in n + 1 .. Len(pending)}
            view == Merge(directory, Only(Archived, undone))
        IN  \E image \in Surviving(view) :
                /\ directory' = image[1]
                /\ tail' = image[2]
                /\ lost' = (lost \/ (tail = "unsynced" /\ image[1] # view))
                /\ archive' = IF archive = None THEN None ELSE Without(archive, undone)
                /\ pending' = <<>>
                /\ in_archive' = 0
                /\ tool' = IF tool.phase = "idle" THEN tool ELSE NoTool

Next ==
    \/ ToolNext
    \/ StartSegment
    \/ \E r \in Records : Commit(r) \/ KilledUnsynced(r)
    \/ KilledTorn
    \/ QuarantineTornTail
    \/ ToolEnds
    \/ PowerLoss

Spec == Init /\ [][Next]_vars

-----------------------------------------------------------------------------
\* Between any two steps of a prune, and after any crash or rerun, no record of a Job that is
\* still open has left the Journal directory, and the Journal continues after the last record
\* ever written: pruning never resets or reuses a sequence.  The exception, here and below:
\* power loss drops a record that was never synced and that replay, and so the tool, took for
\* written.
PruneKeepsWhatReplayNeeds ==
    ~lost => /\ \A j \in JobsOf(Archived) : IsClosed(Merge(directory, Archived), j)
             /\ NextSequence(directory) = Written + 1

Interrupted == tool.phase = "idle" /\ ReplayAll(directory) \notin {"replayed", "torn_tail"}
Resumable ==
    /\ ReplayInterrupted # 0
    /\ PrunableLength(MergedView(ReplayInterrupted)) > ReplayInterrupted

\* A Journal that a prune left unreplayable is one the next prune resumes, as long as its tail
\* is whole: the archived run it needs is found and lies inside the prunable prefix.  The moves
\* meet no conflict and the replay after them finds nothing wrong.
InterruptedPruneResumes ==
    ~lost => /\ Interrupted /\ tail # "torn" => Resumable
             /\ tool.report \notin {"conflict", "unverified"}

\* While a report of kDone or kNothingToDo stands, power loss can undo no move.
ReportedMovesAreSettled == tool.report \in {"done", "nothing_to_do"} => pending = <<>>

\* PrunableLength is the length of the longest proper prefix whose Jobs are all closed in it.
PrunableLengthIsLongest ==
    ReplayAll(directory) = "replayed" =>
        LET segments == Segments(directory)
            Prefix(k) == Only(directory, {segments[i] : i \in 1 .. k})
            Rest(k) == Without(directory, DOMAIN Prefix(k))
            Whole(k) == \A j \in JobsOf(Prefix(k)) :
                            IsClosed(Prefix(k), j) /\ j \notin JobsOf(Rest(k))
        IN  PrunableLength(directory) =
                Max({k \in 0 .. Len(segments) : k = 0 \/ (Whole(k) /\ RecordsIn(Rest(k)) > 0)})

=============================================================================
