----------------------------- MODULE Quarantine -----------------------------
(***************************************************************************)
(* QuarantineTornTail of src/journal/maintenance.cpp beside the daemon's   *)
(* segment writer.  The tool moves a torn tail into a quarantine file and  *)
(* cuts the segment, one file-system call per step.  Any call may fail,    *)
(* and the process or the machine may stop between any two of them.        *)
(*                                                                         *)
(* A quarantine file is known by the segment and the offset in its name.   *)
(* The tool and the daemon exclude each other through journal.lock.  Every *)
(* entry of the directory is a regular file with one hard link.            *)
(***************************************************************************)
EXTENDS SegmentJournal

VARIABLES
    quarantine,   \* <<segment, offset>> -> content of <segment>.torn-<offset>
    quarantined,  \* quarantine files whose directory entry is durable
    tool,         \* the running maintenance process, and what the last one reported
    cut           \* every tail a run has cut off a segment (history)

toolVars == <<quarantine, quarantined, tool, cut>>
qvars == <<vars, toolVars>>

\* A report is None before the first run; kRefused is kept apart from a conflict, and kFailed
\* from a failed verification.
NoTool == [phase |-> "idle", report |-> None, segment |-> None, tail |-> <<>>, records |-> 0]

QInit ==
    /\ Init
    /\ quarantine = [q \in {} |-> EmptyFile]
    /\ quarantined = {}
    /\ tool = NoTool
    /\ cut = {}

-----------------------------------------------------------------------------
\* The end of the last complete record.
CutOffset(data) == Len(Lines(data)) * RecordBytes
TornBytes(data) == SubSeq(data, CutOffset(data) + 1, Len(data))

RecordCount(fs) == MapThenSumSet(LAMBDA f : Len(Lines(fs[f].data)), DOMAIN fs)

Target == <<tool.segment, CutOffset(files[tool.segment].data)>>

\* The earlier cut a clean Journal may still owe its sync: the highest segment ends at the
\* offset that a quarantine file names.
EarlierCut(fs) ==
    /\ DOMAIN fs # {}
    /\ <<Highest(fs), Len(fs[Highest(fs)].data)>> \in DOMAIN quarantine

Finish(report) == tool' = [NoTool EXCEPT !.report = report]

\* What a clean Journal is reported as.
Clean == IF ReplayStatus(files) = "sequence_exhausted" THEN "refused" ELSE "nothing_to_do"

-----------------------------------------------------------------------------
(* QuarantineTornTail, up to its first change.                             *)

\* Mutant: a clean Journal is reported without looking for an earlier cut.
ReportClean ==
    /\ ReplayStatus(files) \in {"replayed", "sequence_exhausted"}
    /\ Finish(Clean)

RunClean ==
    /\ ReplayStatus(files) \in {"replayed", "sequence_exhausted"}
    /\ IF EarlierCut(files)
       THEN tool' = [NoTool EXCEPT !.phase = "resync", !.segment = Highest(files)]
       ELSE Finish(Clean)

RunTorn ==
    LET segment == Highest(files)
        tail == TornBytes(files[segment].data)
        name == <<segment, CutOffset(files[segment].data)>>
        started == [NoTool EXCEPT !.segment = segment, !.tail = tail,
                                  !.records = RecordCount(files)]
    IN  /\ ReplayStatus(files) = "torn_tail"
        /\ IF name \notin DOMAIN quarantine
           THEN tool' = [started EXCEPT !.phase = "create"]
           ELSE IF IsPrefix(quarantine[name].data, tail)
           THEN tool' = [started EXCEPT !.phase = "append"]
           ELSE Finish("conflict")

RunCorrupt == ReplayStatus(files) = "corrupt" /\ Finish("refused")

Run ==
    /\ tool.phase = "idle"
    /\ \/ writer.phase # "closed" /\ Finish("refused")
       \/ writer.phase = "closed" /\ (RunClean \/ RunTorn \/ RunCorrupt)
    /\ UNCHANGED <<vars, quarantine, quarantined, cut>>

-----------------------------------------------------------------------------
(* WriteQuarantine: every torn byte durable in the quarantine file.        *)

CreateQuarantine ==
    /\ tool.phase = "create"
    /\ quarantine' = [q \in DOMAIN quarantine \cup {Target} |->
                         IF q = Target THEN EmptyFile ELSE quarantine[q]]
    /\ tool' = [tool EXCEPT !.phase = "append"]
    /\ UNCHANGED <<vars, quarantined, cut>>

\* Mutant: a file that already holds the whole tail is taken to be durable.
AppendTrustsExisting ==
    LET held == Len(quarantine[Target].data)
    IN  /\ tool.phase = "append"
        /\ \/ /\ held = Len(tool.tail)
              /\ tool' = [tool EXCEPT !.phase = "sync_directory"]
              /\ UNCHANGED quarantine
           \/ \E n \in 1 .. Len(tool.tail) - held :
                  /\ quarantine' = [quarantine EXCEPT
                         ![Target].data = @ \o SubSeq(tool.tail, held + 1, held + n)]
                  /\ tool' = [tool EXCEPT
                         !.phase = IF held + n = Len(tool.tail) THEN "sync_tail" ELSE "append"]
        /\ UNCHANGED <<vars, quarantined, cut>>

\* One write of AppendDurably's loop: it accepts some of what is missing.
AppendTail ==
    LET held == Len(quarantine[Target].data)
    IN  /\ tool.phase = "append"
        /\ \/ /\ held = Len(tool.tail)
              /\ tool' = [tool EXCEPT !.phase = "sync_tail"]
              /\ UNCHANGED quarantine
           \/ \E n \in 1 .. Len(tool.tail) - held :
                  /\ quarantine' = [quarantine EXCEPT
                         ![Target].data = @ \o SubSeq(tool.tail, held + 1, held + n)]
                  /\ tool' = [tool EXCEPT
                         !.phase = IF held + n = Len(tool.tail) THEN "sync_tail" ELSE "append"]
        /\ UNCHANGED <<vars, quarantined, cut>>

SyncTail ==
    /\ tool.phase = "sync_tail"
    /\ quarantine' = [quarantine EXCEPT ![Target].disk = quarantine[Target].data]
    /\ tool' = [tool EXCEPT !.phase = "sync_directory"]
    /\ UNCHANGED <<vars, quarantined, cut>>

\* SyncDirectory makes every entry of the Journal directory durable.
SyncDirectory ==
    /\ linked' = DOMAIN files
    /\ quarantined' = DOMAIN quarantine

SyncQuarantineEntry ==
    /\ tool.phase = "sync_directory"
    /\ SyncDirectory
    /\ tool' = [tool EXCEPT !.phase = "truncate"]
    /\ UNCHANGED <<files, writer, committed, quarantine, cut>>

-----------------------------------------------------------------------------
(* The cut: ftruncate, fdatasync, and the verification by replay.          *)

Truncate ==
    /\ tool.phase = "truncate"
    /\ files' = [files EXCEPT ![tool.segment].data = SubSeq(@, 1, Target[2])]
    /\ cut' = cut \cup {[segment |-> tool.segment, offset |-> Target[2], tail |-> tool.tail]}
    /\ tool' = [tool EXCEPT !.phase = "sync_cut"]
    /\ UNCHANGED <<linked, writer, committed, quarantine, quarantined>>

SyncCut ==
    /\ tool.phase = "sync_cut"
    /\ Sync(tool.segment)
    /\ tool' = [tool EXCEPT !.phase = "verify"]
    /\ UNCHANGED <<linked, writer, committed, quarantine, quarantined, cut>>

Verify ==
    /\ tool.phase = "verify"
    /\ Finish(IF /\ ReplayStatus(files) \in {"replayed", "sequence_exhausted"}
                 /\ RecordCount(files) = tool.records
              THEN "done" ELSE "unverified")
    /\ UNCHANGED <<vars, quarantine, quarantined, cut>>

\* ResyncEarlierCut repeats the cut where the segment ends: no byte changes, its size is
\* synced ...
ResyncEarlierCut ==
    /\ tool.phase = "resync"
    /\ Sync(tool.segment)
    /\ tool' = [tool EXCEPT !.phase = "sync_earlier"]
    /\ UNCHANGED <<linked, writer, committed, quarantine, quarantined, cut>>

\* ... and then the directory, before the Journal is reported clean.
SyncEarlierEntry ==
    /\ tool.phase = "sync_earlier"
    /\ SyncDirectory
    /\ Finish(Clean)
    /\ UNCHANGED <<files, writer, committed, quarantine, cut>>

\* A failed call, or an exception, ends the run.
ToolFails ==
    /\ tool.phase # "idle"
    /\ Finish("failed")
    /\ UNCHANGED <<vars, quarantine, quarantined, cut>>

ToolNext ==
    \/ Run
    \/ CreateQuarantine
    \/ AppendTail
    \/ SyncTail
    \/ SyncQuarantineEntry
    \/ Truncate
    \/ SyncCut
    \/ Verify
    \/ ResyncEarlierCut
    \/ SyncEarlierEntry
    \/ ToolFails

-----------------------------------------------------------------------------
(* The daemon, which opens the Journal only while no tool holds its lock.  *)

DaemonOpens ==
    /\ tool.phase = "idle"
    /\ Open
    /\ tool' = NoTool
    /\ UNCHANGED <<quarantine, quarantined, cut>>

\* The writer's directory sync also reaches the entries of quarantine files.
DaemonSyncsEntry ==
    /\ SyncEntry
    /\ quarantined' = IF writer'.phase = "write" THEN DOMAIN quarantine ELSE quarantined
    /\ UNCHANGED <<quarantine, tool, cut>>

DaemonWrites ==
    /\ \/ \E r \in Records : Commit(r)
       \/ CreateSegment
       \/ SyncSegment
       \/ Write
       \/ SyncRecord
    /\ UNCHANGED toolVars

AnyProcessEnds ==
    /\ ProcessEnds
    /\ tool' = IF tool.phase = "idle" THEN tool ELSE NoTool
    /\ UNCHANGED <<quarantine, quarantined, cut>>

MachineStops ==
    /\ PowerLoss
    /\ \E lost \in SUBSET (DOMAIN quarantine \ quarantined) :
           LET kept == DOMAIN quarantine \ lost
           IN  /\ \E image \in [kept -> UNION {Images(quarantine[q]) : q \in kept}] :
                      /\ \A q \in kept : image[q] \in Images(quarantine[q])
                      /\ quarantine' = [q \in kept |-> [data |-> image[q], disk |-> image[q]]]
               /\ quarantined' = kept
    /\ tool' = IF tool.phase = "idle" THEN tool ELSE NoTool
    /\ UNCHANGED cut

QNext ==
    \/ ToolNext
    \/ DaemonOpens
    \/ DaemonSyncsEntry
    \/ DaemonWrites
    \/ AnyProcessEnds
    \/ MachineStops

QSpec == QInit /\ [][QNext]_qvars

-----------------------------------------------------------------------------
\* Whatever fails or stops, and however often the tool is run: the bytes of a tail that was cut
\* are the first bytes of its quarantine file, synced, behind a durable directory entry.
EvidenceIsKept ==
    \A c \in cut :
        LET q == <<c.segment, c.offset>>
        IN  /\ q \in quarantined
            /\ IsPrefix(c.tail, quarantine[q].data)
            /\ Certain(quarantine[q], Len(c.tail))

\* A cut that went through is never found wrong by the replay after it.  While a report of kDone
\* or kNothingToDo stands, the segment cannot grow its old tail back: a highest segment that ends
\* where a tail was cut is the same in the page cache and on the disk.
ReportedCutIsDurable ==
    /\ tool.report # "unverified"
    /\ tool.report \in {"done", "nothing_to_do"} /\ DOMAIN files # {} =>
        LET file == files[Highest(files)]
        IN  (\E c \in cut : c.segment = Highest(files) /\ c.offset = Len(file.data))
                => file.data = file.disk

=============================================================================
